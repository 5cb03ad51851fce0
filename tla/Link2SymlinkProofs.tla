------------------------- MODULE Link2SymlinkProofs -------------------------
(***************************************************************************)
(* For every set of names, of files and of tracees, and whatever host      *)
(* calls fail: what a path that was not mishandled counts, shows and keeps *)
(* on the disk is what the guests linked, unlinked and renamed; and a name *)
(* shows no other file, mishandled or not, unless two met at its path.     *)
(***************************************************************************)
EXTENDS Link2Symlink, SequenceTheorems, FunctionTheorems, FiniteSetTheorems, TLAPS

(***************************************************************************)
(* What holds of every path, mishandled or not.                            *)
(***************************************************************************)

\* A file is in one place: under a name, or at a final path of its home.
PlacesOK ==
  /\ \A a \in Names : data[Name(a)] # NoFile =>
       /\ meant[a] = data[Name(a)] /\ home[data[Name(a)]] = NoPath
       /\ link[Name(a)] = NoPath
       /\ \A b \in Names : data[Name(b)] = data[Name(a)] => b = a
  /\ \A i \in Inters : data[i] = NoFile
  /\ \A i \in Inters, n \in 1 .. MaxCount :
       data[Final(i, n)] # NoFile => home[data[Final(i, n)]] = i

\* A name is linked to an intermediate path, that one to a final path of its own; a
\* final path is a link only where a handler moved a name that had become one.
LinksOK ==
  /\ \A a \in Names : link[Name(a)] \in Inters \cup {NoPath}
  /\ \A i \in Inters : link[i] = NoPath \/ \E n \in 1 .. MaxCount : link[i] = Final(i, n)
  /\ \A i \in Inters, n \in 1 .. MaxCount :
       link[Final(i, n)] # NoPath => i \in broken /\ link[Final(i, n)] \in Inters \cap broken

\* The name that a handler has moved away, to make it a link.
MovedAway(a) ==
  \E n \in 1 .. Len(handler.todo) - 1 : handler.todo[n] = Do("symlink", handler.path, Name(a))

\* A file that a name should show is there, or was moved to a path by a handler.
MeantOK ==
  \A a \in Names : meant[a] # NoFile =>
    /\ link[Name(a)] # NoPath => home[meant[a]] \in {link[Name(a)]} \cup broken
    /\ link[Name(a)] = NoPath /\ data[Name(a)] = NoFile =>
         \/ home[meant[a]] \in broken
         \/ MovedAway(a) /\ handler.todo[1].do = "symlink" /\ home[meant[a]] = handler.path

(***************************************************************************)
(* What holds of a path that was not mishandled.                           *)
(***************************************************************************)

\* The names of i, but for those that are about to be removed.
Takes(t, i, a) == call[t].dec = i /\ call[t].to = Name(a)
Kept(i) == {a \in NamesOf(i) : \A t \in Tracees : ~ Takes(t, i, a)}

\* Each count that was lowered is for a name of its own.
LoweredOK(i) ==
  /\ \A t \in Tracees : call[t].dec = i => link[call[t].to] = i
  /\ \A t, u \in Tracees :
       call[t].dec = i /\ call[u].dec = i /\ call[t].to = call[u].to => t = u

\* The one file at the final paths of i is at that of n names, or there is none.
Stored(i, n) ==
  /\ n \in 1 .. MaxCount /\ data[Final(i, n)] # NoFile
  /\ \A m \in 1 .. MaxCount : m # n => data[Final(i, m)] = NoFile

Bare(i) == \A m \in 1 .. MaxCount : data[Final(i, m)] = NoFile

\* n names are kept, and should show the file at final path m.
Shown(i, n, m) ==
  /\ Cardinality(Kept(i)) = n
  /\ \A a \in Kept(i) : meant[a] = data[Final(i, m)]

Unlinked(i)  == link[i] = NoPath /\ Bare(i) /\ Kept(i) = {}
Linked(i, n) == link[i] = Final(i, n) /\ Stored(i, n) /\ Shown(i, n, n)
Sound(i)     == Unlinked(i) \/ \E n \in 1 .. MaxCount : Linked(i, n)

\* The handler has moved name p and not yet made it a link.
Moved1(i, p) ==
  /\ Stored(i, 2) /\ Kept(i) = {} /\ ~ Exists(p)
  /\ \E a \in Names : p = Name(a) /\ meant[a] = data[Final(i, 2)]
  /\ handler.shows = data[Final(i, 2)]

\* The calls of link() that are left; i was still unused, or had n names before.
Linking(i, p, q) ==
  \/ handler.todo = FirstLink(p, i) \o <<Do("symlink", i, q)>> /\ Unlinked(i)
  \/ /\ handler.todo = <<Do("symlink", Final(i, 2), i), Do("symlink", i, p), Do("symlink", i, q)>>
     /\ link[i] = NoPath /\ Moved1(i, p)
  \/ /\ handler.todo = <<Do("symlink", i, p), Do("symlink", i, q)>>
     /\ link[i] = Final(i, 2) /\ Moved1(i, p)
  \/ \E n \in 1 .. MaxCount - 1 :
       /\ \/ /\ handler.todo = Recounted(i, Final(i, n), Final(i, n + 1)) \o <<Do("symlink", i, q)>>
             /\ Linked(i, n) /\ handler.shows = data[Final(i, n)]
          \/ /\ handler.todo = <<Do("unlink", NoPath, i), Do("symlink", Final(i, n + 1), i),
                                 Do("symlink", i, q)>>
             /\ link[i] = Final(i, n) /\ Stored(i, n + 1) /\ Shown(i, n, n + 1)
             /\ handler.shows = data[Final(i, n + 1)]
          \/ /\ handler.todo = <<Do("symlink", Final(i, n + 1), i), Do("symlink", i, q)>>
             /\ link[i] = NoPath /\ Stored(i, n + 1) /\ Shown(i, n, n + 1)
             /\ handler.shows = data[Final(i, n + 1)]
          \/ /\ handler.todo = <<Do("symlink", i, q)>>
             /\ link[i] = Final(i, n + 1) /\ Stored(i, n + 1) /\ Shown(i, n, n + 1)
             /\ handler.shows = data[Final(i, n + 1)]

\* The calls of decrement_link_count() that are left.
Lowering(i) ==
  \/ \E n \in 1 .. MaxCount - 1 :
       \/ /\ handler.todo = Recounted(i, Final(i, n + 1), Final(i, n))
          /\ link[i] = Final(i, n + 1) /\ Stored(i, n + 1) /\ Shown(i, n, n + 1)
       \/ /\ handler.todo = <<Do("unlink", NoPath, i), Do("symlink", Final(i, n), i)>>
          /\ link[i] = Final(i, n + 1) /\ Stored(i, n) /\ Shown(i, n, n)
       \/ /\ handler.todo = <<Do("symlink", Final(i, n), i)>>
          /\ link[i] = NoPath /\ Stored(i, n) /\ Shown(i, n, n)
  \/ /\ handler.todo = <<Do("unlink", NoPath, i), Do("unlink", NoPath, Final(i, 1))>>
     /\ link[i] = Final(i, 1) /\ Stored(i, 1) /\ Kept(i) = {}
  \/ /\ handler.todo = <<Do("unlink", NoPath, Final(i, 1))>>
     /\ link[i] = NoPath /\ Stored(i, 1) /\ Kept(i) = {}

Working(i) ==
  \/ Current.op = "link" /\ Linking(i, Current.from, Current.to)
  \/ Lowering(i)
  \/ handler.todo = <<>> /\ Sound(i)

PathOK(i) == LoweredOK(i) /\ IF handler.path = i THEN Working(i) ELSE Sound(i)

(***************************************************************************)
(* What the handler may still do.                                          *)
(***************************************************************************)
CallOK(c) ==
  \E i \in Inters : \E n, m \in 1 .. MaxCount : \E a \in Names :
    /\ i = handler.path \/ {i, handler.path} \subseteq broken
    /\ \/ c = Do("rename", Name(a), Final(i, n)) /\ i = handler.path /\ Current.op = "link"
       \/ c = Do("rename", Final(i, m), Final(i, n))
       \/ c = Do("unlink", NoPath, i)
       \/ c = Do("unlink", NoPath, Final(i, n))
       \/ c = Do("symlink", Final(i, n), i)
       \/ c = Do("symlink", i, Name(a)) /\ i = handler.path /\ Current.op = "link"

HandlerOK ==
  handler # NoHandler =>
    /\ handler.tracee \in Tracees /\ Current.op # "none" /\ Current.half = "proot"
    /\ IF Current.op = "link" THEN Current.dec = NoPath ELSE handler.path = Current.dec
    /\ \A n \in 1 .. Len(handler.todo) : CallOK(handler.todo[n])
    /\ handler.todo # <<>> => handler.path \in Inters
    /\ \/ handler.shows = NoFile \/ Current.op # "link"
       \/ home[handler.shows] \in {handler.path} \cup broken
       \/ \E a \in Names : handler.todo # <<>> /\
            handler.todo[1] = Do("rename", Name(a), Final(handler.path, 2))

CallsOK ==
  \A t \in Tracees :
    /\ call[t].op = "none" => call[t] = NoCall
    /\ call[t].op # "none" =>
         /\ \E a \in Names : call[t].from = Name(a)
         /\ \E a \in Names : call[t].to = Name(a)
         /\ call[t].half \in {"proot", "kernel"}
    /\ call[t].half = "proot" => handler.tracee = t

LinkInv ==
  /\ LinkTypeOK /\ PlacesOK /\ LinksOK /\ MeantOK /\ HandlerOK /\ CallsOK
  /\ \A i \in Inters \ broken : PathOK(i)

(***************************************************************************)
(* What holds of a path at which no two files met, mishandled or not.      *)
(***************************************************************************)

\* Path p holds file f, if any.
Own(p, f) == link[p] = NoPath /\ data[p] \in {NoFile, f}

\* Path p holds what the names of i should show, and what a new name of i will.
OfNames(i, p) == i \in mixed \/ \A a \in NamesOf(i) : Own(p, meant[a])
OfNew(i, p)   == i \in mixed \/ Own(p, handler.shows)

NamesOwn == \A i \in Inters : link[i] # NoPath => OfNames(i, link[i])

\* Name a was moved to final path p of i, and is not yet a link to i.
OfMoved(i, p, a) ==
  i \in mixed \/ /\ Own(p, handler.shows)
                 /\ ~ Exists(Name(a)) /\ meant[a] = handler.shows

\* The calls of move_and_symlink_path() that are left.
LinkPlan(i, q) ==
  \/ \E a \in Names :
       \/ handler.todo = <<Do("rename", Name(a), Final(i, 2)), Do("symlink", Final(i, 2), i),
                           Do("symlink", i, Name(a)), Do("symlink", i, q)>>
       \/ /\ handler.todo = <<Do("symlink", Final(i, 2), i), Do("symlink", i, Name(a)),
                              Do("symlink", i, q)>>
          /\ OfMoved(i, Final(i, 2), a) /\ (i \in mixed \/ NamesOf(i) = {})
       \/ /\ handler.todo = <<Do("symlink", i, Name(a)), Do("symlink", i, q)>>
          /\ link[i] # NoPath /\ OfMoved(i, link[i], a)
  \/ \E n, m \in 1 .. MaxCount :
       \/ /\ handler.todo = <<Do("rename", Final(i, n), Final(i, m)), Do("unlink", NoPath, i),
                              Do("symlink", Final(i, m), i), Do("symlink", i, q)>>
          /\ n # m /\ link[i] = Final(i, n) /\ OfNew(i, Final(i, n))
       \/ /\ handler.todo = <<Do("unlink", NoPath, i), Do("symlink", Final(i, m), i),
                              Do("symlink", i, q)>>
          /\ OfNew(i, Final(i, m)) /\ OfNames(i, Final(i, m))
       \/ /\ handler.todo = <<Do("symlink", Final(i, m), i), Do("symlink", i, q)>>
          /\ OfNew(i, Final(i, m)) /\ OfNames(i, Final(i, m))
  \/ /\ handler.todo = <<Do("symlink", i, q)>>
     /\ link[i] # NoPath => OfNew(i, link[i])

\* The calls of decrement_link_count() that are left.
LowerPlan(i) ==
  \E n, m \in 1 .. MaxCount :
    \/ /\ handler.todo = <<Do("rename", Final(i, n), Final(i, m)), Do("unlink", NoPath, i),
                           Do("symlink", Final(i, m), i)>>
       /\ n # m /\ link[i] = Final(i, n)
    \/ /\ handler.todo = <<Do("unlink", NoPath, i), Do("symlink", Final(i, m), i)>>
       /\ OfNames(i, Final(i, m))
    \/ handler.todo = <<Do("symlink", Final(i, m), i)>> /\ OfNames(i, Final(i, m))
    \/ handler.todo = <<Do("unlink", NoPath, i), Do("unlink", NoPath, Final(i, n))>>
    \/ handler.todo = <<Do("unlink", NoPath, Final(i, n))>>

PlanOK ==
  \/ handler.todo = <<>>
  \/ \E i \in Inters :
       \/ Current.op = "link" /\ i = handler.path /\ LinkPlan(i, Current.to)
       \/ LowerPlan(i)

OwnInv == NamesOwn /\ PlanOK

\* Names, intermediate paths and final paths are told apart by their numbers.
LEMMA PathFacts ==
  /\ \A a \in Names : Name(a) \in Paths \ Inters /\ Name(a) # NoPath /\ Name(a)[1] = a
  /\ \A i \in Inters : i \in Paths /\ i # NoPath /\ Count(i) = 0
  /\ \A i \in Inters, n \in 1 .. MaxCount :
       Final(i, n) \in Paths \ Inters /\ Final(i, n) # NoPath /\ Count(Final(i, n)) = n
  /\ \A a \in Names, i \in Inters, n \in 1 .. MaxCount : Final(i, n) # Name(a)
  /\ \A i, j \in Inters, n, m \in 1 .. MaxCount : Final(i, n) = Final(j, m) => i = j /\ n = m
  /\ \A p \in Paths : \/ \E a \in Names : p = Name(a)
                      \/ p \in Inters
                      \/ \E i \in Inters, n \in 1 .. MaxCount : p = Final(i, n)
<1>1. \A i \in Inters : \E a \in Names, k \in 1 .. MaxSuffix : i = <<a, k, 0>>
  BY DEF Inters, Inter
<1>2. \A a \in Names : Name(a) \in Paths \ Inters /\ Name(a) # NoPath /\ Name(a)[1] = a
  BY <1>1, LinkAssumption DEF Name, Paths, NoPath
<1>3. \A i \in Inters : i \in Paths /\ i # NoPath /\ Count(i) = 0
  BY <1>1 DEF Paths, NoPath, Count
<1>4. ASSUME NEW i \in Inters, NEW n \in 1 .. MaxCount
      PROVE  /\ Final(i, n) \in Paths \ Inters /\ Final(i, n) # NoPath /\ Count(Final(i, n)) = n
             /\ \A a \in Names : Final(i, n) # Name(a)
  <2>1. PICK a \in Names, k \in 1 .. MaxSuffix : i = <<a, k, 0>>
    BY <1>1
  <2>2. Final(i, n) = <<a, k, n>>
    BY <2>1 DEF Final
  <2>3. Final(i, n) \notin Inters
    BY <1>1, <2>2
  <2> QED
    BY <2>2, <2>3 DEF Paths, NoPath, Count, Name
<1>5. ASSUME NEW i \in Inters, NEW j \in Inters, NEW n \in 1 .. MaxCount, NEW m \in 1 .. MaxCount,
             Final(i, n) = Final(j, m)
      PROVE  i = j /\ n = m
  <2>1. PICK a \in Names, k \in 1 .. MaxSuffix : i = <<a, k, 0>>
    BY <1>1
  <2>2. PICK b \in Names, l \in 1 .. MaxSuffix : j = <<b, l, 0>>
    BY <1>1
  <2>3. <<a, k, n>> = <<b, l, m>>
    BY <1>5, <2>1, <2>2 DEF Final
  <2> QED
    BY <2>1, <2>2, <2>3
<1>6. \A p \in Paths : \/ \E a \in Names : p = Name(a)
                       \/ p \in Inters
                       \/ \E i \in Inters, n \in 1 .. MaxCount : p = Final(i, n)
  BY DEF Paths
<1> QED
  BY <1>2, <1>3, <1>4, <1>5, <1>6

(***************************************************************************)
(* Steps that leave a path as it is.                                       *)
(***************************************************************************)

\* As many names of i are kept, which should show what kept names should show before.
SameKept(i) ==
  /\ Cardinality(Kept(i)') = Cardinality(Kept(i)) /\ (Kept(i) = {} => Kept(i)' = {})
  /\ \A a \in Kept(i)' : \E b \in Kept(i) : meant'[a] = meant[b]

SameStore(i) ==
  link'[i] = link[i] /\ \A n \in 1 .. MaxCount : data'[Final(i, n)] = data[Final(i, n)]

\* The handler of i and the name it has moved away are as they were.
SameWork(i) ==
  /\ handler' = handler /\ Current' = Current
  /\ \A a \in Names : MovedAway(a) /\ ~ Exists(Name(a)) =>
       ~ Exists(Name(a))' /\ meant'[a] = meant[a]

\* The files and names of i are what they were.
LEMMA StoreTransfers ==
  ASSUME NEW i \in Inters, SameStore(i), SameKept(i)
  PROVE  /\ \A n : Stored(i, n) => Stored(i, n)'
         /\ \A n, m : m \in 1 .. MaxCount /\ Shown(i, n, m) => Shown(i, n, m)'
         /\ Unlinked(i) => Unlinked(i)'
         /\ \A n : Linked(i, n) => Linked(i, n)'
         /\ Sound(i) => Sound(i)'
<1>1. \A n : Stored(i, n) => Stored(i, n)'
  BY DEF SameStore, Stored
<1>2. ASSUME NEW n, NEW m \in 1 .. MaxCount, Shown(i, n, m) PROVE Shown(i, n, m)'
  BY <1>2 DEF SameStore, SameKept, Shown
<1>3. Unlinked(i) => Unlinked(i)'
  BY DEF SameStore, SameKept, Unlinked, Bare
<1>4. ASSUME NEW n, Linked(i, n) PROVE Linked(i, n)'
  <2>1. link'[i] = Final(i, n) /\ n \in 1 .. MaxCount
    BY <1>4 DEF Linked, SameStore, Stored
  <2> QED
    BY <1>1, <1>2, <1>4, <2>1 DEF Linked
<1>5. Sound(i) => Sound(i)'
  BY <1>3, <1>4 DEF Sound
<1> QED
  BY <1>1, <1>2, <1>3, <1>4, <1>5

\* What the handler of i still has to do is what it was.
LEMMA WorkTransfers ==
  ASSUME NEW i \in Inters, SameStore(i), SameKept(i), SameWork(i), handler.path = i, Working(i)
  PROVE  Working(i)'
<1>1. /\ \A n : Stored(i, n) => Stored(i, n)'
      /\ \A n, m : m \in 1 .. MaxCount /\ Shown(i, n, m) => Shown(i, n, m)'
      /\ Unlinked(i) => Unlinked(i)'
      /\ \A n : Linked(i, n) => Linked(i, n)'
      /\ Sound(i) => Sound(i)'
  BY StoreTransfers
<1>2. handler' = handler /\ Current' = Current /\ link'[i] = link[i]
      /\ \A n \in 1 .. MaxCount : data'[Final(i, n)] = data[Final(i, n)]
  BY DEF SameStore, SameWork
<1>3. Kept(i) = {} => Kept(i)' = {}
  BY DEF SameKept
<1>4. ASSUME NEW p, Moved1(i, p),
             \E n \in 1 .. Len(handler.todo) - 1 : handler.todo[n] = Do("symlink", i, p)
      PROVE  Moved1(i, p)'
  <2>1. PICK a \in Names : p = Name(a) /\ meant[a] = data[Final(i, 2)]
    BY <1>4 DEF Moved1
  <2>2. Stored(i, 2) /\ Kept(i) = {} /\ ~ Exists(p) /\ handler.shows = data[Final(i, 2)]
    BY <1>4 DEF Moved1
  <2>3. MovedAway(a)
    BY <1>4, <2>1 DEF MovedAway
  <2>4. ~ Exists(p)' /\ meant'[a] = meant[a]
    BY <2>1, <2>2, <2>3 DEF SameWork
  <2>5. 2 \in 1 .. MaxCount
    BY LinkAssumption
  <2> QED
    BY <1>1, <1>2, <1>3, <2>1, <2>2, <2>4, <2>5 DEF Moved1
<1>5. ASSUME NEW p, NEW q, Linking(i, p, q) PROVE Linking(i, p, q)'
  <2>1. CASE handler.todo = FirstLink(p, i) \o <<Do("symlink", i, q)>> /\ Unlinked(i)
    BY <1>1, <1>2, <2>1 DEF Linking
  <2>2. CASE /\ handler.todo = <<Do("symlink", Final(i, 2), i), Do("symlink", i, p),
                  Do("symlink", i, q)>>
             /\ link[i] = NoPath /\ Moved1(i, p)
    <3>1. Moved1(i, p)'
      <4>1. handler.todo[2] = Do("symlink", i, p) /\ Len(handler.todo) = 3
        BY <2>2
      <4> QED
        BY <1>4, <2>2, <4>1
    <3> QED
      BY <1>2, <2>2, <3>1 DEF Linking
  <2>3. CASE /\ handler.todo = <<Do("symlink", i, p), Do("symlink", i, q)>>
             /\ link[i] = Final(i, 2) /\ Moved1(i, p)
    <3>1. Moved1(i, p)'
      <4>1. handler.todo[1] = Do("symlink", i, p) /\ Len(handler.todo) = 2
        BY <2>3
      <4> QED
        BY <1>4, <2>3, <4>1
    <3> QED
      BY <1>2, <2>3, <3>1 DEF Linking
  <2>4. ASSUME NEW n \in 1 .. MaxCount - 1,
       \/ /\ handler.todo = Recounted(i, Final(i, n), Final(i, n + 1)) \o <<Do("symlink", i, q)>>
          /\ Linked(i, n) /\ handler.shows = data[Final(i, n)]
       \/ /\ handler.todo = <<Do("unlink", NoPath, i), Do("symlink", Final(i, n + 1), i),
                              Do("symlink", i, q)>>
          /\ link[i] = Final(i, n) /\ Stored(i, n + 1) /\ Shown(i, n, n + 1)
          /\ handler.shows = data[Final(i, n + 1)]
       \/ /\ handler.todo = <<Do("symlink", Final(i, n + 1), i), Do("symlink", i, q)>>
          /\ link[i] = NoPath /\ Stored(i, n + 1) /\ Shown(i, n, n + 1)
          /\ handler.shows = data[Final(i, n + 1)]
       \/ /\ handler.todo = <<Do("symlink", i, q)>>
          /\ link[i] = Final(i, n + 1) /\ Stored(i, n + 1) /\ Shown(i, n, n + 1)
          /\ handler.shows = data[Final(i, n + 1)]
       PROVE Linking(i, p, q)'
    <3>1. n \in 1 .. MaxCount /\ n + 1 \in 1 .. MaxCount
      BY LinkAssumption
    <3>2. data'[Final(i, n)] = data[Final(i, n)] /\ data'[Final(i, n + 1)] = data[Final(i, n + 1)]
      BY <1>2, <3>1
    <3> QED
      BY <1>1, <1>2, <2>4, <3>1, <3>2 DEF Linking
  <2> QED
    BY <1>5, <2>1, <2>2, <2>3, <2>4 DEF Linking
<1>6. Lowering(i) => Lowering(i)'
  <2>1. \A n \in 1 .. MaxCount - 1 : n \in 1 .. MaxCount /\ n + 1 \in 1 .. MaxCount
    BY LinkAssumption
  <2> QED
    BY <1>1, <1>2, <1>3, <2>1 DEF Lowering
<1> QED
  BY <1>1, <1>2, <1>5, <1>6 DEF Working

\* Neither a path in use nor one that a handler works on is disturbed.
LEMMA PathTransfers ==
  ASSUME NEW i \in Inters, PathOK(i), LoweredOK(i)', SameStore(i), SameKept(i),
         IF handler.path = i THEN SameWork(i) ELSE handler'.path # i
  PROVE  PathOK(i)'
<1>1. CASE handler.path = i
  <2>1. Working(i)'
    BY <1>1, WorkTransfers DEF PathOK
  <2>2. handler'.path = i
    BY <1>1 DEF SameWork
  <2> QED
    BY <2>1, <2>2 DEF PathOK
<1>2. CASE handler.path # i
  <2>1. Sound(i)'
    BY <1>2, StoreTransfers DEF PathOK
  <2> QED
    BY <1>2, <2>1 DEF PathOK
<1> QED
  BY <1>1, <1>2

(***************************************************************************)
(* The start, and the steps of the guests and of the kernel.               *)
(***************************************************************************)

\* Nothing is linked at first.
LEMMA LinkInitInv == LinkInit => LinkInv
<1> SUFFICES ASSUME LinkInit PROVE LinkInv
  OBVIOUS
<1>1. /\ \A p \in Paths : data[p] = NoFile /\ link[p] = NoPath
      /\ \A t \in Tracees : call[t] = NoCall
      /\ handler = NoHandler /\ broken = {}
      /\ \A a \in Names : meant[a] = NoFile
  BY DEF LinkInit
<1>2. LinkTypeOK
  <2>1. handler.todo \in Seq(HostCalls) /\ handler.tracee = NoTracee /\ handler.path = NoPath
        /\ handler.shows = NoFile
    BY <1>1 DEF NoHandler
  <2> QED
    BY <1>1, <2>1 DEF LinkInit, LinkTypeOK, NoCall
<1>3. PlacesOK /\ LinksOK /\ MeantOK /\ HandlerOK /\ CallsOK
  <2>1. NoCall.op = "none" /\ NoCall.half = "none" /\ NoCall.dec = NoPath
    BY DEF NoCall
  <2> QED
    BY <1>1, <2>1, PathFacts DEF PlacesOK, LinksOK, MeantOK, HandlerOK, CallsOK
<1>4. ASSUME NEW i \in Inters PROVE PathOK(i)
  <2>1. NamesOf(i) = {}
    BY <1>1, PathFacts DEF NamesOf
  <2>2. Kept(i) = {}
    BY <2>1 DEF Kept
  <2>3. Sound(i)
    BY <1>1, <2>2, PathFacts DEF Sound, Unlinked, Bare
  <2>4. LoweredOK(i)
    BY <1>1, PathFacts DEF LoweredOK, NoCall
  <2>5. handler.path # i
    BY <1>1, PathFacts DEF NoHandler
  <2> QED
    BY <2>3, <2>4, <2>5 DEF PathOK
<1> QED
  BY <1>2, <1>3, <1>4 DEF LinkInv

\* A handler is not disturbed by what the kernel does meanwhile.
LEMMA HandlerStays ==
  ASSUME HandlerOK, handler' = handler, home' = home, broken \subseteq broken',
         handler # NoHandler => Current' = Current
  PROVE  HandlerOK'
<1>1. CASE handler = NoHandler
  BY <1>1 DEF HandlerOK
<1>2. CASE handler # NoHandler
  <2>1. ASSUME NEW c, CallOK(c) PROVE CallOK(c)'
    BY <1>2, <2>1 DEF CallOK
  <2> QED
    BY <1>2, <2>1 DEF HandlerOK
<1> QED
  BY <1>1, <1>2

\* open(2) of a new file.
LEMMA CreateKeepsInv ==
  ASSUME LinkInv, NEW t \in Tracees, NEW a \in Names, NEW f \in Files, Create(t, a, f)
  PROVE  LinkInv'
<1>1. /\ LinkTypeOK /\ PlacesOK /\ LinksOK /\ MeantOK /\ HandlerOK /\ CallsOK
      /\ \A i \in Inters \ broken : PathOK(i)
  BY DEF LinkInv
<1>2. /\ data' = [data EXCEPT ![Name(a)] = f] /\ meant' = [meant EXCEPT ![a] = f]
      /\ broken' = broken \cup Taken(Name(a)) /\ mixed' = mixed \cup Taken(Name(a))
      /\ link' = link /\ call' = call /\ handler' = handler /\ home' = home
      /\ data[Name(a)] = NoFile /\ link[Name(a)] = NoPath /\ home[f] = NoPath
      /\ \A p \in Paths : data[p] # f
      /\ f # NoFile
  BY LinkAssumption DEF Create, Exists
<1>3. /\ data'[Name(a)] = f /\ \A p \in Paths : p # Name(a) => data'[p] = data[p]
      /\ meant'[a] = f /\ \A b \in Names : b # a => meant'[b] = meant[b]
  BY <1>1, <1>2, PathFacts DEF LinkTypeOK
<1>4. \A b \in Names : b # a => Name(b) # Name(a)
  BY PathFacts
<1>5. LinkTypeOK'
  <2>1. Taken(Name(a)) \subseteq Inters
    <3>1. ASSUME NEW n \in 1 .. Len(handler.todo) - 1,
              Do("symlink", handler.path, Name(a)) = handler.todo[n]
          PROVE handler.path \in Inters
      BY <1>1, <1>2, <3>1 DEF HandlerOK, NoHandler
    <3> QED
      BY <3>1 DEF Taken
  <2> QED
    BY <1>1, <1>2, <2>1 DEF LinkTypeOK
<1>6. PlacesOK'
  <2>1. \A b \in Names : Name(b) \in Paths
    BY PathFacts
  <2>2. \A i \in Inters : i \in Paths /\ i # Name(a)
    BY PathFacts
  <2>3. \A i \in Inters, n \in 1 .. MaxCount : Final(i, n) \in Paths /\ Final(i, n) # Name(a)
    BY PathFacts
  <2> QED
    BY <1>1, <1>2, <1>3, <1>4, <2>1, <2>2, <2>3 DEF PlacesOK
<1>7. LinksOK' /\ CallsOK'
  BY <1>1, <1>2 DEF LinksOK, CallsOK
<1>8. HandlerOK'
  BY <1>1, <1>2, HandlerStays DEF Current
<1>9. MeantOK'
  <2>1. \A b \in Names : MovedAway(b)' <=> MovedAway(b)
    BY <1>2 DEF MovedAway
  <2> QED
    BY <1>1, <1>2, <1>3, <1>4, <2>1, PathFacts DEF MeantOK
<1>10. ASSUME NEW i \in Inters \ broken' PROVE PathOK(i)'
  <2>1. PathOK(i)
    BY <1>1, <1>2, <1>10
  <2>2. LoweredOK(i)'
    BY <1>2, <2>1 DEF PathOK, LoweredOK
  <2>3. SameStore(i)
    BY <1>2, <1>3, PathFacts DEF SameStore
  <2>4. Kept(i)' = Kept(i) /\ a \notin Kept(i)
    BY <1>2, PathFacts DEF Kept, NamesOf, Takes
  <2>5. SameKept(i)
    <3>1. Kept(i) \subseteq Names
      BY DEF Kept, NamesOf
    <3> QED
      BY <1>3, <2>4, <3>1 DEF SameKept
  <2>6. handler.path = i => SameWork(i)
    <3>1. ASSUME NEW b \in Names, MovedAway(b), ~ Exists(Name(b)), handler.path = i
          PROVE  b # a
      <4>1. SUFFICES ASSUME b = a PROVE FALSE
        OBVIOUS
      <4>2. Taken(Name(a)) = {handler.path}
        BY <3>1, <4>1 DEF Taken, MovedAway
      <4> QED
        BY <1>2, <1>10, <3>1, <4>2
    <3>2. \A b \in Names : b # a => (Exists(Name(b))' <=> Exists(Name(b))) /\ meant'[b] = meant[b]
      BY <1>2, <1>3, <1>4, PathFacts DEF Exists
    <3> QED
      BY <1>2, <3>1, <3>2 DEF SameWork, Current
  <2> QED
    BY <1>2, <2>1, <2>2, <2>3, <2>5, <2>6, PathTransfers
<1> QED
  BY <1>5, <1>6, <1>7, <1>8, <1>9, <1>10 DEF LinkInv

\* What was not mishandled by the removal of a name of path gone is neither gone nor
\* dec, or it is both.
LEMMA MishandledPaths ==
  ASSUME NEW gone \in Inters \cup {NoPath}, NEW dec \in Inters \cup {NoPath}
  PROVE  /\ Mishandled(gone, dec) \subseteq Inters
         /\ \A i \in Inters : i \notin Mishandled(gone, dec) => (gone = i <=> dec = i)
BY PathFacts DEF Mishandled

\* The tracee of a kernel half is not the one whose handler runs.
LEMMA OtherTracee ==
  ASSUME HandlerOK, NEW t \in Tracees, call[t].half = "kernel", call' = [call EXCEPT ![t] = NoCall],
         call \in [Tracees -> [op : {"none", "link", "unlink", "rename"},
                               from : Paths \cup {NoPath}, to : Paths \cup {NoPath},
                               dec : Inters \cup {NoPath}, half : {"none", "proot", "kernel"}]],
         handler' = handler
  PROVE  handler # NoHandler => Current' = Current
BY DEF HandlerOK, Current

\* A call that ends: nothing of it is left.
LEMMA CallEnds ==
  ASSUME CallsOK, LinkTypeOK, NEW t \in Tracees, call[t].half = "kernel",
         call' = [call EXCEPT ![t] = NoCall], handler' = handler
  PROVE  /\ CallsOK'
         /\ call'[t] = NoCall /\ \A u \in Tracees : u # t => call'[u] = call[u]
         /\ call' \in [Tracees -> [op : {"none", "link", "unlink", "rename"},
                               from : Paths \cup {NoPath}, to : Paths \cup {NoPath},
                               dec : Inters \cup {NoPath}, half : {"none", "proot", "kernel"}]]
<1>1. call'[t] = NoCall /\ \A u \in Tracees : u # t => call'[u] = call[u]
  BY DEF LinkTypeOK
<1>2. CallsOK'
  BY <1>1 DEF CallsOK, NoCall
<1> QED
  BY <1>1, <1>2 DEF LinkTypeOK, NoCall

\* The kernel's half of unlink(2).
LEMMA UnlinkKeepsInv ==
  ASSUME LinkInv, NEW t \in Tracees, KernelUnlink(t)
  PROVE  LinkInv'
<1>1. /\ LinkTypeOK /\ PlacesOK /\ LinksOK /\ MeantOK /\ HandlerOK /\ CallsOK
      /\ \A i \in Inters \ broken : PathOK(i)
  BY DEF LinkInv
<1>2. PICK a \in Names : call[t].to = Name(a)
  BY <1>1 DEF KernelUnlink, CallsOK
<1> DEFINE dec == call[t].dec
           gone == IF Exists(Name(a)) THEN link[Name(a)] ELSE NoPath
<1>3. /\ broken' = broken \cup Mishandled(gone, dec)
      /\ call' = [call EXCEPT ![t] = NoCall] /\ call[t].half = "kernel"
      /\ handler' = handler /\ home' = home /\ mixed' = mixed
  BY <1>2 DEF KernelUnlink
<1>4. gone \in Inters \cup {NoPath} /\ dec \in Inters \cup {NoPath}
  BY <1>1 DEF LinksOK, LinkTypeOK
<1>5. /\ \A p \in Paths : p # Name(a) => data'[p] = data[p] /\ link'[p] = link[p]
      /\ \A b \in Names : b # a => meant'[b] = meant[b]
      /\ data'[Name(a)] = NoFile /\ link'[Name(a)] = NoPath
      /\ Exists(Name(a)) => meant'[a] = NoFile
      /\ ~ Exists(Name(a)) => data' = data /\ link' = link /\ meant' = meant
      /\ data' \in [Paths -> Files \cup {NoFile}] /\ link' \in [Paths -> Paths \cup {NoPath}]
      /\ meant' \in [Names -> Files \cup {NoFile}]
  <2>1. Name(a) \in Paths /\ Name(a)[1] = a
    BY PathFacts
  <2>2. CASE Exists(Name(a))
    <3>1. /\ data' = [data EXCEPT ![Name(a)] = NoFile] /\ link' = [link EXCEPT ![Name(a)] = NoPath]
          /\ meant' = [meant EXCEPT ![a] = NoFile]
      BY <1>2, <2>1, <2>2 DEF KernelUnlink, Unlink
    <3> QED
      BY <1>1, <2>1, <2>2, <3>1 DEF LinkTypeOK
  <2>3. CASE ~ Exists(Name(a))
    <3>1. data' = data /\ link' = link /\ meant' = meant
      BY <1>2, <2>3 DEF KernelUnlink, hostVars
    <3> QED
      BY <1>1, <2>3, <3>1 DEF LinkTypeOK, Exists
  <2> QED
    BY <2>2, <2>3
<1>6. \A b \in Names : Name(b) \in Paths /\ (b # a => Name(b) # Name(a))
  BY PathFacts
<1>7. CallsOK' /\ call'[t] = NoCall /\ \A u \in Tracees : u # t => call'[u] = call[u]
  BY <1>1, <1>3, CallEnds
<1>8. Mishandled(gone, dec) \subseteq Inters
  BY <1>4, MishandledPaths
<1> HIDE DEF gone
<1>9. LinkTypeOK'
  BY <1>1, <1>3, <1>5, <1>8, CallEnds DEF LinkTypeOK
<1>10. PlacesOK'
  BY <1>1, <1>3, <1>5, <1>6, PathFacts DEF PlacesOK
<1>11. LinksOK'
  BY <1>1, <1>3, <1>5, <1>6, PathFacts DEF LinksOK
<1>12. HandlerOK'
  BY <1>1, <1>3, OtherTracee, HandlerStays DEF LinkTypeOK
<1>13. MeantOK'
  <2>1. \A b \in Names : MovedAway(b)' <=> MovedAway(b)
    BY <1>3 DEF MovedAway
  <2>2. Exists(Name(a)) => MeantOK'
    BY <1>1, <1>3, <1>5, <1>6, <2>1 DEF MeantOK
  <2>3. ~ Exists(Name(a)) => MeantOK'
    BY <1>1, <1>3, <1>5, <2>1 DEF MeantOK
  <2> QED
    BY <2>2, <2>3
<1>14. ASSUME NEW i \in Inters \ broken' PROVE PathOK(i)'
  <2>1. PathOK(i) /\ LoweredOK(i)
    BY <1>1, <1>3, <1>14 DEF PathOK
  <2>2. gone = i <=> dec = i
    BY <1>3, <1>4, <1>14, MishandledPaths
  <2>3. dec = i => link[Name(a)] = i /\ gone = i /\ Exists(Name(a))
    BY <1>2, <2>1, <2>2, PathFacts DEF LoweredOK, gone
  <2>4. link[Name(a)] = i => dec = i
    BY <2>2, PathFacts DEF gone, Exists
  <2>5. i \in Paths /\ i # Name(a) /\ i # NoPath /\ NoCall.dec = NoPath
    BY PathFacts DEF NoCall
  <2>6. ASSUME NEW u \in Tracees, call'[u].dec = i
        PROVE  u # t /\ call[u].dec = i /\ call'[u].to = call[u].to /\ call[u].to # Name(a)
    <3>1. u # t /\ call'[u] = call[u]
      BY <1>7, <2>5, <2>6
    <3>2. link[call[u].to] = i
      BY <2>1, <2>6, <3>1 DEF LoweredOK
    <3> QED
      BY <1>2, <2>1, <2>4, <2>6, <3>1, <3>2 DEF LoweredOK
  <2>7. LoweredOK(i)'
    <3>1. ASSUME NEW u \in Tracees, call'[u].dec = i PROVE link'[call'[u].to] = i
      <4>1. call[u].to \in Paths
        <5>1. call[u].dec = i /\ call[u] # NoCall
          BY <2>5, <2>6, <3>1
        <5> QED
          BY <1>1, <1>6, <5>1 DEF CallsOK
      <4> QED
        BY <1>5, <2>1, <2>6, <3>1, <4>1 DEF LoweredOK
    <3>2. \A u, v \in Tracees : call'[u].dec = i /\ call'[v].dec = i /\
         call'[u].to = call'[v].to => u = v
      BY <2>1, <2>6 DEF LoweredOK
    <3> QED
      BY <3>1, <3>2 DEF LoweredOK
  <2>8. SameStore(i)
    BY <1>5, <2>5, PathFacts DEF SameStore
  <2>9. a \notin Kept(i)
    BY <1>2, <2>4 DEF Kept, NamesOf, Takes
  <2>10. Kept(i)' = Kept(i)
    <3>1. ASSUME NEW b \in Names, b # a
          PROVE  /\ link'[Name(b)] = link[Name(b)]
                 /\ \A u \in Tracees : Takes(u, i, b)' <=> Takes(u, i, b)
      BY <1>2, <1>5, <1>6, <1>7, <2>5, <3>1 DEF Takes
    <3>2. a \notin Kept(i)'
      BY <1>5, <2>5 DEF Kept, NamesOf
    <3> QED
      BY <2>9, <3>1, <3>2 DEF Kept, NamesOf
  <2>11. SameKept(i)
    <3>1. Kept(i) \subseteq Names
      BY DEF Kept, NamesOf
    <3> QED
      BY <1>5, <2>9, <2>10, <3>1 DEF SameKept
  <2>12. handler.path = i => SameWork(i)
    <3>1. handler.path = i => Current' = Current
      <4>1. NoHandler.path # i
        BY <2>5 DEF NoHandler
      <4>2. handler # NoHandler => Current' = Current
        BY <1>1, <1>3, OtherTracee DEF LinkTypeOK
      <4> QED
        BY <4>1, <4>2
    <3>2. \A b \in Names : ~ Exists(Name(b)) => ~ Exists(Name(b))' /\ meant'[b] = meant[b]
      BY <1>5, <1>6 DEF Exists
    <3> QED
      BY <1>3, <3>1, <3>2 DEF SameWork
  <2> QED
    BY <1>3, <2>1, <2>7, <2>8, <2>11, <2>12, PathTransfers
<1> QED
  BY <1>7, <1>9, <1>10, <1>11, <1>12, <1>13, <1>14 DEF LinkInv

\* rename(2) of what is not there, or of a name to itself: nothing is removed.
LEMMA RenameNothing ==
  ASSUME LinkInv, NEW t \in Tracees, KernelRename(t),
         ~ (Exists(call[t].from) /\ call[t].from # call[t].to)
  PROVE  LinkInv'
<1>1. /\ LinkTypeOK /\ PlacesOK /\ LinksOK /\ MeantOK /\ HandlerOK /\ CallsOK
      /\ \A i \in Inters \ broken : PathOK(i)
  BY DEF LinkInv
<1> DEFINE dec == call[t].dec
<1>2. /\ broken' = broken \cup Mishandled(NoPath, dec)
      /\ call' = [call EXCEPT ![t] = NoCall] /\ call[t].half = "kernel"
      /\ mixed' = mixed
      /\ handler' = handler /\ home' = home /\ data' = data /\ link' = link /\ meant' = meant
  BY DEF KernelRename, hostVars
<1>3. dec \in Inters \cup {NoPath}
  BY <1>1 DEF LinkTypeOK
<1>4. Mishandled(NoPath, dec) \subseteq Inters
  BY <1>3, MishandledPaths
<1>5. CallsOK' /\ call'[t] = NoCall /\ \A u \in Tracees : u # t => call'[u] = call[u]
  BY <1>1, <1>2, CallEnds
<1>6. LinkTypeOK'
  BY <1>1, <1>2, <1>4, CallEnds DEF LinkTypeOK
<1>7. PlacesOK' /\ LinksOK' /\ MeantOK'
  BY <1>1, <1>2 DEF PlacesOK, LinksOK, MeantOK, MovedAway
<1>8. HandlerOK'
  BY <1>1, <1>2, OtherTracee, HandlerStays DEF LinkTypeOK
<1>9. ASSUME NEW i \in Inters \ broken' PROVE PathOK(i)'
  <2>1. PathOK(i) /\ LoweredOK(i)
    BY <1>1, <1>2, <1>9 DEF PathOK
  <2>2. dec # i /\ i # NoPath /\ NoCall.dec = NoPath
    BY <1>2, <1>3, <1>9, MishandledPaths, PathFacts DEF NoCall
  <2>3. \A u \in Tracees : /\ call'[u].dec = i <=> call[u].dec = i
                           /\ call[u].dec = i => call'[u] = call[u]
    BY <1>5, <2>2
  <2>4. LoweredOK(i)'
    BY <1>2, <2>1, <2>3 DEF LoweredOK
  <2>5. Kept(i)' = Kept(i)
    BY <1>2, <2>3 DEF Kept, NamesOf, Takes
  <2>6. SameKept(i) /\ SameStore(i)
    BY <1>2, <2>5 DEF SameKept, SameStore
  <2>7. handler.path = i => SameWork(i)
    <3>1. NoHandler.path # i
      BY <2>2 DEF NoHandler
    <3>2. handler # NoHandler => Current' = Current
      BY <1>1, <1>2, OtherTracee DEF LinkTypeOK
    <3> QED
      BY <1>2, <3>1, <3>2 DEF SameWork, Exists
  <2> QED
    BY <1>2, <2>1, <2>4, <2>6, <2>7, PathTransfers
<1> QED
  BY <1>5, <1>6, <1>7, <1>8, <1>9 DEF LinkInv

\* One name for another.
LEMMA Replaced ==
  ASSUME IsFiniteSet(Names), NEW S, NEW T, S \subseteq Names, NEW b \in S, NEW a \in Names, a \notin S,
         T = (S \ {b}) \cup {a}
  PROVE  Cardinality(T) = Cardinality(S) /\ S # {}
<1>1. IsFiniteSet(S) /\ IsFiniteSet(S \ {b})
  BY FS_Subset, FS_RemoveElement
<1>2. Cardinality(S \ {b}) = Cardinality(S) - 1 /\ Cardinality(S) \in Nat
  BY <1>1, FS_RemoveElement, FS_CardinalityType
<1>3. Cardinality(T) = Cardinality(S \ {b}) + 1
  BY <1>1, FS_AddElement
<1> QED
  BY <1>2, <1>3

\* rename(2) that moves name b to name a.
LEMMA RenameMoves ==
  ASSUME IsFiniteSet(Names), LinkInv, NEW t \in Tracees, KernelRename(t),
         Exists(call[t].from), call[t].from # call[t].to
  PROVE  LinkInv'
<1>1. /\ LinkTypeOK /\ PlacesOK /\ LinksOK /\ MeantOK /\ HandlerOK /\ CallsOK
      /\ \A i \in Inters \ broken : PathOK(i)
  BY DEF LinkInv
<1>2. PICK a \in Names, b \in Names : call[t].to = Name(a) /\ call[t].from = Name(b)
  BY <1>1 DEF KernelRename, CallsOK
<1> DEFINE dec == call[t].dec
           gone == link[Name(a)]
<1>3. /\ broken' = broken \cup Mishandled(gone, dec) \cup Disturbed(Name(b)) \cup Taken(Name(a))
      /\ call' = [call EXCEPT ![t] = NoCall] /\ call[t].half = "kernel"
      /\ handler' = handler /\ home' = home /\ mixed' = mixed \cup Taken(Name(a))
      /\ meant' = [meant EXCEPT ![Name(a)[1]] = meant[Name(b)[1]], ![Name(b)[1]] = NoFile]
      /\ data' = Moved(data, NoFile, Name(b), Name(a))
      /\ link' = Moved(link, NoPath, Name(b), Name(a))
  BY <1>2 DEF KernelRename, Rename
<1>4. /\ \A c \in Names : Name(c) \in Paths /\ Name(c)[1] = c /\ (c # a => Name(c) # Name(a))
                          /\ (c # b => Name(c) # Name(b))
      /\ a # b /\ Name(a) # Name(b)
  BY <1>2, PathFacts
<1>5. gone \in Inters \cup {NoPath} /\ dec \in Inters \cup {NoPath}
       /\ link[Name(b)] \in Inters \cup {NoPath}
  BY <1>1 DEF LinksOK, LinkTypeOK
<1>6. /\ \A p \in Paths : p # Name(a) /\ p # Name(b) => data'[p] = data[p] /\ link'[p] = link[p]
      /\ \A c \in Names : c # a /\ c # b => meant'[c] = meant[c]
      /\ data'[Name(b)] = NoFile /\ link'[Name(b)] = NoPath /\ meant'[b] = NoFile
      /\ data'[Name(a)] = data[Name(b)] /\ link'[Name(a)] = link[Name(b)] /\ meant'[a] = meant[b]
      /\ data' \in [Paths -> Files \cup {NoFile}] /\ link' \in [Paths -> Paths \cup {NoPath}]
      /\ meant' \in [Names -> Files \cup {NoFile}]
  <2>1. /\ data' = [data EXCEPT ![Name(a)] = data[Name(b)], ![Name(b)] = NoFile]
        /\ link' = [link EXCEPT ![Name(a)] = link[Name(b)], ![Name(b)] = NoPath]
        /\ meant' = [meant EXCEPT ![a] = meant[b], ![b] = NoFile]
    BY <1>3, <1>4 DEF Moved
  <2> QED
    BY <1>1, <1>4, <2>1 DEF LinkTypeOK
<1>7. CallsOK' /\ call'[t] = NoCall /\ \A u \in Tracees : u # t => call'[u] = call[u]
  BY <1>1, <1>3, CallEnds
<1>8. broken' \subseteq Inters /\ broken \subseteq broken' /\ mixed' \subseteq Inters
  <2>1. Mishandled(gone, dec) \subseteq Inters
    BY <1>5, MishandledPaths
  <2>2. Disturbed(Name(b)) \subseteq Inters
    BY <1>5 DEF Disturbed
  <2>3. Taken(Name(a)) \subseteq Inters
    BY <1>1 DEF Taken, HandlerOK, NoHandler
  <2> QED
    BY <1>1, <1>3, <2>1, <2>2, <2>3 DEF LinkTypeOK
<1>9. LinkTypeOK'
  BY <1>1, <1>3, <1>6, <1>8, CallEnds DEF LinkTypeOK
<1>10. PlacesOK'
  <2>1. \A i \in Inters : i \in Paths /\ i # Name(a) /\ i # Name(b)
    BY PathFacts
  <2>2. \A i \in Inters, n \in 1 .. MaxCount :
          Final(i, n) \in Paths /\ Final(i, n) # Name(a) /\ Final(i, n) # Name(b)
    BY PathFacts
  <2> QED
    BY <1>1, <1>3, <1>4, <1>6, <2>1, <2>2 DEF PlacesOK
<1>11. LinksOK'
  <2>1. \A i \in Inters : i \in Paths /\ i # Name(a) /\ i # Name(b)
    BY PathFacts
  <2>2. \A i \in Inters, n \in 1 .. MaxCount :
          Final(i, n) \in Paths /\ Final(i, n) # Name(a) /\ Final(i, n) # Name(b)
    BY PathFacts
  <2> QED
    BY <1>1, <1>4, <1>6, <1>8, <2>1, <2>2 DEF LinksOK
<1>12. HandlerOK'
  BY <1>1, <1>3, <1>8, OtherTracee, HandlerStays DEF LinkTypeOK
<1>13. MeantOK'
  <2>1. \A c \in Names : MovedAway(c)' <=> MovedAway(c)
    BY <1>3 DEF MovedAway
  <2>2. data[Name(b)] # NoFile \/ link[Name(b)] # NoPath
    BY <1>2 DEF Exists
  <2> QED
    BY <1>1, <1>3, <1>4, <1>6, <1>8, <2>1, <2>2 DEF MeantOK
<1>14. ASSUME NEW i \in Inters \ broken' PROVE PathOK(i)'
  <2>1. PathOK(i) /\ LoweredOK(i)
    BY <1>1, <1>8, <1>14 DEF PathOK
  <2>2. gone = i <=> dec = i
    BY <1>3, <1>5, <1>14, MishandledPaths
  <2>3. i \in Paths /\ i # Name(a) /\ i # Name(b) /\ i # NoPath /\ NoCall.dec = NoPath
    BY PathFacts DEF NoCall
  <2>4. link[Name(b)] = i => \A u \in Tracees : call[u].dec = i => call[u].to # Name(b)
    BY <1>3, <1>14, <2>3 DEF Disturbed, Removing
  <2>5. ASSUME NEW u \in Tracees, call'[u].dec = i
        PROVE  /\ u # t /\ call[u].dec = i /\ call'[u].to = call[u].to /\ link[call[u].to] = i
               /\ call[u].to # Name(a) /\ call[u].to # Name(b) /\ call[u].to \in Paths
    <3>1. u # t /\ call'[u] = call[u]
      BY <1>7, <2>3, <2>5
    <3>2. link[call[u].to] = i
      BY <2>1, <2>5, <3>1 DEF LoweredOK
    <3>3. call[u].to # Name(a)
      BY <1>2, <2>1, <2>2, <2>5, <3>1, <3>2 DEF LoweredOK
    <3>4. call[u].dec = i /\ call[u] # NoCall
      BY <2>3, <2>5, <3>1
    <3>5. call[u].to \in Paths
      BY <1>1, <1>4, <3>4 DEF CallsOK
    <3>6. call[u].to # Name(b)
      BY <2>4, <3>2, <3>4
    <3> QED
      BY <3>1, <3>2, <3>3, <3>4, <3>5, <3>6
  <2>6. LoweredOK(i)'
    BY <1>6, <2>1, <2>5 DEF LoweredOK
  <2>7. SameStore(i)
    BY <1>6, <2>3, PathFacts DEF SameStore
  <2>8. a \notin Kept(i)
    BY <1>2, <2>2 DEF Kept, NamesOf, Takes
  <2>9. ASSUME NEW c \in Names, c # a, c # b
        PROVE  c \in Kept(i)' <=> c \in Kept(i)
    <3>1. link'[Name(c)] = link[Name(c)]
      BY <1>4, <1>6, <2>9
    <3>2. \A u \in Tracees : Takes(u, i, c)' <=> Takes(u, i, c)
      BY <1>2, <1>4, <1>7, <2>3, <2>9 DEF Takes
    <3> QED
      BY <3>1, <3>2 DEF Kept, NamesOf
  <2>10. b \notin Kept(i)' /\ Kept(i)' \subseteq Names /\ Kept(i) \subseteq Names
    BY <1>6, <2>3 DEF Kept, NamesOf
  <2>11. SameKept(i)
    <3>1. CASE link[Name(b)] = i
      <4>1. b \in Kept(i)
        BY <2>4, <3>1 DEF Kept, NamesOf, Takes
      <4>2. a \in Kept(i)'
        BY <1>6, <2>5, <3>1 DEF Kept, NamesOf, Takes
      <4>3. Kept(i)' = (Kept(i) \ {b}) \cup {a}
        BY <1>4, <2>8, <2>9, <2>10, <4>1, <4>2
      <4>4. Cardinality(Kept(i)') = Cardinality(Kept(i)) /\ Kept(i) # {}
        BY <2>8, <2>10, <4>1, <4>3, Replaced
      <4>5. \A c \in Kept(i)' : \E d \in Kept(i) : meant'[c] = meant[d]
        BY <1>6, <2>10, <4>1, <4>3
      <4> QED
        BY <4>4, <4>5 DEF SameKept
    <3>2. CASE link[Name(b)] # i
      <4>1. b \notin Kept(i) /\ a \notin Kept(i)'
        BY <1>6, <3>2 DEF Kept, NamesOf
      <4>2. Kept(i)' = Kept(i)
        BY <2>8, <2>9, <2>10, <4>1
      <4>3. \A c \in Kept(i) : meant'[c] = meant[c]
        BY <1>6, <2>8, <2>10, <4>1
      <4> QED
        BY <4>2, <4>3 DEF SameKept
    <3> QED
      BY <3>1, <3>2
  <2>12. handler.path = i => SameWork(i)
    <3>1. NoHandler.path # i
      BY <2>3 DEF NoHandler
    <3>2. handler # NoHandler => Current' = Current
      BY <1>1, <1>3, OtherTracee DEF LinkTypeOK
    <3>3. ASSUME NEW c \in Names, MovedAway(c), ~ Exists(Name(c)), handler.path = i
          PROVE  c # a /\ c # b
      <4>1. c # b
        BY <1>2, <3>3
      <4>2. ASSUME c = a PROVE FALSE
        <5>1. Taken(Name(a)) = {handler.path}
          BY <3>3, <4>2 DEF Taken, MovedAway
        <5> QED
          BY <1>3, <1>14, <3>3, <5>1
      <4> QED
        BY <4>1, <4>2
    <3>4. \A c \in Names : c # a /\ c # b => (Exists(Name(c))' <=> Exists(Name(c))) /\
           meant'[c] = meant[c]
      BY <1>4, <1>6 DEF Exists
    <3> QED
      BY <1>3, <3>1, <3>2, <3>3, <3>4 DEF SameWork
  <2> QED
    BY <1>3, <2>1, <2>6, <2>7, <2>11, <2>12, PathTransfers
<1> QED
  BY <1>7, <1>9, <1>10, <1>11, <1>12, <1>13, <1>14 DEF LinkInv

\* A path that no handler works on, and whose lowered counts are as they were.
LEMMA PathLeft ==
  ASSUME NEW i \in Inters, PathOK(i), Sound(i), data' = data, link' = link, meant' = meant,
         handler'.path # i,
         \A u \in Tracees : /\ call'[u].dec = i <=> call[u].dec = i
                            /\ call[u].dec = i => call'[u].to = call[u].to
  PROVE  PathOK(i)'
<1>1. LoweredOK(i)'
  BY DEF PathOK, LoweredOK
<1>2. Kept(i)' = Kept(i)
  BY DEF Kept, NamesOf, Takes
<1>3. SameKept(i) /\ SameStore(i)
  BY <1>2 DEF SameKept, SameStore
<1>4. Sound(i)'
  BY <1>3, StoreTransfers
<1> QED
  BY <1>1, <1>4 DEF PathOK

\* The path a handler still works on.
LEMMA PathOfHandler ==
  ASSUME HandlerOK, handler.todo # <<>>
  PROVE  handler # NoHandler /\ handler.path \in Inters
BY DEF HandlerOK, NoHandler

\* PRoot and its tracees are killed.
LEMMA KilledKeepsInv ==
  ASSUME LinkInv, Killed
  PROVE  LinkInv'
<1>1. /\ LinkTypeOK /\ PlacesOK /\ LinksOK /\ MeantOK /\ HandlerOK /\ CallsOK
      /\ \A i \in Inters \ broken : PathOK(i)
  BY DEF LinkInv
<1>2. /\ call' = [t \in Tracees |-> NoCall] /\ handler' = NoHandler
      /\ broken' = broken \cup (({handler.path} \cup {call[t].dec : t \in Tracees}) \ {NoPath})
      /\ data' = data /\ link' = link /\ meant' = meant /\ home' = home /\ mixed' = mixed
  BY DEF Killed, hostVars
<1>3. broken' \subseteq Inters /\ broken \subseteq broken'
  BY <1>1, <1>2 DEF LinkTypeOK
<1>4. NoCall.op = "none" /\ NoCall.half = "none" /\ NoCall.dec = NoPath /\ NoHandler.path = NoPath
  BY DEF NoCall, NoHandler
<1>5. LinkTypeOK'
  <2>1. NoHandler.todo \in Seq(HostCalls) /\ NoHandler.tracee = NoTracee /\ NoHandler.shows = NoFile
    BY DEF NoHandler
  <2> QED
    BY <1>1, <1>2, <1>3, <1>4, <2>1 DEF LinkTypeOK, NoCall
<1>6. PlacesOK' /\ LinksOK' /\ HandlerOK' /\ CallsOK'
  BY <1>1, <1>2, <1>3, <1>4 DEF PlacesOK, LinksOK, HandlerOK, CallsOK
<1>7. MeantOK'
  <2>1. ASSUME NEW a \in Names, MovedAway(a) PROVE handler.path \in broken'
    <3>1. handler.todo # <<>>
      BY <2>1 DEF MovedAway
    <3> QED
      BY <1>1, <1>2, <3>1, PathOfHandler, PathFacts
  <2> QED
    BY <1>1, <1>2, <1>3, <2>1 DEF MeantOK
<1>8. ASSUME NEW i \in Inters \ broken' PROVE PathOK(i)'
  <2>1. i # NoPath /\ handler.path # i /\ \A u \in Tracees : call[u].dec # i
    BY <1>2, <1>8, PathFacts
  <2>2. PathOK(i) /\ Sound(i)
    BY <1>1, <1>3, <1>8, <2>1 DEF PathOK
  <2> QED
    BY <1>2, <1>4, <2>1, <2>2, PathLeft
<1> QED
  BY <1>5, <1>6, <1>7, <1>8 DEF LinkInv

\* A handler that returns at once: what it did is not undone.
LEMMA FailKeepsInv ==
  ASSUME LinkInv, HostCallFails
  PROVE  LinkInv'
<1>1. /\ LinkTypeOK /\ PlacesOK /\ LinksOK /\ MeantOK /\ HandlerOK /\ CallsOK
      /\ \A i \in Inters \ broken : PathOK(i)
  BY DEF LinkInv
<1> DEFINE t == handler.tracee
<1>2. handler # NoHandler /\ handler.path \in Inters /\ t \in Tracees
  BY <1>1, PathOfHandler DEF HostCallFails, HandlerOK
<1>3. /\ call' = [call EXCEPT ![t] = NoCall] /\ handler' = NoHandler
      /\ broken' = broken \cup {handler.path}
      /\ data' = data /\ link' = link /\ meant' = meant /\ home' = home /\ mixed' = mixed
  BY DEF HostCallFails, Fails, hostVars
<1>4. NoCall.op = "none" /\ NoCall.half = "none" /\ NoCall.dec = NoPath /\ NoHandler.path = NoPath
  BY DEF NoCall, NoHandler
<1>5. call'[t] = NoCall /\ \A u \in Tracees : u # t => call'[u] = call[u]
  BY <1>1, <1>2, <1>3 DEF LinkTypeOK
<1>6. LinkTypeOK'
  <2>1. NoHandler.todo \in Seq(HostCalls) /\ NoHandler.tracee = NoTracee /\ NoHandler.shows = NoFile
    BY DEF NoHandler
  <2> QED
    BY <1>1, <1>2, <1>3, <1>4, <2>1 DEF LinkTypeOK, NoCall
<1>7. PlacesOK' /\ LinksOK' /\ HandlerOK'
  BY <1>1, <1>3 DEF PlacesOK, LinksOK, HandlerOK
<1>8. CallsOK'
  BY <1>1, <1>4, <1>5 DEF CallsOK
<1>9. MeantOK'
  BY <1>1, <1>3 DEF MeantOK
<1>10. ASSUME NEW i \in Inters \ broken' PROVE PathOK(i)'
  <2>1. i # NoPath /\ handler.path # i
    BY <1>3, <1>10, PathFacts
  <2>2. PathOK(i) /\ Sound(i)
    BY <1>1, <1>3, <1>10, <2>1 DEF PathOK
  <2>3. call[t].dec # i
    BY <1>1, <1>2, <2>1 DEF HandlerOK, Current
  <2>4. \A u \in Tracees : /\ call'[u].dec = i <=> call[u].dec = i
                           /\ call[u].dec = i => call'[u].to = call[u].to
    BY <1>4, <1>5, <2>1, <2>3
  <2> QED
    BY <1>3, <1>4, <2>1, <2>2, <2>4, PathLeft
<1> QED
  BY <1>6, <1>7, <1>8, <1>9, <1>10 DEF LinkInv

\* The handler is over.
LEMMA EndKeepsInv ==
  ASSUME LinkInv, HandlerEnds
  PROVE  LinkInv'
<1>1. /\ LinkTypeOK /\ PlacesOK /\ LinksOK /\ MeantOK /\ HandlerOK /\ CallsOK
      /\ \A i \in Inters \ broken : PathOK(i)
  BY DEF LinkInv
<1> DEFINE t == handler.tracee
<1>2. /\ handler # NoHandler /\ handler.todo = <<>> /\ t \in Tracees
      /\ (Current.op = "link" => Current.dec = NoPath)
  BY <1>1 DEF HandlerEnds, HandlerOK
<1>3. /\ handler' = NoHandler /\ broken' = broken
      /\ data' = data /\ link' = link /\ meant' = meant /\ home' = home /\ mixed' = mixed
  BY DEF HandlerEnds, hostVars, history
<1>4. NoCall.op = "none" /\ NoCall.half = "none" /\ NoCall.dec = NoPath /\ NoHandler.path = NoPath
  BY DEF NoCall, NoHandler
<1>5. /\ \A u \in Tracees : u # t => call'[u] = call[u]
      /\ \/ call'[t] = NoCall /\ call[t].dec = NoPath
         \/ call'[t] = [call[t] EXCEPT !.half = "kernel"] /\ call[t].op # "link"
  <2>1. call' = [call EXCEPT ![t] = IF call[t].op = "link" THEN NoCall
                                    ELSE [call[t] EXCEPT !.half = "kernel"]]
    BY DEF HandlerEnds
  <2>2. call[t].op = "link" => call[t].dec = NoPath
    BY <1>2 DEF Current
  <2> QED
    BY <1>1, <1>2, <2>1, <2>2 DEF LinkTypeOK
<1>6. LinkTypeOK'
  <2>1. NoHandler.todo \in Seq(HostCalls) /\ NoHandler.tracee = NoTracee /\ NoHandler.shows = NoFile
    BY DEF NoHandler
  <2>2. call' \in [Tracees -> [op : {"none", "link", "unlink", "rename"},
                               from : Paths \cup {NoPath}, to : Paths \cup {NoPath},
                               dec : Inters \cup {NoPath}, half : {"none", "proot", "kernel"}]]
    BY <1>1 DEF LinkTypeOK, HandlerEnds, NoCall
  <2> QED
    BY <1>1, <1>3, <1>4, <2>1, <2>2 DEF LinkTypeOK
<1>7. PlacesOK' /\ LinksOK' /\ HandlerOK'
  BY <1>1, <1>3 DEF PlacesOK, LinksOK, HandlerOK
<1>8. CallsOK'
  <2>1. call'[t].half # "proot" /\ (call'[t].op = "none" => call'[t] = NoCall)
        /\ (call'[t].op # "none" => call'[t].from = call[t].from /\ call'[t].to = call[t].to
                                    /\ call'[t].half = "kernel")
        /\ call[t].op # "none"
    BY <1>1, <1>2, <1>4, <1>5 DEF LinkTypeOK, HandlerOK, Current
  <2> QED
    BY <1>1, <1>2, <1>5, <2>1 DEF CallsOK
<1>9. MeantOK'
  <2>1. \A a \in Names : ~ MovedAway(a)
    BY <1>2 DEF MovedAway
  <2> QED
    BY <1>1, <1>3, <2>1 DEF MeantOK
<1>10. ASSUME NEW i \in Inters \ broken' PROVE PathOK(i)'
  <2>1. i # NoPath
    BY PathFacts
  <2>2. PathOK(i) /\ Sound(i)
    <3>1. PathOK(i)
      BY <1>1, <1>3, <1>10
    <3>2. ~ Lowering(i) /\ \A p, q : ~ Linking(i, p, q)
      <4>1. \A p, q : FirstLink(p, i) \o <<Do("symlink", i, q)>> # <<>>
        BY DEF FirstLink
      <4>2. \A p, q, o : Recounted(i, p, q) \o <<Do("symlink", i, o)>> # <<>>
        BY DEF Recounted
      <4>3. \A p, q : Recounted(i, p, q) # <<>>
        BY DEF Recounted
      <4>4. handler.todo = <<>>
        BY <1>2
      <4>5. ~ Lowering(i)
        BY <4>3, <4>4 DEF Lowering
      <4>6. \A p, q : ~ Linking(i, p, q)
        BY <4>1, <4>2, <4>4 DEF Linking
      <4> QED
        BY <4>5, <4>6
    <3> QED
      BY <3>1, <3>2 DEF PathOK, Working
  <2>3. \A u \in Tracees : /\ call'[u].dec = i <=> call[u].dec = i
                           /\ call[u].dec = i => call'[u].to = call[u].to
    <3>1. /\ call'[t].dec = i <=> call[t].dec = i
          /\ call[t].dec = i => call'[t].to = call[t].to
      BY <1>1, <1>2, <1>4, <1>5, <2>1 DEF LinkTypeOK
    <3> QED
      BY <1>5, <3>1
  <2> QED
    BY <1>3, <1>4, <2>1, <2>2, <2>3, PathLeft
<1> QED
  BY <1>6, <1>7, <1>8, <1>9, <1>10 DEF LinkInv

\* The calls that give a path another number of names.
CallOf(c, i) ==
  \E n, m \in 1 .. MaxCount :
    \/ c = Do("rename", Final(i, m), Final(i, n))
    \/ c = Do("unlink", NoPath, i)
    \/ c = Do("unlink", NoPath, Final(i, n))
    \/ c = Do("symlink", Final(i, n), i)

\* The calls about a path are host calls, on the names of that path.
LEMMA CallsOfPath ==
  ASSUME NEW i \in Inters
  PROVE  /\ \A c : CallOf(c, i) => c \in HostCalls
         /\ \A n, m \in 1 .. MaxCount :
              LET todo == Recounted(i, Final(i, m), Final(i, n))
              IN  todo \in Seq(HostCalls) /\ \A k \in 1 .. Len(todo) : CallOf(todo[k], i)
<1>1. i \in Paths /\ \A n \in 1 .. MaxCount : Final(i, n) \in Paths
  BY PathFacts
<1>2. \A c : CallOf(c, i) => c \in HostCalls
  BY <1>1 DEF CallOf, HostCalls, Do
<1>3. ASSUME NEW n \in 1 .. MaxCount, NEW m \in 1 .. MaxCount, NEW todo,
             todo = Recounted(i, Final(i, m), Final(i, n))
      PROVE  todo \in Seq(HostCalls) /\ \A k \in 1 .. Len(todo) : CallOf(todo[k], i)
  <2>1. todo = <<Do("rename", Final(i, m), Final(i, n)), Do("unlink", NoPath, i),
                 Do("symlink", Final(i, n), i)>>
    BY <1>3 DEF Recounted
  <2>2. /\ CallOf(Do("rename", Final(i, m), Final(i, n)), i) /\ CallOf(Do("unlink", NoPath, i), i)
        /\ CallOf(Do("symlink", Final(i, n), i), i)
    BY DEF CallOf
  <2>3. todo \in Seq(HostCalls)
    BY <1>2, <2>1, <2>2
  <2>4. ASSUME NEW k \in 1 .. Len(todo) PROVE CallOf(todo[k], i)
    <3>1. k = 1 \/ k = 2 \/ k = 3
      BY <2>1, <2>4
    <3> QED
      BY <2>1, <2>2, <3>1
  <2> QED
    BY <2>3, <2>4
<1> QED
  BY <1>2, <1>3

\* What decrement_link_count() will do for name a: nothing, or the calls that give the
\* intermediate path of a one name less.
LEMMA DecrementCalls ==
  ASSUME LinksOK, NEW a \in Names, NEW i, i = link[Name(a)], NEW todo, todo = Decrement(Name(a))
  PROVE  \/ todo = <<>> /\ Decremented(Name(a)) = NoPath
         \/ /\ i \in Inters /\ Decremented(Name(a)) = i /\ todo # <<>>
            /\ todo \in Seq(HostCalls) /\ \A k \in 1 .. Len(todo) : CallOf(todo[k], i)
            /\ \/ /\ link[i] = Final(i, 1)
                  /\ todo = <<Do("unlink", NoPath, i), Do("unlink", NoPath, Final(i, 1))>>
               \/ \E n \in 1 .. MaxCount - 1 :
                    link[i] = Final(i, n + 1) /\ todo = Recounted(i, Final(i, n + 1), Final(i, n))
<1>1. CASE i = NoPath \/ link[i] = NoPath
  BY <1>1 DEF Decrement, Decremented
<1>2. CASE i # NoPath /\ link[i] # NoPath
  <2>1. i \in Inters
    BY <1>2 DEF LinksOK
  <2>2. PICK n \in 1 .. MaxCount : link[i] = Final(i, n)
    BY <1>2, <2>1 DEF LinksOK
  <2>3. Count(link[i]) = n
    BY <2>1, <2>2, PathFacts
  <2>4. CASE n = 1
    <3>1. todo = <<Do("unlink", NoPath, i), Do("unlink", NoPath, Final(i, 1))>>
      BY <1>2, <2>2, <2>3, <2>4 DEF Decrement
    <3>2. CallOf(Do("unlink", NoPath, i), i) /\ CallOf(Do("unlink", NoPath, Final(i, 1)), i)
      BY <2>4 DEF CallOf
    <3>3. todo \in Seq(HostCalls)
      BY <2>1, <3>1, <3>2, CallsOfPath
    <3>4. ASSUME NEW k \in 1 .. Len(todo) PROVE CallOf(todo[k], i)
      <4>1. k = 1 \/ k = 2
        BY <3>1
      <4> QED
        BY <3>1, <3>2, <4>1
    <3>5. todo # <<>>
      BY <3>1
    <3>6. Decremented(Name(a)) = i
      BY <3>5 DEF Decremented
    <3> QED
      BY <2>1, <2>2, <2>4, <3>1, <3>3, <3>4, <3>5, <3>6
  <2>5. CASE n # 1
    <3>1. n > 1 /\ n - 1 \in 1 .. MaxCount - 1 /\ n - 1 \in 1 .. MaxCount /\ n = (n - 1) + 1
      BY <2>5, LinkAssumption
    <3>2. todo = Recounted(i, Final(i, n), Final(i, n - 1))
      BY <1>2, <2>2, <2>3, <3>1 DEF Decrement
    <3>3. todo \in Seq(HostCalls) /\ \A k \in 1 .. Len(todo) : CallOf(todo[k], i)
      BY <2>1, <3>1, <3>2, CallsOfPath
    <3>4. todo # <<>>
      BY <3>2 DEF Recounted
    <3>5. Decremented(Name(a)) = i
      BY <3>4 DEF Decremented
    <3> QED
      BY <2>1, <2>2, <3>1, <3>2, <3>3, <3>4, <3>5
  <2> QED
    BY <2>4, <2>5
<1> QED
  BY <1>1, <1>2

\* The new name is in use, so the count is lowered again.
LEMMA NewNameFailsKeepsInv ==
  ASSUME LinkInv, NewNameFails
  PROVE  LinkInv'
<1>1. /\ LinkTypeOK /\ PlacesOK /\ LinksOK /\ MeantOK /\ HandlerOK /\ CallsOK
      /\ \A i \in Inters \ broken : PathOK(i)
  BY DEF LinkInv
<1> DEFINE h == handler.path
           i == link[Current.from]
           todo == Decrement(Current.from)
<1>2. /\ handler' = [handler EXCEPT !.todo = todo]
      /\ broken' = broken \cup Mishandled(Decremented(Current.from), h)
      /\ data' = data /\ link' = link /\ call' = call /\ meant' = meant /\ home' = home
      /\ mixed' = mixed
      /\ handler.todo # <<>> /\ Current.op = "link"
      /\ Head(handler.todo).to = Current.to /\ Len(handler.todo) = 1
  BY DEF NewNameFails, hostVars, NewName
<1>3. /\ handler # NoHandler /\ h \in Inters /\ handler.tracee \in Tracees
  BY <1>1, <1>2, PathOfHandler DEF HandlerOK
<1>4. PICK a \in Names : Current.from = Name(a)
  BY <1>1, <1>2, <1>3 DEF CallsOK, Current
<1>5. PICK b \in Names : Current.to = Name(b)
  BY <1>1, <1>2, <1>3 DEF CallsOK, Current
<1>6. /\ handler'.tracee = handler.tracee /\ handler'.todo = todo /\ handler'.path = h
      /\ handler'.shows = handler.shows /\ Current' = Current
  <2>1. handler'.tracee = handler.tracee /\ handler'.path = h /\ handler'.shows = handler.shows
    BY <1>2
  <2>2. handler'.todo = todo
    BY <1>2, <1>3 DEF NoHandler
  <2> QED
    BY <1>2, <2>1, <2>2 DEF Current
<1>7. \/ todo = <<>> /\ Decremented(Current.from) = NoPath
      \/ /\ i \in Inters /\ Decremented(Current.from) = i /\ todo # <<>>
         /\ todo \in Seq(HostCalls) /\ \A k \in 1 .. Len(todo) : CallOf(todo[k], i)
         /\ \/ /\ link[i] = Final(i, 1)
               /\ todo = <<Do("unlink", NoPath, i), Do("unlink", NoPath, Final(i, 1))>>
            \/ \E n \in 1 .. MaxCount - 1 :
                 link[i] = Final(i, n + 1) /\ todo = Recounted(i, Final(i, n + 1), Final(i, n))
  BY <1>1, <1>4, DecrementCalls
<1>8. /\ broken' \subseteq Inters /\ broken \subseteq broken'
      /\ todo # <<>> => i = h \/ {i, h} \subseteq broken'
      /\ h \notin broken' => todo # <<>> /\ i = h
  BY <1>1, <1>2, <1>3, <1>7, PathFacts DEF Mishandled, LinkTypeOK
<1> HIDE DEF todo, i
<1>9. LinkTypeOK'
  <2>1. handler'.todo \in Seq(HostCalls)
    <3>1. <<>> \in Seq(HostCalls)
      OBVIOUS
    <3>2. todo \in Seq(HostCalls)
      BY <1>7, <3>1
    <3> QED
      BY <1>6, <3>2
  <2> QED
    BY <1>1, <1>2, <1>6, <1>8, <2>1 DEF LinkTypeOK
<1>10. PlacesOK' /\ LinksOK' /\ CallsOK'
  BY <1>1, <1>2, <1>6, <1>8 DEF PlacesOK, LinksOK, CallsOK
<1>11. handler.todo[1].to = Name(b) /\ handler.todo[1].do # "rename"
  <2>1. handler.todo[1] = Head(handler.todo)
    BY <1>2
  <2>2. CallOK(handler.todo[1])
    BY <1>1, <1>2, <1>3 DEF HandlerOK
  <2>3. handler.todo[1].to = Name(b)
    BY <1>2, <1>5, <2>1
  <2> QED
    BY <2>2, <2>3, PathFacts DEF CallOK, Do
<1>12. HandlerOK'
  <2>1. ASSUME NEW c, NEW k \in 1 .. Len(todo), todo[k] = c PROVE CallOK(c)'
    <3>1. todo # <<>>
      BY <2>1
    <3>2. CallOf(c, i) /\ i \in Inters
      BY <1>7, <2>1, <3>1
    <3>3. i = handler'.path \/ {i, handler'.path} \subseteq broken'
      BY <1>6, <1>8, <3>1
    <3>4. a \in Names
      OBVIOUS
    <3> QED
      BY <3>2, <3>3, <3>4 DEF CallOK, CallOf
  <2>2. \A k \in 1 .. Len(handler'.todo) : CallOK(handler.todo[k])'
    BY <1>6, <2>1
  <2>3. handler.todo[1].do # "rename" => \A c \in Names :
           handler.todo[1] # Do("rename", Name(c), Final(h, 2))
    BY DEF Do
  <2> QED
    BY <1>1, <1>2, <1>3, <1>6, <1>8, <1>11, <2>3, <2>2 DEF HandlerOK
<1>13. MeantOK'
  <2>1. \A c \in Names : ~ MovedAway(c)
    BY <1>2 DEF MovedAway
  <2> QED
    BY <1>1, <1>2, <1>8, <2>1 DEF MeantOK
<1>14. ASSUME NEW j \in Inters \ broken' PROVE PathOK(j)'
  <2>1. PathOK(j)
    BY <1>1, <1>8, <1>14
  <2>2. LoweredOK(j)'
    BY <1>2, <2>1 DEF PathOK, LoweredOK
  <2>3. Kept(j)' = Kept(j)
    BY <1>2 DEF Kept, NamesOf, Takes
  <2>4. SameKept(j) /\ SameStore(j)
    BY <1>2, <2>3 DEF SameKept, SameStore
  <2>5. CASE j # h
    BY <1>6, <2>1, <2>2, <2>4, <2>5, PathTransfers
  <2>6. CASE j = h
    <3>1. i = j /\ todo # <<>>
      BY <1>8, <1>14, <2>6
    <3>2. ~ Lowering(j)
      <4>1. ASSUME NEW n \in 1 .. MaxCount, handler.todo = <<Do("symlink", Final(j, n), j)>>
            PROVE  FALSE
        BY <1>11, <4>1, PathFacts DEF Do
      <4>2. ASSUME handler.todo = <<Do("unlink", NoPath, Final(j, 1))>> PROVE FALSE
        <5>1. 1 \in 1 .. MaxCount
          BY LinkAssumption
        <5> QED
          BY <1>11, <4>2, <5>1, PathFacts DEF Do
      <4>3. \A n \in 1 .. MaxCount - 1 : n \in 1 .. MaxCount
        BY LinkAssumption
      <4>4. \A p, q : Len(Recounted(j, p, q)) # 1
        BY DEF Recounted
      <4>5. ASSUME NEW p, NEW q PROVE handler.todo # <<p, q>>
        <5>1. Len(<<p, q>>) = 2
          OBVIOUS
        <5>2. Len(handler.todo) # 2
          BY <1>2
        <5> QED
          BY <5>1, <5>2
      <4>6. \A p, q : handler.todo # Recounted(j, p, q)
        BY <1>2, <4>4
      <4> QED
        BY <4>1, <4>2, <4>3, <4>5, <4>6 DEF Lowering
    <3>3. Linking(j, Current.from, Current.to)
      BY <1>2, <2>1, <2>6, <3>2 DEF PathOK, Working
    <3>4. PICK n \in 1 .. MaxCount - 1 :
            link[j] = Final(j, n + 1) /\ Stored(j, n + 1) /\ Shown(j, n, n + 1)
      <4>1. \A p, q : Len(FirstLink(p, j) \o <<Do("symlink", j, q)>>) # 1
        BY DEF FirstLink
      <4>2. \A p, q, o : Len(Recounted(j, p, q) \o <<Do("symlink", j, o)>>) # 1
        BY DEF Recounted
      <4>3. ASSUME NEW p, NEW q, NEW o
            PROVE  handler.todo # <<p, q>> /\ handler.todo # <<p, q, o>>
        <5>1. Len(<<p, q>>) = 2 /\ Len(<<p, q, o>>) = 3
          OBVIOUS
        <5>2. Len(handler.todo) = 1
          BY <1>2
        <5> QED
          BY <5>1, <5>2
      <4>4. \A p, q : handler.todo # FirstLink(p, j) \o <<Do("symlink", j, q)>>
        BY <1>2, <4>1
      <4>5. \A p, q, o : handler.todo # Recounted(j, p, q) \o <<Do("symlink", j, o)>>
        BY <1>2, <4>2
      <4> QED
        BY <3>3, <4>3, <4>4, <4>5 DEF Linking
    <3>5. n \in 1 .. MaxCount /\ n + 1 \in 1 .. MaxCount /\ 1 \in 1 .. MaxCount
      BY LinkAssumption
    <3>6. todo = Recounted(j, Final(j, n + 1), Final(j, n))
      <4>1. ASSUME NEW m \in 1 .. MaxCount, link[j] = Final(j, m) PROVE m = n + 1
        BY <3>4, <3>5, <4>1, PathFacts
      <4>2. \/ link[j] = Final(j, 1)
            \/ \E m \in 1 .. MaxCount - 1 :
                 link[j] = Final(j, m + 1) /\ todo = Recounted(j, Final(j, m + 1), Final(j, m))
        BY <1>7, <3>1
      <4>3. link[j] # Final(j, 1)
        BY <3>5, <4>1
      <4>4. PICK m \in 1 .. MaxCount - 1 :
              link[j] = Final(j, m + 1) /\ todo = Recounted(j, Final(j, m + 1), Final(j, m))
        BY <4>2, <4>3
      <4>5. m + 1 \in 1 .. MaxCount
        BY LinkAssumption
      <4>6. m = n
        BY <4>1, <4>4, <4>5
      <4> QED
        BY <4>4, <4>6
    <3>7. Stored(j, n + 1)' /\ Shown(j, n, n + 1)' /\ link'[j] = link[j]
      BY <1>2, <2>4, <3>4, <3>5, StoreTransfers
    <3>8. Lowering(j)'
      BY <1>6, <3>4, <3>6, <3>7 DEF Lowering
    <3> QED
      BY <1>6, <2>2, <2>6, <3>8 DEF PathOK, Working
  <2> QED
    BY <2>5, <2>6
<1> QED
  BY <1>9, <1>10, <1>12, <1>13, <1>14 DEF LinkInv

\* The call that is added at the end.
LEMMA ThenOne ==
  ASSUME NEW a, NEW b, NEW c, NEW d
  PROVE  <<a, b, c>> \o <<d>> = <<a, b, c, d>>
<1> DEFINE S == {a, b, c, d}
           s == <<a, b, c>>
           r == <<a, b, c, d>>
<1>1. /\ s \in Seq(S) /\ <<d>> \in Seq(S) /\ r \in Seq(S)
      /\ Len(s) = 3 /\ Len(<<d>>) = 1 /\ Len(r) = 4
      /\ s[1] = a /\ s[2] = b /\ s[3] = c /\ <<d>>[1] = d
      /\ r[1] = a /\ r[2] = b /\ r[3] = c /\ r[4] = d
  OBVIOUS
<1> HIDE DEF s, r, S
<1>2. /\ s \o <<d>> \in Seq(S) /\ Len(s \o <<d>>) = 4
      /\ \A i \in 1 .. 4 : (s \o <<d>>)[i] = IF i <= 3 THEN s[i] ELSE <<d>>[i - 3]
  <2>1. /\ s \o <<d>> \in Seq(S) /\ Len(s \o <<d>>) = Len(s) + Len(<<d>>)
        /\ \A i \in 1 .. Len(s) + Len(<<d>>) :
             (s \o <<d>>)[i] = IF i <= Len(s) THEN s[i] ELSE <<d>>[i - Len(s)]
    BY <1>1, ConcatProperties
  <2>2. Len(s) + Len(<<d>>) = 4
    BY <1>1
  <2> QED
    BY <1>1, <2>1, <2>2
<1>3. ASSUME NEW i \in 1 .. 4 PROVE (s \o <<d>>)[i] = r[i]
  <2>1. i = 1 \/ i = 2 \/ i = 3 \/ i = 4
    BY <1>3
  <2> QED
    BY <1>1, <1>2, <2>1
<1>4. s \o <<d>> = r
  BY <1>1, <1>2, <1>3, SeqEqual
<1> QED
  BY <1>4 DEF s, r

\* What is left when the first call is made.
LEMMA Rest ==
  ASSUME NEW a, NEW b, NEW c, NEW d
  PROVE  /\ Head(<<a>>) = a /\ Tail(<<a>>) = <<>>
         /\ Head(<<a, b>>) = a /\ Tail(<<a, b>>) = <<b>>
         /\ Head(<<a, b, c>>) = a /\ Tail(<<a, b, c>>) = <<b, c>>
         /\ Head(<<a, b, c, d>>) = a /\ Tail(<<a, b, c, d>>) = <<b, c, d>>
OBVIOUS

\* A call that may start: what it will do concerns its path alone.
LEMMA StartKeeps ==
  ASSUME LinkInv, NEW t \in Tracees, NEW op \in {"link", "unlink", "rename"},
         NEW a \in Names, NEW b \in Names, NEW todo \in Seq(HostCalls),
         NEW path \in Inters \cup {NoPath}, NEW dec \in Inters \cup {NoPath},
         Starts(t, op, Name(a), Name(b), todo, path, dec),
         IF op = "link" THEN dec = NoPath ELSE path = dec,
         todo # <<>> \/ op = "link" => path \in Inters,
         \A k \in 1 .. Len(todo) :
           \/ CallOf(todo[k], path)
           \/ /\ op = "link"
              /\ \E c \in Names : \/ todo[k] = Do("symlink", path, Name(c))
                                  \/ todo[k] = Do("rename", Name(c), Final(path, 2)),
         \/ op # "link" \/ meant[a] = NoFile
         \/ home[meant[a]] \in {path} \cup broken
         \/ todo # <<>> /\ todo[1] = Do("rename", Name(a), Final(path, 2))
  PROVE  /\ handler = NoHandler /\ call[t] = NoCall
         /\ handler'.todo = todo /\ handler'.path = path /\ Current'.op = op
         /\ handler'.shows = (IF op = "link" THEN meant[a] ELSE NoFile)
         /\ Current'.from = Name(a) /\ Current'.to = Name(b)
         /\ call'[t].dec = dec /\ call'[t].to = Name(b)
         /\ \A u \in Tracees : u # t => call'[u] = call[u]
         /\ data' = data /\ link' = link /\ meant' = meant
         /\ broken' = broken \cup Disturbed(Name(a)) \cup Disturbed(Name(b))
                        \cup InUse(op, Name(a), path)
         /\ (path \in Inters \ broken' => PathOK(path)') => LinkInv'
<1>1. /\ LinkTypeOK /\ PlacesOK /\ LinksOK /\ MeantOK /\ HandlerOK /\ CallsOK
      /\ \A i \in Inters \ broken : PathOK(i)
  BY DEF LinkInv
<1>2. /\ call[t] = NoCall /\ handler = NoHandler
      /\ call' = [call EXCEPT ![t] = [op |-> op, from |-> Name(a), to |-> Name(b), dec |-> dec,
                                      half |-> "proot"]]
      /\ broken' = broken \cup Disturbed(Name(a)) \cup Disturbed(Name(b))
                     \cup InUse(op, Name(a), path)
      /\ data' = data /\ link' = link /\ meant' = meant /\ home' = home /\ mixed' = mixed
  BY DEF Starts, hostVars
<1>3. handler' = [tracee |-> t, todo |-> todo, path |-> path,
                  shows |-> IF op = "link" THEN meant[a] ELSE NoFile]
  BY PathFacts DEF Starts
<1>4. /\ call'[t] = [op |-> op, from |-> Name(a), to |-> Name(b), dec |-> dec, half |-> "proot"]
      /\ \A u \in Tracees : u # t => call'[u] = call[u]
  BY <1>1, <1>2 DEF LinkTypeOK
<1>5. /\ handler'.tracee = t /\ handler'.todo = todo /\ handler'.path = path
      /\ handler'.shows = (IF op = "link" THEN meant[a] ELSE NoFile)
      /\ handler' # NoHandler
  BY <1>3, LinkAssumption DEF NoHandler
<1>6. /\ Current'.op = op /\ Current'.from = Name(a) /\ Current'.to = Name(b)
      /\ Current'.dec = dec /\ Current'.half = "proot"
  BY <1>4, <1>5 DEF Current
<1>7. /\ broken' \subseteq Inters /\ broken \subseteq broken'
      /\ Name(a) \in Paths /\ Name(b) \in Paths
  <2>1. \A c \in Names : Disturbed(Name(c)) \subseteq Inters
    BY <1>1 DEF Disturbed, LinksOK
  <2>2. InUse(op, Name(a), path) \subseteq Inters
    BY DEF InUse
  <2> QED
    BY <1>1, <1>2, <2>1, <2>2, PathFacts DEF LinkTypeOK
<1>8. LinkTypeOK'
  <2>1. call' \in [Tracees -> [op : {"none", "link", "unlink", "rename"},
                               from : Paths \cup {NoPath}, to : Paths \cup {NoPath},
                               dec : Inters \cup {NoPath}, half : {"none", "proot", "kernel"}]]
    BY <1>1, <1>2, <1>7 DEF LinkTypeOK
  <2> QED
    BY <1>1, <1>2, <1>5, <1>7, <2>1 DEF LinkTypeOK
<1>9. PlacesOK' /\ LinksOK'
  BY <1>1, <1>2, <1>7 DEF PlacesOK, LinksOK
<1>10. CallsOK'
  <2>1. \A u \in Tracees : call[u].half # "proot"
    BY <1>1, <1>2, LinkAssumption DEF CallsOK, NoHandler
  <2> QED
    BY <1>1, <1>4, <1>5, <2>1 DEF CallsOK
<1>11. MeantOK'
  <2>1. \A c \in Names : ~ MovedAway(c)
    BY <1>2 DEF MovedAway, NoHandler
  <2> QED
    BY <1>1, <1>2, <1>7, <2>1 DEF MeantOK
<1>12. HandlerOK'
  <2>1. ASSUME NEW k \in 1 .. Len(handler'.todo) PROVE CallOK(handler.todo[k])'
    <3>1. path \in Inters /\ todo # <<>>
      BY <1>5, <2>1
    <3>2. a \in Names /\ 2 \in 1 .. MaxCount
      BY LinkAssumption
    <3>3. CASE CallOf(todo[k], path)
      BY <1>5, <3>1, <3>2, <3>3 DEF CallOK, CallOf
    <3>4. CASE /\ op = "link"
               /\ \E c \in Names : \/ todo[k] = Do("symlink", path, Name(c))
                                   \/ todo[k] = Do("rename", Name(c), Final(path, 2))
      BY <1>5, <1>6, <3>1, <3>2, <3>4 DEF CallOK
    <3> QED
      BY <1>5, <2>1, <3>3, <3>4
  <2>2. op # "none"
    OBVIOUS
  <2> QED
    BY <1>2, <1>5, <1>6, <1>7, <2>1, <2>2 DEF HandlerOK
<1>13. ASSUME NEW i \in Inters \ broken', i # path PROVE PathOK(i)'
  <2>1. PathOK(i)
    BY <1>1, <1>7, <1>13
  <2>2. i # NoPath /\ NoHandler.path = NoPath
    BY PathFacts DEF NoHandler
  <2>3. Sound(i)
    BY <1>2, <2>1, <2>2 DEF PathOK
  <2>4. dec # i /\ call[t].dec # i
    BY <1>2, <1>13, <2>2 DEF NoCall
  <2>5. \A u \in Tracees : /\ call'[u].dec = i <=> call[u].dec = i
                           /\ call[u].dec = i => call'[u].to = call[u].to
    BY <1>4, <2>4
  <2> QED
    BY <1>2, <1>5, <1>13, <2>1, <2>3, <2>5, PathLeft
<1>14. (path \in Inters \ broken' => PathOK(path)') => LinkInv'
  BY <1>8, <1>9, <1>10, <1>11, <1>12, <1>13 DEF LinkInv
<1> QED
  BY <1>2, <1>4, <1>5, <1>6, <1>14

\* A path that is not mishandled before a call starts.
LEMMA PathBefore ==
  ASSUME LinkInv, handler = NoHandler, NEW i \in Inters \ broken
  PROVE  PathOK(i) /\ LoweredOK(i) /\ Sound(i)
<1>1. i # NoPath /\ NoHandler.path = NoPath
  BY PathFacts DEF NoHandler
<1> QED
  BY <1>1 DEF LinkInv, PathOK

\* A name of i that no call is removing is kept.
LEMMA KeptName ==
  ASSUME NEW i \in Inters, NEW a \in Names, link[Name(a)] = i, i \notin Disturbed(Name(a))
  PROVE  a \in Kept(i) /\ Removing(Name(a)) = {}
<1>1. i # NoPath
  BY PathFacts
<1>2. Removing(Name(a)) = {}
  BY <1>1 DEF Disturbed
<1>3. \A t \in Tracees : ~ Takes(t, i, a)
  BY <1>1, <1>2 DEF Removing, Takes
<1> QED
  BY <1>2, <1>3 DEF Kept, NamesOf

\* The first link() of a file.
LEMMA FirstLinkKeepsInv ==
  ASSUME LinkInv, NEW t \in Tracees, NEW a \in Names, NEW b \in Names, NEW i \in Unused(Name(a)),
         Exists(Name(a)), link[Name(a)] = NoPath,
         Starts(t, "link", Name(a), Name(b), FirstLink(Name(a), i) \o <<Do("symlink", i, Name(b))>>,
                i, NoPath)
  PROVE  LinkInv'
<1> DEFINE todo == FirstLink(Name(a), i) \o <<Do("symlink", i, Name(b))>>
<1>1. i \in Inters
  BY DEF Unused
<1>2. todo = <<Do("rename", Name(a), Final(i, 2)), Do("symlink", Final(i, 2), i),
               Do("symlink", i, Name(a)), Do("symlink", i, Name(b))>>
  BY ThenOne DEF FirstLink
<1> HIDE DEF todo
<1>3. 2 \in 1 .. MaxCount
  BY LinkAssumption
<1>4. todo \in Seq(HostCalls)
  <2>1. i \in Paths /\ Name(a) \in Paths /\ Name(b) \in Paths /\ Final(i, 2) \in Paths
    BY <1>1, <1>3, PathFacts
  <2> QED
    BY <1>2, <2>1 DEF HostCalls, Do
<1>5. ASSUME NEW k \in 1 .. Len(todo)
      PROVE  \/ CallOf(todo[k], i)
             \/ \E c \in Names : \/ todo[k] = Do("symlink", i, Name(c))
                                 \/ todo[k] = Do("rename", Name(c), Final(i, 2))
  <2>1. k = 1 \/ k = 2 \/ k = 3 \/ k = 4
    BY <1>2
  <2> QED
    BY <1>2, <1>3, <2>1 DEF CallOf
<1>6. todo # <<>> /\ todo[1] = Do("rename", Name(a), Final(i, 2))
  BY <1>2
<1>7. /\ handler = NoHandler /\ call[t] = NoCall
      /\ handler'.todo = todo /\ handler'.path = i /\ Current'.op = "link"
      /\ Current'.from = Name(a) /\ Current'.to = Name(b)
      /\ call'[t].dec = NoPath
      /\ \A u \in Tracees : u # t => call'[u] = call[u]
      /\ data' = data /\ link' = link /\ meant' = meant
      /\ broken' = broken \cup Disturbed(Name(a)) \cup Disturbed(Name(b))
                     \cup InUse("link", Name(a), i)
      /\ (i \in Inters \ broken' => PathOK(i)') => LinkInv'
  <2>1. Starts(t, "link", Name(a), Name(b), todo, i, NoPath)
    BY DEF todo
  <2>2. /\ "link" \in {"link", "unlink", "rename"} /\ i \in Inters \cup {NoPath}
        /\ NoPath \in Inters \cup {NoPath}
    BY <1>1
  <2> QED
    BY <1>1, <1>4, <1>5, <1>6, <2>1, <2>2, StartKeeps
<1>8. ASSUME i \notin broken' PROVE PathOK(i)'
  <2>1. i \in Inters \ broken /\ Content(i) = NoFile
    BY <1>1, <1>7, <1>8 DEF InUse
  <2>2. LoweredOK(i) /\ Sound(i)
    BY <1>7, <2>1, PathBefore
  <2>3. Unlinked(i)
    <3>1. ASSUME NEW n \in 1 .. MaxCount, Linked(i, n) PROVE FALSE
      <4>1. link[i] = Final(i, n) /\ data[Final(i, n)] # NoFile
        BY <3>1 DEF Linked, Stored
      <4>2. link[Final(i, n)] = NoPath
        BY <1>1, <2>1 DEF LinkInv, LinksOK
      <4>3. Content(i) = data[Final(i, n)]
        BY <1>1, <4>1, <4>2, PathFacts DEF Content, Target
      <4> QED
        BY <2>1, <4>1, <4>3
    <3> QED
      BY <2>2, <3>1 DEF Sound
  <2>4. i # NoPath /\ NoCall.dec = NoPath
    BY <1>1, PathFacts DEF NoCall
  <2>5. \A u \in Tracees : /\ call'[u].dec = i <=> call[u].dec = i
                           /\ call[u].dec = i => call'[u].to = call[u].to
    BY <1>7, <2>4
  <2>6. LoweredOK(i)'
    BY <1>7, <2>2, <2>5 DEF LoweredOK
  <2>7. Kept(i)' = Kept(i)
    BY <1>7, <2>5 DEF Kept, NamesOf, Takes
  <2>8. Unlinked(i)'
    BY <1>7, <2>3, <2>7 DEF Unlinked, Bare
  <2>9. Linking(i, Name(a), Name(b))'
    BY <1>7, <2>8 DEF Linking, todo
  <2> QED
    BY <1>7, <2>6, <2>9 DEF PathOK, Working
<1> QED
  BY <1>1, <1>7, <1>8

\* A final path of i tells the number of names.
LEMMA SameFinal ==
  ASSUME NEW i \in Inters, NEW n \in 1 .. MaxCount, NEW m \in 1 .. MaxCount,
         Final(i, n) = Final(i, m)
  PROVE  m = n
BY PathFacts

\* Another link() of a file.
LEMMA NextLinkKeepsInv ==
  ASSUME LinkInv, NEW t \in Tracees, NEW a \in Names, NEW b \in Names, NEW i, i = link[Name(a)],
         i # NoPath, link[i] # NoPath, Count(link[i]) < MaxCount,
         Starts(t, "link", Name(a), Name(b), NextLink(i) \o <<Do("symlink", i, Name(b))>>, i, NoPath)
  PROVE  LinkInv'
<1> DEFINE todo == NextLink(i) \o <<Do("symlink", i, Name(b))>>
<1>1. i \in Inters
  BY DEF LinkInv, LinksOK
<1>2. PICK n \in 1 .. MaxCount : link[i] = Final(i, n)
  BY <1>1 DEF LinkInv, LinksOK
<1>3. n \in 1 .. MaxCount - 1 /\ n + 1 \in 1 .. MaxCount
  BY <1>1, <1>2, PathFacts, LinkAssumption
<1>4. todo = Recounted(i, Final(i, n), Final(i, n + 1)) \o <<Do("symlink", i, Name(b))>>
  BY <1>1, <1>2, PathFacts DEF NextLink
<1>5. todo = <<Do("rename", Final(i, n), Final(i, n + 1)), Do("unlink", NoPath, i),
               Do("symlink", Final(i, n + 1), i), Do("symlink", i, Name(b))>>
  <2>1. todo = <<Do("rename", Final(i, n), Final(i, n + 1)), Do("unlink", NoPath, i),
                 Do("symlink", Final(i, n + 1), i)>> \o <<Do("symlink", i, Name(b))>>
    BY <1>4 DEF Recounted
  <2> HIDE DEF todo
  <2> QED
    BY <2>1, ThenOne
<1> HIDE DEF todo
<1>6. todo \in Seq(HostCalls)
  <2>1. /\ i \in Paths /\ Name(b) \in Paths /\ Final(i, n) \in Paths /\ Final(i, n + 1) \in Paths
    BY <1>1, <1>3, PathFacts
  <2> QED
    BY <1>5, <2>1 DEF HostCalls, Do
<1>7. ASSUME NEW k \in 1 .. Len(todo)
      PROVE  \/ CallOf(todo[k], i)
             \/ \E c \in Names : \/ todo[k] = Do("symlink", i, Name(c))
                                 \/ todo[k] = Do("rename", Name(c), Final(i, 2))
  <2>1. k = 1 \/ k = 2 \/ k = 3 \/ k = 4
    BY <1>5
  <2> QED
    BY <1>3, <1>5, <2>1 DEF CallOf
<1>8. meant[a] = NoFile \/ home[meant[a]] \in {i} \cup broken
  BY DEF LinkInv, MeantOK
<1>9. /\ handler = NoHandler /\ call[t] = NoCall
      /\ handler'.todo = todo /\ handler'.path = i /\ Current'.op = "link"
      /\ handler'.shows = meant[a]
      /\ Current'.from = Name(a) /\ Current'.to = Name(b)
      /\ call'[t].dec = NoPath
      /\ \A u \in Tracees : u # t => call'[u] = call[u]
      /\ data' = data /\ link' = link /\ meant' = meant
      /\ broken' = broken \cup Disturbed(Name(a)) \cup Disturbed(Name(b))
                     \cup InUse("link", Name(a), i)
      /\ (i \in Inters \ broken' => PathOK(i)') => LinkInv'
  <2>1. Starts(t, "link", Name(a), Name(b), todo, i, NoPath)
    BY DEF todo
  <2>2. /\ "link" \in {"link", "unlink", "rename"} /\ i \in Inters \cup {NoPath}
        /\ NoPath \in Inters \cup {NoPath}
    BY <1>1
  <2> QED
    BY <1>1, <1>6, <1>7, <1>8, <2>1, <2>2, StartKeeps
<1>10. ASSUME i \notin broken' PROVE PathOK(i)'
  <2>1. i \in Inters \ broken /\ i \notin Disturbed(Name(a))
    BY <1>1, <1>9, <1>10
  <2>2. LoweredOK(i) /\ Sound(i)
    BY <1>9, <2>1, PathBefore
  <2>3. a \in Kept(i)
    BY <1>1, <2>1, KeptName
  <2>4. PICK m \in 1 .. MaxCount : Linked(i, m)
    BY <2>2, <2>3 DEF Sound, Unlinked
  <2>5. m = n
    BY <1>1, <1>2, <2>4, SameFinal DEF Linked
  <2>6. Linked(i, n) /\ meant[a] = data[Final(i, n)]
    BY <2>3, <2>4, <2>5 DEF Linked, Shown
  <2>7. i # NoPath /\ NoCall.dec = NoPath
    BY <1>1, PathFacts DEF NoCall
  <2>8. \A u \in Tracees : /\ call'[u].dec = i <=> call[u].dec = i
                           /\ call[u].dec = i => call'[u].to = call[u].to
    BY <1>9, <2>7
  <2>9. LoweredOK(i)'
    BY <1>9, <2>2, <2>8 DEF LoweredOK
  <2>10. Kept(i)' = Kept(i)
    BY <1>9, <2>8 DEF Kept, NamesOf, Takes
  <2>11. SameStore(i) /\ SameKept(i)
    BY <1>9, <2>10 DEF SameStore, SameKept
  <2>12. Linked(i, n)' /\ handler'.shows = data'[Final(i, n)]
    BY <1>1, <1>9, <2>6, <2>11, StoreTransfers
  <2>13. Linking(i, Name(a), Name(b))'
    BY <1>3, <1>4, <1>9, <2>12 DEF Linking
  <2> QED
    BY <1>9, <2>9, <2>13 DEF PathOK, Working
<1> QED
  BY <1>1, <1>9, <1>10

\* unlink() of name b, or rename() of name a to it.
LEMMA RemovesKeepsInv ==
  ASSUME LinkInv, IsFiniteSet(Names), NEW t \in Tracees, NEW a \in Names, NEW b \in Names,
         NEW i, i = link[Name(b)], NEW todo, todo = Decrement(Name(b)),
         NEW dec, dec = Decremented(Name(b)), NEW op \in {"unlink", "rename"},
         Removes(t, op, Name(a), Name(b))
  PROVE  LinkInv'
<1>1. \/ todo = <<>> /\ dec = NoPath
      \/ /\ i \in Inters /\ dec = i /\ todo # <<>>
         /\ todo \in Seq(HostCalls) /\ \A k \in 1 .. Len(todo) : CallOf(todo[k], i)
         /\ \/ /\ link[i] = Final(i, 1)
               /\ todo = <<Do("unlink", NoPath, i), Do("unlink", NoPath, Final(i, 1))>>
            \/ \E n \in 1 .. MaxCount - 1 :
                 link[i] = Final(i, n + 1) /\ todo = Recounted(i, Final(i, n + 1), Final(i, n))
  BY DecrementCalls DEF LinkInv
<1>2. Starts(t, op, Name(a), Name(b), todo, dec, dec) /\ op # "link"
  BY DEF Removes
<1>3. todo \in Seq(HostCalls) /\ dec \in Inters \cup {NoPath} /\ (todo # <<>> => dec \in Inters)
  <2>1. <<>> \in Seq(HostCalls)
    OBVIOUS
  <2> QED
    BY <1>1, <2>1
<1>4. \A k \in 1 .. Len(todo) : CallOf(todo[k], dec)
  <2>1. CASE todo = <<>>
    BY <2>1
  <2> QED
    BY <1>1, <2>1
<1>5. /\ handler = NoHandler /\ call[t] = NoCall
      /\ handler'.todo = todo /\ handler'.path = dec
      /\ call'[t].dec = dec /\ call'[t].to = Name(b)
      /\ \A u \in Tracees : u # t => call'[u] = call[u]
      /\ data' = data /\ link' = link /\ meant' = meant
      /\ broken' = broken \cup Disturbed(Name(a)) \cup Disturbed(Name(b))
                     \cup InUse(op, Name(a), dec)
      /\ (dec \in Inters \ broken' => PathOK(dec)') => LinkInv'
  <2>1. op \in {"link", "unlink", "rename"} /\ op # "link"
    OBVIOUS
  <2>2. IF op = "link" THEN dec = NoPath ELSE dec = dec
    BY <2>1
  <2> QED
    BY <1>2, <1>3, <1>4, <2>1, <2>2, StartKeeps
<1>6. ASSUME dec \in Inters \ broken' PROVE PathOK(dec)'
  <2>1. /\ i \in Inters \ broken /\ dec = i /\ todo # <<>> /\ i # NoPath
        /\ i \notin Disturbed(Name(b))
    BY <1>1, <1>5, <1>6, PathFacts
  <2>2. PICK n \in 1 .. MaxCount :
          /\ link[i] = Final(i, n)
          /\ \/ n = 1 /\ todo = <<Do("unlink", NoPath, i), Do("unlink", NoPath, Final(i, 1))>>
             \/ n - 1 \in 1 .. MaxCount - 1 /\ todo = Recounted(i, Final(i, n), Final(i, n - 1))
    <3>1. CASE /\ link[i] = Final(i, 1)
               /\ todo = <<Do("unlink", NoPath, i), Do("unlink", NoPath, Final(i, 1))>>
      BY <3>1, LinkAssumption
    <3>2. ASSUME NEW m \in 1 .. MaxCount - 1, link[i] = Final(i, m + 1),
                 todo = Recounted(i, Final(i, m + 1), Final(i, m))
          PROVE  /\ m + 1 \in 1 .. MaxCount /\ link[i] = Final(i, m + 1)
                 /\ (m + 1) - 1 \in 1 .. MaxCount - 1
                 /\ todo = Recounted(i, Final(i, m + 1), Final(i, (m + 1) - 1))
      <4>1. (m + 1) - 1 = m /\ m + 1 \in 1 .. MaxCount
        BY LinkAssumption
      <4> QED
        BY <3>2, <4>1
    <3> QED
      BY <1>1, <2>1, <3>1, <3>2
  <2>3. LoweredOK(i) /\ Sound(i)
    BY <1>5, <2>1, PathBefore
  <2>4. b \in Kept(i) /\ Removing(Name(b)) = {}
    BY <2>1, KeptName
  <2>5. PICK m \in 1 .. MaxCount : Linked(i, m)
    BY <2>3, <2>4 DEF Sound, Unlinked
  <2>6. m = n
    BY <2>1, <2>2, <2>5, SameFinal DEF Linked
  <2>7. Stored(i, n) /\ Shown(i, n, n)
    BY <2>5, <2>6 DEF Linked
  <2>8. \A u \in Tracees : call'[u].dec = i => u = t \/ (call[u].dec = i /\ call'[u].to = call[u].to)
    BY <1>5
  <2>9. \A u \in Tracees : call[u].dec = i => u # t /\ call[u].to # Name(b)
    <3>1. \A u \in Tracees : call[u].dec = i => call[u].to # Name(b)
      BY <2>1, <2>4 DEF Removing
    <3> QED
      BY <1>5, <2>1, <3>1 DEF NoCall
  <2>10. LoweredOK(i)'
    <3>1. \A u \in Tracees : call'[u].dec = i => link'[call'[u].to] = i
      BY <1>5, <2>3, <2>8 DEF LoweredOK
    <3>2. \A u, v \in Tracees : call'[u].dec = i /\ call'[v].dec = i /\
         call'[u].to = call'[v].to => u = v
      BY <1>5, <2>3, <2>8, <2>9 DEF LoweredOK
    <3> QED
      BY <2>1, <3>1, <3>2 DEF LoweredOK
  <2>11. Kept(i)' = Kept(i) \ {b}
    <3>1. Takes(t, i, b)' /\ ~ Takes(t, i, b)
      BY <1>5, <2>1, <2>9 DEF Takes
    <3>2. ASSUME NEW c \in Names, c # b
          PROVE  \A u \in Tracees : Takes(u, i, c)' <=> Takes(u, i, c)
      <4>1. ~ Takes(t, i, c)' /\ ~ Takes(t, i, c)
        BY <1>5, <2>1, <2>9, <3>2, PathFacts DEF Takes
      <4> QED
        BY <1>5, <4>1 DEF Takes
    <3>3. NamesOf(i)' = NamesOf(i)
      BY <1>5, <2>1 DEF NamesOf
    <3>4. Kept(i)' = {c \in NamesOf(i) : \A u \in Tracees : ~ Takes(u, i, c)'}
      BY <2>1, <3>3 DEF Kept
    <3> QED
      BY <3>1, <3>2, <3>4 DEF Kept, NamesOf
  <2>12. Cardinality(Kept(i)') = n - 1 /\ IsFiniteSet(Kept(i)')
    <3>1. Kept(i) \subseteq Names
      BY DEF Kept, NamesOf
    <3>2. IsFiniteSet(Kept(i))
      BY <3>1, FS_Subset
    <3> QED
      BY <2>4, <2>7, <2>11, <3>2, FS_RemoveElement DEF Shown
  <2>13. Stored(i, n)'
    BY <1>5, <2>7 DEF Stored
  <2>14. CASE n = 1 /\ todo = <<Do("unlink", NoPath, i), Do("unlink", NoPath, Final(i, 1))>>
    <3>1. Kept(i)' = {}
      BY <2>12, <2>14, FS_EmptySet
    <3>2. Lowering(i)'
      BY <1>5, <2>1, <2>2, <2>13, <2>14, <3>1 DEF Lowering
    <3> QED
      BY <1>5, <2>1, <2>10, <3>2 DEF PathOK, Working
  <2>15. CASE n - 1 \in 1 .. MaxCount - 1 /\ todo = Recounted(i, Final(i, n), Final(i, n - 1))
    <3>1. Shown(i, n - 1, n)'
      BY <1>5, <2>7, <2>11, <2>12 DEF Shown
    <3>2. n = (n - 1) + 1
      OBVIOUS
    <3>3. Lowering(i)'
      BY <1>5, <2>1, <2>2, <2>13, <2>15, <3>1, <3>2 DEF Lowering
    <3> QED
      BY <1>5, <2>1, <2>10, <3>3 DEF PathOK, Working
  <2> QED
    BY <2>2, <2>14, <2>15
<1> QED
  BY <1>1, <1>5, <1>6

(***************************************************************************)
(* The host calls of a handler.                                            *)
(***************************************************************************)

\* The file that a link leads to has its home there, or where a link was moved to.
LEMMA ContentHome ==
  ASSUME LinkTypeOK, PlacesOK, LinksOK, NEW a \in Names, link[Name(a)] # NoPath
  PROVE  Content(Name(a)) = NoFile \/ home[Content(Name(a))] \in {link[Name(a)]} \cup broken
<1> DEFINE Ends(i) == Target(Target(i))
<1>1. ASSUME NEW i \in Inters
      PROVE  \/ Target(i) = i
             \/ \E n \in 1 .. MaxCount : Target(i) = Final(i, n)
  BY <1>1 DEF LinksOK, Target
<1>2. ASSUME NEW i \in Inters, NEW n \in 1 .. MaxCount
      PROVE  \/ Target(Final(i, n)) = Final(i, n)
             \/ i \in broken /\ Target(Final(i, n)) \in Inters \cap broken
  BY <1>2 DEF LinksOK, Target
<1>3. \A i \in Inters : data[i] = NoFile
  BY DEF PlacesOK
<1>4. \A i \in Inters, n \in 1 .. MaxCount : data[Final(i, n)] = NoFile \/ home[data[Final(i, n)]] = i
  BY DEF PlacesOK
<1>5. PICK i \in Inters : link[Name(a)] = i /\ Target(Name(a)) = i
  BY DEF LinksOK, Target
<1>6. CASE Target(i) = i
  BY <1>3, <1>5, <1>6 DEF Content
<1>7. ASSUME NEW n \in 1 .. MaxCount, Target(i) = Final(i, n), Target(Final(i, n)) = Final(i, n)
      PROVE  Content(Name(a)) = NoFile \/ home[Content(Name(a))] = i
  BY <1>4, <1>5, <1>7 DEF Content
<1>8. ASSUME NEW n \in 1 .. MaxCount, Target(i) = Final(i, n),
             Target(Final(i, n)) \in Inters \cap broken
      PROVE  Content(Name(a)) = NoFile \/ home[Content(Name(a))] \in broken
  <2>1. PICK j \in Inters \cap broken : Target(Final(i, n)) = j
    BY <1>8
  <2>2. Content(Name(a)) = data[Target(j)]
    BY <1>5, <1>8, <2>1 DEF Content
  <2> QED
    BY <1>1, <1>3, <1>4, <2>1, <2>2
<1> QED
  BY <1>1, <1>2, <1>5, <1>6, <1>7, <1>8

\* What every host call does to the handler.
LEMMA StepFacts ==
  ASSUME LinkInv, Step, NEW c, c = Head(handler.todo)
  PROVE  /\ handler # NoHandler /\ handler.path \in Inters /\ handler.todo # <<>>
         /\ c = handler.todo[1] /\ CallOK(c) /\ HostCall(c)
         /\ handler'.todo = Tail(handler.todo) /\ handler'.path = handler.path
         /\ handler'.shows = (IF Shares(c) THEN Content(c.from) ELSE handler.shows)
         /\ Current' = Current /\ call' = call /\ mixed' \subseteq Inters
         /\ Len(handler'.todo) = Len(handler.todo) - 1
         /\ \A k \in 1 .. Len(handler'.todo) : handler'.todo[k] = handler.todo[k + 1]
         /\ handler'.tracee \in Tracees \cup {NoTracee} /\ handler'.todo \in Seq(HostCalls)
         /\ CallsOK'
         /\ (/\ broken \subseteq broken'
             /\ \/ handler'.shows = NoFile \/ Current.op # "link"
                \/ home'[handler'.shows] \in {handler.path} \cup broken') => HandlerOK'
         /\ (~ \E a \in Names : c = Do("rename", Name(a), Final(handler.path, 2))) =>
              \/ handler.shows = NoFile \/ Current.op # "link"
              \/ home[handler.shows] \in {handler.path} \cup broken
<1>1. LinkTypeOK /\ HandlerOK /\ CallsOK
  BY DEF LinkInv
<1>2. handler.todo # <<>> /\ handler # NoHandler /\ handler.path \in Inters
  BY <1>1, PathOfHandler DEF Step
<1>3. /\ HostCall(c) /\ call' = call
      /\ handler' = [handler EXCEPT !.todo = Tail(@),
                                    !.shows = IF Shares(c) THEN Content(c.from) ELSE @]
  BY DEF Step
<1>4. /\ handler'.path = handler.path /\ handler'.tracee = handler.tracee
      /\ handler'.todo = Tail(handler.todo)
      /\ handler'.shows = (IF Shares(c) THEN Content(c.from) ELSE handler.shows)
  BY <1>3
<1>5. handler.todo \in Seq(HostCalls)
  BY <1>1 DEF LinkTypeOK
<1>6. /\ Len(Tail(handler.todo)) = Len(handler.todo) - 1 /\ Tail(handler.todo) \in Seq(HostCalls)
      /\ \A k \in 1 .. Len(Tail(handler.todo)) : Tail(handler.todo)[k] = handler.todo[k + 1]
      /\ Len(handler.todo) \in Nat \ {0}
  BY <1>2, <1>5, HeadTailProperties
<1>7. c = handler.todo[1] /\ CallOK(c)
  <2>1. c = handler.todo[1]
    BY <1>2, <1>5
  <2> QED
    BY <1>1, <1>2, <1>6, <2>1 DEF HandlerOK
<1>8. Current' = Current
  BY <1>3, <1>4 DEF Current
<1>9. CallsOK'
  BY <1>1, <1>3, <1>4 DEF CallsOK
<1>10. ASSUME broken \subseteq broken',
              \/ handler'.shows = NoFile \/ Current.op # "link"
              \/ home'[handler'.shows] \in {handler.path} \cup broken'
       PROVE  HandlerOK'
  <2>1. ASSUME NEW d, CallOK(d) PROVE CallOK(d)'
    BY <1>4, <1>8, <1>10, <2>1 DEF CallOK
  <2>2. ASSUME NEW k \in 1 .. Len(handler'.todo) PROVE CallOK(handler.todo[k])'
    <3>1. k + 1 \in 1 .. Len(handler.todo) /\ handler'.todo[k] = handler.todo[k + 1]
      BY <1>4, <1>6, <2>2
    <3>2. CallOK(handler.todo[k + 1])
      BY <1>1, <1>2, <3>1 DEF HandlerOK
    <3> QED
      BY <2>1, <3>1, <3>2
  <2> QED
    BY <1>1, <1>2, <1>4, <1>8, <1>10, <2>2 DEF HandlerOK
<1>11. (~ \E a \in Names : c = Do("rename", Name(a), Final(handler.path, 2))) =>
         \/ handler.shows = NoFile \/ Current.op # "link"
         \/ home[handler.shows] \in {handler.path} \cup broken
  BY <1>1, <1>2, <1>7 DEF HandlerOK
<1>12. handler'.tracee \in Tracees \cup {NoTracee}
  BY <1>1, <1>4 DEF LinkTypeOK
<1>13. mixed' \subseteq Inters
  BY <1>1, <1>2 DEF Step, Mixing, LinkTypeOK
<1> QED
  BY <1>2, <1>3, <1>4, <1>6, <1>7, <1>8, <1>9, <1>10, <1>11, <1>12, <1>13

\* The next call of a handler and those after it, and what is known of its path.
NextCall(i, p, q, c, rest) ==
  \/ /\ Current.op = "link"
     /\ \/ /\ c = Do("rename", p, Final(i, 2)) /\ Unlinked(i)
           /\ rest = <<Do("symlink", Final(i, 2), i), Do("symlink", i, p), Do("symlink", i, q)>>
        \/ /\ c = Do("symlink", Final(i, 2), i) /\ link[i] = NoPath /\ Moved1(i, p)
           /\ rest = <<Do("symlink", i, p), Do("symlink", i, q)>>
        \/ /\ c = Do("symlink", i, p) /\ link[i] = Final(i, 2) /\ Moved1(i, p)
           /\ rest = <<Do("symlink", i, q)>>
        \/ \E n \in 1 .. MaxCount - 1 :
             \/ /\ c = Do("rename", Final(i, n), Final(i, n + 1)) /\ Linked(i, n)
                /\ rest = <<Do("unlink", NoPath, i), Do("symlink", Final(i, n + 1), i),
                            Do("symlink", i, q)>>
                /\ handler.shows = data[Final(i, n)]
             \/ /\ c = Do("unlink", NoPath, i)
                /\ rest = <<Do("symlink", Final(i, n + 1), i), Do("symlink", i, q)>>
                /\ Stored(i, n + 1) /\ Shown(i, n, n + 1)
                /\ handler.shows = data[Final(i, n + 1)]
             \/ /\ c = Do("symlink", Final(i, n + 1), i) /\ rest = <<Do("symlink", i, q)>>
                /\ Stored(i, n + 1) /\ Shown(i, n, n + 1)
                /\ handler.shows = data[Final(i, n + 1)]
             \/ /\ c = Do("symlink", i, q) /\ rest = <<>> /\ Len(handler.todo) = 1
                /\ link[i] = Final(i, n + 1) /\ Stored(i, n + 1) /\ Shown(i, n, n + 1)
                /\ handler.shows = data[Final(i, n + 1)]
  \/ \E n \in 1 .. MaxCount - 1 :
       \/ /\ c = Do("rename", Final(i, n + 1), Final(i, n))
          /\ rest = <<Do("unlink", NoPath, i), Do("symlink", Final(i, n), i)>>
          /\ link[i] = Final(i, n + 1) /\ Stored(i, n + 1) /\ Shown(i, n, n + 1)
       \/ /\ c = Do("unlink", NoPath, i) /\ rest = <<Do("symlink", Final(i, n), i)>>
          /\ Stored(i, n) /\ Shown(i, n, n)
       \/ /\ c = Do("symlink", Final(i, n), i) /\ rest = <<>>
          /\ Stored(i, n) /\ Shown(i, n, n)
  \/ /\ c = Do("unlink", NoPath, i) /\ rest = <<Do("unlink", NoPath, Final(i, 1))>>
     /\ Stored(i, 1) /\ Kept(i) = {}
  \/ /\ c = Do("unlink", NoPath, Final(i, 1)) /\ rest = <<>>
     /\ link[i] = NoPath /\ Stored(i, 1) /\ Kept(i) = {}

\* Two calls that are the same are the same in every part.
LEMMA DoFacts ==
  ASSUME NEW a, NEW b, NEW d
  PROVE  Do(a, b, d).do = a /\ Do(a, b, d).from = b /\ Do(a, b, d).to = d
BY DEF Do

\* The next call of a handler, and what is known of its path before that call.
LEMMA Phases ==
  ASSUME NEW i \in Inters, Working(i), handler.todo # <<>>,
         NEW p, p = Current.from, NEW q, q = Current.to,
         NEW c, c = Head(handler.todo), NEW rest, rest = Tail(handler.todo)
  PROVE  NextCall(i, p, q, c, rest)
<1>1. CASE Current.op = "link" /\ Linking(i, p, q)
  <2>1. CASE handler.todo = FirstLink(p, i) \o <<Do("symlink", i, q)>> /\ Unlinked(i)
    <3>1. handler.todo = <<Do("rename", p, Final(i, 2)), Do("symlink", Final(i, 2), i),
                           Do("symlink", i, p), Do("symlink", i, q)>>
      BY <2>1, ThenOne DEF FirstLink
    <3>2. /\ c = Do("rename", p, Final(i, 2))
          /\ rest = <<Do("symlink", Final(i, 2), i), Do("symlink", i, p), Do("symlink", i, q)>>
      BY <3>1, Rest
    <3> QED
      BY <1>1, <2>1, <3>2 DEF NextCall
  <2>2. CASE /\ handler.todo = <<Do("symlink", Final(i, 2), i), Do("symlink", i, p),
                  Do("symlink", i, q)>>
             /\ link[i] = NoPath /\ Moved1(i, p)
    <3>1. c = Do("symlink", Final(i, 2), i) /\ rest = <<Do("symlink", i, p), Do("symlink", i, q)>>
      BY <2>2, Rest
    <3> QED
      BY <1>1, <2>2, <3>1 DEF NextCall
  <2>3. CASE /\ handler.todo = <<Do("symlink", i, p), Do("symlink", i, q)>>
             /\ link[i] = Final(i, 2) /\ Moved1(i, p)
    <3>1. c = Do("symlink", i, p) /\ rest = <<Do("symlink", i, q)>>
      BY <2>3, Rest
    <3> QED
      BY <1>1, <2>3, <3>1 DEF NextCall
  <2>4. ASSUME NEW n \in 1 .. MaxCount - 1,
               handler.todo = Recounted(i, Final(i, n), Final(i, n + 1)) \o <<Do("symlink", i, q)>>
        PROVE  /\ c = Do("rename", Final(i, n), Final(i, n + 1))
               /\ rest = <<Do("unlink", NoPath, i), Do("symlink", Final(i, n + 1), i),
                           Do("symlink", i, q)>>
    <3>1. handler.todo = <<Do("rename", Final(i, n), Final(i, n + 1)), Do("unlink", NoPath, i),
                           Do("symlink", Final(i, n + 1), i), Do("symlink", i, q)>>
      BY <2>4, ThenOne DEF Recounted
    <3> QED
      BY <3>1, Rest
  <2>5. ASSUME NEW n \in 1 .. MaxCount - 1,
               handler.todo = <<Do("unlink", NoPath, i), Do("symlink", Final(i, n + 1), i),
                                Do("symlink", i, q)>>
        PROVE  /\ c = Do("unlink", NoPath, i)
               /\ rest = <<Do("symlink", Final(i, n + 1), i), Do("symlink", i, q)>>
    BY <2>5, Rest
  <2>6. ASSUME NEW n \in 1 .. MaxCount - 1,
               handler.todo = <<Do("symlink", Final(i, n + 1), i), Do("symlink", i, q)>>
        PROVE  c = Do("symlink", Final(i, n + 1), i) /\ rest = <<Do("symlink", i, q)>>
    BY <2>6, Rest
  <2>7. ASSUME handler.todo = <<Do("symlink", i, q)>>
        PROVE  c = Do("symlink", i, q) /\ rest = <<>> /\ Len(handler.todo) = 1
    BY <2>7, Rest
  <2> QED
    BY <1>1, <2>1, <2>2, <2>3, <2>4, <2>5, <2>6, <2>7 DEF Linking, NextCall
<1>2. CASE Lowering(i)
  <2>1. ASSUME NEW n \in 1 .. MaxCount - 1, handler.todo = Recounted(i, Final(i, n + 1), Final(i, n))
        PROVE  /\ c = Do("rename", Final(i, n + 1), Final(i, n))
               /\ rest = <<Do("unlink", NoPath, i), Do("symlink", Final(i, n), i)>>
    BY <2>1, Rest DEF Recounted
  <2>2. ASSUME NEW n \in 1 .. MaxCount - 1,
               handler.todo = <<Do("unlink", NoPath, i), Do("symlink", Final(i, n), i)>>
        PROVE  c = Do("unlink", NoPath, i) /\ rest = <<Do("symlink", Final(i, n), i)>>
    BY <2>2, Rest
  <2>3. ASSUME NEW n \in 1 .. MaxCount - 1, handler.todo = <<Do("symlink", Final(i, n), i)>>
        PROVE  c = Do("symlink", Final(i, n), i) /\ rest = <<>>
    BY <2>3, Rest
  <2>4. ASSUME handler.todo = <<Do("unlink", NoPath, i), Do("unlink", NoPath, Final(i, 1))>>
        PROVE  c = Do("unlink", NoPath, i) /\ rest = <<Do("unlink", NoPath, Final(i, 1))>>
    BY <2>4, Rest
  <2>5. ASSUME handler.todo = <<Do("unlink", NoPath, Final(i, 1))>>
        PROVE  c = Do("unlink", NoPath, Final(i, 1)) /\ rest = <<>>
    BY <2>5, Rest
  <2> QED
    BY <1>2, <2>1, <2>2, <2>3, <2>4, <2>5 DEF Lowering, NextCall
<1> QED
  BY <1>1, <1>2 DEF Working

\* The files of i and its names are what they were.
LEMMA FilesStay ==
  ASSUME NEW i \in Inters, \A m \in 1 .. MaxCount : data'[Final(i, m)] = data[Final(i, m)], SameKept(i)
  PROVE  /\ \A n : Stored(i, n) => Stored(i, n)'
         /\ \A n, m : m \in 1 .. MaxCount /\ Shown(i, n, m) => Shown(i, n, m)'
<1>1. \A n : Stored(i, n) => Stored(i, n)'
  BY DEF Stored
<1>2. ASSUME NEW n, NEW m \in 1 .. MaxCount, Shown(i, n, m) PROVE Shown(i, n, m)'
  BY <1>2 DEF SameKept, Shown
<1> QED
  BY <1>1, <1>2

\* The names are linked as they were, to show what they should have shown.
LEMMA NamesLeft ==
  ASSUME LinkInv, call' = call, meant' = meant, \A a \in Names : link'[Name(a)] = link[Name(a)]
  PROVE  \A i \in Inters \ broken : LoweredOK(i)' /\ Kept(i)' = Kept(i) /\ SameKept(i)
<1>1. CallsOK /\ \A i \in Inters \ broken : LoweredOK(i)
  BY DEF LinkInv, PathOK
<1> SUFFICES ASSUME NEW i \in Inters \ broken
             PROVE  LoweredOK(i)' /\ Kept(i)' = Kept(i) /\ SameKept(i)
  OBVIOUS
<1>2. ASSUME NEW u \in Tracees, call[u].dec = i PROVE \E a \in Names : call[u].to = Name(a)
  <2>1. call[u] # NoCall
    BY <1>2, PathFacts DEF NoCall
  <2> QED
    BY <1>1, <2>1 DEF CallsOK
<1>3. LoweredOK(i)'
  BY <1>1, <1>2 DEF LoweredOK
<1>4. Kept(i)' = Kept(i)
  BY DEF Kept, NamesOf, Takes
<1> QED
  BY <1>3, <1>4 DEF SameKept

\* An intermediate or final path is removed.
LEMMA UnlinkStep ==
  ASSUME LinkInv, Step, NEW c, c = Head(handler.todo), NEW i \in Inters, NEW n \in 1 .. MaxCount,
         NEW x \in {i, Final(i, n)}, c = Do("unlink", NoPath, x),
         i = handler.path \/ {i, handler.path} \subseteq broken
  PROVE  LinkInv'
<1>1. /\ LinkTypeOK /\ PlacesOK /\ LinksOK /\ MeantOK /\ HandlerOK /\ CallsOK
      /\ \A k \in Inters \ broken : PathOK(k)
  BY DEF LinkInv
<1> DEFINE h == handler.path
<1>2. /\ handler # NoHandler /\ h \in Inters /\ handler.todo # <<>>
      /\ c = handler.todo[1] /\ HostCall(c) /\ ~ Shares(c)
      /\ handler'.todo = Tail(handler.todo) /\ handler'.path = h
      /\ handler'.shows = handler.shows
      /\ Current' = Current /\ call' = call /\ mixed' \subseteq Inters
      /\ handler'.tracee \in Tracees \cup {NoTracee} /\ handler'.todo \in Seq(HostCalls)
      /\ CallsOK'
      /\ (/\ broken \subseteq broken'
          /\ \/ handler'.shows = NoFile \/ Current.op # "link"
             \/ home'[handler'.shows] \in {h} \cup broken') => HandlerOK'
      /\ \/ handler.shows = NoFile \/ Current.op # "link"
         \/ home[handler.shows] \in {h} \cup broken
  <2>1. ~ Shares(c) /\ ~ \E a \in Names : c = Do("rename", Name(a), Final(h, 2))
    <3>1. c.do = "unlink" /\ \A a \in Names : Do("rename", Name(a), Final(h, 2)).do = "rename"
      BY DoFacts
    <3> QED
      BY <3>1 DEF Shares
  <2> QED
    BY <2>1, StepFacts
<1>3. x \in Paths /\ \A a \in Names : Name(a) \in Paths /\ x # Name(a)
  BY PathFacts
<1>4. /\ data' = [data EXCEPT ![x] = NoFile] /\ link' = [link EXCEPT ![x] = NoPath]
      /\ home' = home /\ broken' = broken /\ meant' = meant
  <2>1. c.do = "unlink" /\ c.to = x
    BY DEF Do
  <2>2. data' = [data EXCEPT ![x] = NoFile] /\ link' = [link EXCEPT ![x] = NoPath]
    BY <1>2, <2>1 DEF HostCall, Unlink
  <2>3. ~ NewName(c)
    <3>1. Current.op = "link" => \E a \in Names : Current.to = Name(a)
      BY <1>1, <1>2 DEF HandlerOK, CallsOK, Current
    <3> QED
      BY <1>3, <2>1, <3>1 DEF NewName
  <2> QED
    BY <1>2, <2>1, <2>2, <2>3 DEF Step
<1>5. /\ \A p \in Paths : p # x => data'[p] = data[p] /\ link'[p] = link[p]
      /\ data'[x] = NoFile /\ link'[x] = NoPath
      /\ data' \in [Paths -> Files \cup {NoFile}] /\ link' \in [Paths -> Paths \cup {NoPath}]
  BY <1>1, <1>3, <1>4 DEF LinkTypeOK
<1>6. LinkTypeOK'
  BY <1>1, <1>2, <1>4, <1>5 DEF LinkTypeOK
<1>7. PlacesOK'
  BY <1>1, <1>3, <1>4, <1>5, PathFacts DEF PlacesOK
<1>8. LinksOK'
  BY <1>1, <1>3, <1>4, <1>5, PathFacts DEF LinksOK
<1>9. MeantOK'
  <2>1. handler.todo[1].do # "symlink"
    BY <1>2 DEF Do
  <2> QED
    BY <1>1, <1>3, <1>4, <1>5, <2>1 DEF MeantOK
<1>10. HandlerOK'
  BY <1>2, <1>4
<1>11. \A k \in Inters \ broken : LoweredOK(k)' /\ Kept(k)' = Kept(k) /\ SameKept(k)
  BY <1>2, <1>3, <1>4, <1>5, NamesLeft
<1>12. ASSUME NEW k \in Inters \ broken, k # h PROVE PathOK(k)'
  <2>1. k # i
    BY <1>12
  <2>2. SameStore(k)
    BY <1>5, <2>1, PathFacts DEF SameStore
  <2> QED
    BY <1>1, <1>2, <1>11, <1>12, <2>2, PathTransfers
<1>13. ASSUME h \in Inters \ broken PROVE PathOK(h)'
  <2>1. i = h
    BY <1>13
  <2>2. LoweredOK(i)' /\ Kept(i)' = Kept(i) /\ SameKept(i) /\ Working(i)
    BY <1>1, <1>11, <1>13, <2>1 DEF PathOK
  <2>3. \A m \in 1 .. MaxCount - 1 : m \in 1 .. MaxCount /\ m + 1 \in 1 .. MaxCount
    BY LinkAssumption
  <2>4. 1 \in 1 .. MaxCount
    BY LinkAssumption
  <2>5. NextCall(i, Current.from, Current.to, c, handler'.todo)
    BY <1>2, <2>2, Phases
  <2>6. CASE x = i
    <3>1. /\ \A m \in 1 .. MaxCount : data'[Final(i, m)] = data[Final(i, m)]
          /\ link'[i] = NoPath
      BY <1>5, <2>6, PathFacts
    <3>2. /\ \A m : Stored(i, m) => Stored(i, m)'
          /\ \A m, l : l \in 1 .. MaxCount /\ Shown(i, m, l) => Shown(i, m, l)'
      BY <2>2, <3>1, FilesStay
    <3>3. \/ /\ Current.op = "link"
             /\ \E m \in 1 .. MaxCount - 1 :
                  /\ handler'.todo = <<Do("symlink", Final(i, m + 1), i), Do("symlink", i, Current.to)>>
                  /\ Stored(i, m + 1) /\ Shown(i, m, m + 1)
                  /\ handler.shows = data[Final(i, m + 1)]
          \/ \E m \in 1 .. MaxCount - 1 :
               /\ handler'.todo = <<Do("symlink", Final(i, m), i)>>
               /\ Stored(i, m) /\ Shown(i, m, m)
          \/ /\ handler'.todo = <<Do("unlink", NoPath, Final(i, 1))>>
             /\ Stored(i, 1) /\ Kept(i) = {}
      <4>1. c.do = "unlink" /\ c.to = i /\ i # Final(i, 1)
        BY <2>4, <2>6, PathFacts DEF Do
      <4> QED
        BY <1>2, <2>5, <4>1, DoFacts DEF NextCall
    <3>4. CASE /\ Current.op = "link"
               /\ \E m \in 1 .. MaxCount - 1 :
                    /\ handler'.todo = <<Do("symlink", Final(i, m + 1), i),
                       Do("symlink", i, Current.to)>>
                    /\ Stored(i, m + 1) /\ Shown(i, m, m + 1)
                    /\ handler.shows = data[Final(i, m + 1)]
      <4>1. Linking(i, Current.from, Current.to)'
        BY <1>2, <2>3, <3>1, <3>2, <3>4 DEF Linking
      <4> QED
        BY <1>2, <2>1, <2>2, <3>4, <4>1 DEF PathOK, Working
    <3>5. CASE \E m \in 1 .. MaxCount - 1 :
                 /\ handler'.todo = <<Do("symlink", Final(i, m), i)>>
                 /\ Stored(i, m) /\ Shown(i, m, m)
      <4>1. Lowering(i)'
        BY <2>3, <3>1, <3>2, <3>5 DEF Lowering
      <4> QED
        BY <1>2, <2>1, <2>2, <4>1 DEF PathOK, Working
    <3>6. CASE /\ handler'.todo = <<Do("unlink", NoPath, Final(i, 1))>>
               /\ Stored(i, 1) /\ Kept(i) = {}
      <4>1. Lowering(i)'
        BY <2>2, <3>1, <3>2, <3>6 DEF Lowering
      <4> QED
        BY <1>2, <2>1, <2>2, <4>1 DEF PathOK, Working
    <3> QED
      BY <3>3, <3>4, <3>5, <3>6
  <2>7. CASE x # i
    <3>1. /\ handler'.todo = <<>> /\ x = Final(i, 1)
          /\ link[i] = NoPath /\ Stored(i, 1) /\ Kept(i) = {}
      <4>1. c.do = "unlink" /\ c.to # i /\ c.to = x
        BY <2>7 DEF Do
      <4> QED
        BY <1>2, <2>5, <4>1, DoFacts DEF NextCall
    <3>2. Unlinked(i)'
      <4>1. link'[i] = NoPath
        BY <1>5, <2>7, <3>1, PathFacts
      <4>2. Bare(i)'
        BY <1>5, <2>4, <3>1, PathFacts DEF Bare, Stored
      <4> QED
        BY <2>2, <3>1, <4>1, <4>2 DEF Unlinked
    <3> QED
      BY <1>2, <2>1, <2>2, <3>1, <3>2 DEF PathOK, Working, Sound
  <2> QED
    BY <2>6, <2>7
<1> QED
  BY <1>2, <1>4, <1>6, <1>7, <1>8, <1>9, <1>10, <1>12, <1>13 DEF LinkInv

\* The file of a path is given the final path for another number of names.
LEMMA RecountStep ==
  ASSUME LinkInv, Step, NEW c, c = Head(handler.todo), NEW i \in Inters,
         NEW m \in 1 .. MaxCount, NEW n \in 1 .. MaxCount,
         NEW x, x = Final(i, m), NEW y, y = Final(i, n), c = Do("rename", x, y),
         i = handler.path \/ {i, handler.path} \subseteq broken
  PROVE  LinkInv'
<1>1. /\ LinkTypeOK /\ PlacesOK /\ LinksOK /\ MeantOK /\ HandlerOK /\ CallsOK
      /\ \A k \in Inters \ broken : PathOK(k)
  BY DEF LinkInv
<1> DEFINE h == handler.path
<1>2. c.do = "rename" /\ c.from = x /\ c.to = y
  BY DoFacts
<1>3. /\ x \in Paths /\ y \in Paths
      /\ \A a \in Names : Name(a) \in Paths /\ x # Name(a) /\ y # Name(a)
      /\ \A k \in Inters : k \in Paths /\ x # k /\ y # k
  BY PathFacts
<1>4. /\ handler # NoHandler /\ h \in Inters /\ handler.todo # <<>>
      /\ c = handler.todo[1] /\ HostCall(c) /\ ~ Shares(c)
      /\ handler'.todo = Tail(handler.todo) /\ handler'.path = h
      /\ handler'.shows = handler.shows
      /\ Current' = Current /\ call' = call /\ mixed' \subseteq Inters
      /\ handler'.tracee \in Tracees \cup {NoTracee} /\ handler'.todo \in Seq(HostCalls)
      /\ CallsOK'
      /\ (/\ broken \subseteq broken'
          /\ \/ handler'.shows = NoFile \/ Current.op # "link"
             \/ home'[handler'.shows] \in {h} \cup broken') => HandlerOK'
      /\ \/ handler.shows = NoFile \/ Current.op # "link"
         \/ home[handler.shows] \in {h} \cup broken
  <2>1. ~ Shares(c) /\ ~ \E a \in Names : c = Do("rename", Name(a), Final(h, 2))
    <3>1. \A a \in Names : Do("rename", Name(a), Final(h, 2)).from = Name(a)
      BY DoFacts
    <3> QED
      BY <1>2, <1>3, <3>1 DEF Shares
  <2> QED
    BY <2>1, StepFacts
<1>5. /\ Exists(x)
      /\ data' = Moved(data, NoFile, x, y) /\ link' = Moved(link, NoPath, x, y)
      /\ home' = home /\ meant' = meant
      /\ broken' = (IF link[x] # NoPath THEN broken \cup {h, link[x]} ELSE broken)
  <2>1. Rename(x, y)
    BY <1>2, <1>4 DEF HostCall
  <2>2. ~ NewName(c)
    <3>1. Current.op = "link" => \E a \in Names : Current.to = Name(a)
      BY <1>1, <1>4 DEF HandlerOK, CallsOK, Current
    <3> QED
      BY <1>2, <1>3, <3>1 DEF NewName
  <2> QED
    BY <1>2, <1>4, <2>1, <2>2 DEF Step, Rename
<1>6. broken' = broken
  BY <1>1, <1>5 DEF LinksOK
<1>7. /\ \A p \in Paths : p # x /\ p # y => data'[p] = data[p] /\ link'[p] = link[p]
      /\ data'[y] = data[x] /\ link'[y] = link[x]
      /\ x # y => data'[x] = NoFile /\ link'[x] = NoPath
      /\ data' \in [Paths -> Files \cup {NoFile}] /\ link' \in [Paths -> Paths \cup {NoPath}]
  <2>1. data \in [Paths -> Files \cup {NoFile}] /\ link \in [Paths -> Paths \cup {NoPath}]
    BY <1>1 DEF LinkTypeOK
  <2>2. CASE x = y
    BY <1>3, <1>5, <2>1, <2>2 DEF Moved
  <2>3. CASE x # y
    BY <1>3, <1>5, <2>1, <2>3 DEF Moved
  <2> QED
    BY <2>2, <2>3
<1>8. LinkTypeOK'
  BY <1>1, <1>4, <1>5, <1>6, <1>7 DEF LinkTypeOK
<1>9. /\ \A a \in Names : data'[Name(a)] = data[Name(a)] /\ link'[Name(a)] = link[Name(a)]
      /\ \A k \in Inters : data'[k] = data[k] /\ link'[k] = link[k]
      /\ \A k \in Inters, l \in 1 .. MaxCount : k # i =>
           data'[Final(k, l)] = data[Final(k, l)] /\ link'[Final(k, l)] = link[Final(k, l)]
  BY <1>3, <1>7, PathFacts
<1>10. \A l \in 1 .. MaxCount :
         /\ \/ data'[Final(i, l)] = NoFile \/ data'[Final(i, l)] = data[Final(i, l)]
            \/ data'[Final(i, l)] = data[x]
         /\ \/ link'[Final(i, l)] = NoPath \/ link'[Final(i, l)] = link[Final(i, l)]
            \/ link'[Final(i, l)] = link[x]
  BY <1>7, PathFacts
<1>11. PlacesOK'
  BY <1>1, <1>5, <1>9, <1>10 DEF PlacesOK
<1>12. LinksOK'
  BY <1>1, <1>6, <1>9, <1>10 DEF LinksOK
<1>13. MeantOK'
  <2>1. handler.todo[1].do # "symlink"
    BY <1>2, <1>4
  <2> QED
    BY <1>1, <1>5, <1>6, <1>9, <2>1 DEF MeantOK
<1>14. HandlerOK'
  BY <1>4, <1>5, <1>6
<1>15. \A k \in Inters \ broken : LoweredOK(k)' /\ Kept(k)' = Kept(k) /\ SameKept(k)
  BY <1>4, <1>5, <1>9, NamesLeft
<1>16. ASSUME NEW k \in Inters \ broken, k # h PROVE PathOK(k)'
  <2>1. k # i
    BY <1>16
  <2>2. SameStore(k)
    BY <1>9, <2>1 DEF SameStore
  <2> QED
    BY <1>1, <1>4, <1>15, <1>16, <2>2, PathTransfers
<1>17. ASSUME h \in Inters \ broken PROVE PathOK(h)'
  <2>1. i = h
    BY <1>17
  <2>2. LoweredOK(i)' /\ Kept(i)' = Kept(i) /\ Working(i)
    BY <1>1, <1>15, <1>17, <2>1 DEF PathOK
  <2>3. NextCall(i, Current.from, Current.to, c, handler'.todo)
    BY <1>4, <2>2, Phases
  <2>4. \A k \in 1 .. MaxCount - 1 : k \in 1 .. MaxCount /\ k + 1 \in 1 .. MaxCount /\ k # k + 1
    BY LinkAssumption
  <2>5. ASSUME NEW a \in Names, c = Do("rename", Name(a), Final(i, 2)) PROVE FALSE
    BY <1>2, <1>3, <2>5, DoFacts
  <2>6. \A p : Current.op = "link" /\ p = Current.from => \E a \in Names : p = Name(a)
    BY <1>1, <1>4 DEF HandlerOK, CallsOK, Current
  <2>7. \/ /\ Current.op = "link"
           /\ \E k \in 1 .. MaxCount - 1 :
                /\ x = Final(i, k) /\ y = Final(i, k + 1) /\ Linked(i, k)
                /\ handler'.todo = <<Do("unlink", NoPath, i), Do("symlink", Final(i, k + 1), i),
                                     Do("symlink", i, Current.to)>>
                /\ handler.shows = data[Final(i, k)]
        \/ \E k \in 1 .. MaxCount - 1 :
             /\ x = Final(i, k + 1) /\ y = Final(i, k)
             /\ handler'.todo = <<Do("unlink", NoPath, i), Do("symlink", Final(i, k), i)>>
             /\ link[i] = Final(i, k + 1) /\ Stored(i, k + 1) /\ Shown(i, k, k + 1)
    BY <1>2, <2>3, <2>5, <2>6, DoFacts DEF NextCall
  <2>8. ASSUME NEW k \in 1 .. MaxCount, NEW l \in 1 .. MaxCount, k # l, NEW j,
               x = Final(i, k), y = Final(i, l), Stored(i, k), Shown(i, j, k)
        PROVE  Stored(i, l)' /\ Shown(i, j, l)' /\ data'[y] = data[x]
    <3>1. \A o \in 1 .. MaxCount : o # l => data'[Final(i, o)] = NoFile
      <4>1. ASSUME NEW o \in 1 .. MaxCount, o # l PROVE data'[Final(i, o)] = NoFile
        <5>1. CASE o = k
          BY <1>7, <2>8, <5>1, SameFinal
        <5>2. CASE o # k
          <6>1. Final(i, o) # x /\ Final(i, o) # y /\ Final(i, o) \in Paths
            BY <2>8, <4>1, <5>2, PathFacts
          <6> QED
            BY <1>7, <2>8, <5>2, <6>1 DEF Stored
        <5> QED
          BY <5>1, <5>2
      <4> QED
        BY <4>1
    <3>2. data'[Final(i, l)] = data[Final(i, k)]
      BY <1>7, <2>8
    <3>3. Stored(i, l)'
      BY <2>8, <3>1, <3>2 DEF Stored
    <3>4. Shown(i, j, l)'
      BY <1>5, <2>2, <2>8, <3>2 DEF Shown
    <3> QED
      BY <1>7, <3>3, <3>4
  <2>9. ASSUME NEW k \in 1 .. MaxCount - 1, Current.op = "link",
               x = Final(i, k), y = Final(i, k + 1), Linked(i, k),
               handler'.todo = <<Do("unlink", NoPath, i), Do("symlink", Final(i, k + 1), i),
                                 Do("symlink", i, Current.to)>>,
               handler.shows = data[Final(i, k)]
        PROVE  PathOK(h)'
    <3>1. Stored(i, k + 1)' /\ Shown(i, k, k + 1)' /\ data'[y] = data[x] /\ link'[i] = Final(i, k)
      BY <1>9, <2>4, <2>8, <2>9 DEF Linked
    <3>2. Linking(i, Current.from, Current.to)'
      BY <1>4, <2>9, <3>1 DEF Linking
    <3> QED
      BY <1>4, <2>1, <2>2, <2>9, <3>2 DEF PathOK, Working
  <2>10. ASSUME NEW k \in 1 .. MaxCount - 1, x = Final(i, k + 1), y = Final(i, k),
                handler'.todo = <<Do("unlink", NoPath, i), Do("symlink", Final(i, k), i)>>,
                link[i] = Final(i, k + 1), Stored(i, k + 1), Shown(i, k, k + 1)
         PROVE  PathOK(h)'
    <3>1. Stored(i, k)' /\ Shown(i, k, k)' /\ link'[i] = Final(i, k + 1)
      BY <1>9, <2>4, <2>8, <2>10
    <3>2. Lowering(i)'
      BY <2>10, <3>1 DEF Lowering
    <3> QED
      BY <1>4, <2>1, <2>2, <3>2 DEF PathOK, Working
  <2> QED
    BY <2>7, <2>9, <2>10
<1> QED
  BY <1>4, <1>6, <1>8, <1>11, <1>12, <1>13, <1>14, <1>16, <1>17 DEF LinkInv

\* The file of a name is given its first final path.
LEMMA ShareStep ==
  ASSUME LinkInv, Step, NEW c, c = Head(handler.todo), NEW a \in Names, NEW n \in 1 .. MaxCount,
         NEW h, h = handler.path, NEW x, x = Name(a), NEW y, y = Final(h, n),
         c = Do("rename", x, y), Current.op = "link"
  PROVE  LinkInv'
<1>1. /\ LinkTypeOK /\ PlacesOK /\ LinksOK /\ MeantOK /\ HandlerOK /\ CallsOK
      /\ \A k \in Inters \ broken : PathOK(k)
  BY DEF LinkInv
<1>2. c.do = "rename" /\ c.from = x /\ c.to = y /\ Shares(c)
  BY DoFacts DEF Shares
<1>3. /\ handler # NoHandler /\ h \in Inters /\ handler.todo # <<>>
      /\ c = handler.todo[1] /\ HostCall(c)
      /\ handler'.todo = Tail(handler.todo) /\ handler'.path = h
      /\ handler'.shows = Content(x)
      /\ Current' = Current /\ call' = call /\ mixed' \subseteq Inters
      /\ handler'.tracee \in Tracees \cup {NoTracee} /\ handler'.todo \in Seq(HostCalls)
      /\ CallsOK'
      /\ (/\ broken \subseteq broken'
          /\ \/ handler'.shows = NoFile \/ Current.op # "link"
             \/ home'[handler'.shows] \in {h} \cup broken') => HandlerOK'
  BY <1>2, StepFacts
<1>4. /\ x \in Paths /\ y \in Paths /\ x # y
      /\ \A b \in Names : Name(b) \in Paths /\ y # Name(b) /\ (Name(b) = x <=> b = a)
      /\ \A k \in Inters : k \in Paths /\ x # k /\ y # k
      /\ \A k \in Inters, l \in 1 .. MaxCount :
           /\ Final(k, l) \in Paths /\ x # Final(k, l)
           /\ Final(k, l) = y <=> k = h /\ l = n
  BY <1>3, PathFacts
<1>5. /\ Exists(x)
      /\ data' = Moved(data, NoFile, x, y) /\ link' = Moved(link, NoPath, x, y)
      /\ home' = (IF data[x] # NoFile THEN [home EXCEPT ![data[x]] = h] ELSE home)
      /\ meant' = meant
      /\ broken' = (IF link[x] # NoPath THEN broken \cup {h, link[x]} ELSE broken)
  <2>1. Rename(x, y)
    BY <1>2, <1>3 DEF HostCall
  <2>2. ~ NewName(c)
    <3>1. \E b \in Names : Current.to = Name(b)
      BY <1>1, <1>3 DEF HandlerOK, CallsOK, Current
    <3> QED
      BY <1>2, <1>4, <3>1 DEF NewName
  <2> QED
    BY <1>2, <1>3, <2>1, <2>2 DEF Step, Rename
<1>6. /\ \A p \in Paths : p # x /\ p # y => data'[p] = data[p] /\ link'[p] = link[p]
      /\ data'[y] = data[x] /\ link'[y] = link[x]
      /\ data'[x] = NoFile /\ link'[x] = NoPath
      /\ data' \in [Paths -> Files \cup {NoFile}] /\ link' \in [Paths -> Paths \cup {NoPath}]
  <2>1. data \in [Paths -> Files \cup {NoFile}] /\ link \in [Paths -> Paths \cup {NoPath}]
    BY <1>1 DEF LinkTypeOK
  <2> QED
    BY <1>4, <1>5, <2>1 DEF Moved
<1>7. /\ \A f \in Files : data[x] # NoFile /\ f = data[x] => home'[f] = h
      /\ \A f \in Files : f # data[x] => home'[f] = home[f]
      /\ data[x] = NoFile => home' = home
      /\ home' \in [Files -> Inters \cup {NoPath}]
  BY <1>1, <1>3, <1>5 DEF LinkTypeOK
<1>8. /\ broken \subseteq broken' /\ broken' \subseteq Inters
      /\ link[x] # NoPath => {h, link[x]} \subseteq broken'
      /\ link[x] \in Inters \cup {NoPath}
      /\ data[x] # NoFile => link[x] = NoPath /\ meant[a] = data[x] /\ home[data[x]] = NoPath
      /\ data[x] # NoFile \/ link[x] # NoPath
  BY <1>1, <1>3, <1>5 DEF LinkTypeOK, LinksOK, PlacesOK, Exists
<1>9. \A p \in Paths : data[p] \in Files \cup {NoFile}
  BY <1>1 DEF LinkTypeOK
<1>10. /\ \A b \in Names : b # a => data'[Name(b)] = data[Name(b)] /\ link'[Name(b)] = link[Name(b)]
       /\ \A k \in Inters : data'[k] = data[k] /\ link'[k] = link[k]
       /\ \A k \in Inters, l \in 1 .. MaxCount : ~ (k = h /\ l = n) =>
            data'[Final(k, l)] = data[Final(k, l)] /\ link'[Final(k, l)] = link[Final(k, l)]
  BY <1>4, <1>6
<1>11. Content(x) \in Files \cup {NoFile}
  <2>1. \A p \in Paths : Target(p) \in Paths
    BY <1>1 DEF LinkTypeOK, Target
  <2> QED
    BY <1>4, <1>9, <2>1 DEF Content
<1>12. data[x] # NoFile => Content(x) = data[x]
  BY <1>8 DEF Content, Target
<1>13. LinkTypeOK'
  BY <1>1, <1>3, <1>5, <1>6, <1>7, <1>8, <1>11 DEF LinkTypeOK
<1>14. PlacesOK'
  <2>1. ASSUME NEW b \in Names, data'[Name(b)] # NoFile
        PROVE  /\ meant'[b] = data'[Name(b)] /\ home'[data'[Name(b)]] = NoPath
               /\ link'[Name(b)] = NoPath
               /\ \A d \in Names : data'[Name(d)] = data'[Name(b)] => d = b
    <3>1. b # a
      BY <1>6, <2>1
    <3>2. data'[Name(b)] = data[Name(b)] /\ link'[Name(b)] = link[Name(b)]
      BY <1>10, <3>1
    <3>3. data[Name(b)] # data[x] /\ data[Name(b)] \in Files
      BY <1>1, <1>4, <1>9, <2>1, <3>1, <3>2 DEF PlacesOK
    <3>4. home'[data'[Name(b)]] = NoPath
      BY <1>1, <1>7, <2>1, <3>2, <3>3 DEF PlacesOK
    <3>5. \A d \in Names : data'[Name(d)] = data'[Name(b)] => d = b
      BY <1>1, <1>6, <1>10, <2>1, <3>2 DEF PlacesOK
    <3> QED
      BY <1>1, <1>5, <2>1, <3>2, <3>4, <3>5 DEF PlacesOK
  <2>2. ASSUME NEW k \in Inters, NEW l \in 1 .. MaxCount, data'[Final(k, l)] # NoFile
        PROVE  home'[data'[Final(k, l)]] = k
    <3>1. CASE k = h /\ l = n
      <4>1. data'[Final(k, l)] = data[x]
        BY <1>6, <3>1
      <4> QED
        BY <1>4, <1>7, <1>9, <2>2, <3>1, <4>1
    <3>2. CASE ~ (k = h /\ l = n)
      <4>1. data'[Final(k, l)] = data[Final(k, l)]
        BY <1>10, <3>2
      <4>2. home[data[Final(k, l)]] = k /\ k # NoPath
        BY <1>1, <2>2, <4>1, PathFacts DEF PlacesOK
      <4>3. data[Final(k, l)] # data[x]
        BY <1>8, <2>2, <4>1, <4>2
      <4> QED
        BY <1>4, <1>7, <1>9, <2>2, <4>1, <4>2, <4>3
    <3> QED
      BY <3>1, <3>2
  <2>3. \A k \in Inters : data'[k] = NoFile
    BY <1>1, <1>10 DEF PlacesOK
  <2> QED
    BY <2>1, <2>2, <2>3 DEF PlacesOK
<1>15. LinksOK'
  <2>1. \A b \in Names : link'[Name(b)] \in Inters \cup {NoPath}
    BY <1>1, <1>6, <1>10 DEF LinksOK
  <2>2. \A k \in Inters : link'[k] = NoPath \/ \E l \in 1 .. MaxCount : link'[k] = Final(k, l)
    BY <1>1, <1>10 DEF LinksOK
  <2>3. ASSUME NEW k \in Inters, NEW l \in 1 .. MaxCount, link'[Final(k, l)] # NoPath
        PROVE  k \in broken' /\ link'[Final(k, l)] \in Inters \cap broken'
    <3>1. CASE k = h /\ l = n
      BY <1>6, <1>8, <2>3, <3>1
    <3>2. CASE ~ (k = h /\ l = n)
      BY <1>1, <1>8, <1>10, <2>3, <3>2 DEF LinksOK
    <3> QED
      BY <3>1, <3>2
  <2> QED
    BY <2>1, <2>2, <2>3 DEF LinksOK
<1>16. ASSUME h \notin broken'
       PROVE  /\ h \in Inters \ broken /\ LoweredOK(h) /\ n = 2
              /\ Unlinked(h) /\ x = Current.from
              /\ handler'.todo = <<Do("symlink", Final(h, 2), h), Do("symlink", h, x),
                                   Do("symlink", h, Current.to)>>
  <2>1. h \in Inters \ broken
    BY <1>3, <1>8, <1>16
  <2>2. LoweredOK(h) /\ Working(h)
    BY <1>1, <1>3, <2>1 DEF PathOK
  <2>3. NextCall(h, Current.from, Current.to, c, handler'.todo)
    BY <1>3, <2>2, Phases
  <2>4. \A k \in 1 .. MaxCount - 1 : k \in 1 .. MaxCount /\ k + 1 \in 1 .. MaxCount
    BY LinkAssumption
  <2>5. \A k, l \in 1 .. MaxCount : c # Do("rename", Final(h, k), Final(h, l))
    BY <1>2, <1>3, <1>4, DoFacts
  <2>6. /\ c = Do("rename", Current.from, Final(h, 2)) /\ Unlinked(h)
        /\ handler'.todo = <<Do("symlink", Final(h, 2), h), Do("symlink", h, Current.from),
                             Do("symlink", h, Current.to)>>
    BY <1>2, <2>3, <2>4, <2>5, DoFacts DEF NextCall
  <2>7. x = Current.from /\ Final(h, 2) = y
    BY <1>2, <2>6, DoFacts
  <2>8. 2 \in 1 .. MaxCount
    BY LinkAssumption
  <2> QED
    BY <1>4, <2>1, <2>2, <2>6, <2>7, <2>8
<1>17. MeantOK'
  <2>1. handler.todo[1].do # "symlink"
    BY <1>2, <1>3
  <2>2. ASSUME NEW b \in Names, meant[b] # NoFile
        PROVE  meant[b] \in Files /\ (meant[b] = data[x] => home[meant[b]] \notin broken)
    <3>1. NoPath \notin broken
      BY <1>1, PathFacts DEF LinkTypeOK
    <3> QED
      BY <1>1, <1>8, <2>2, <3>1 DEF LinkTypeOK
  <2>3. ASSUME NEW b \in Names, b # a, meant[b] # NoFile
        PROVE  /\ link'[Name(b)] # NoPath => home'[meant[b]] \in {link'[Name(b)]} \cup broken'
               /\ link'[Name(b)] = NoPath /\ data'[Name(b)] = NoFile => home'[meant[b]] \in broken'
    <3>1. link'[Name(b)] = link[Name(b)] /\ data'[Name(b)] = data[Name(b)]
      BY <1>10, <2>3
    <3>2. CASE link[Name(b)] # NoPath
      <4>1. home[meant[b]] \in {link[Name(b)]} \cup broken
        BY <1>1, <2>3, <3>2 DEF MeantOK
      <4>2. NoPath \notin broken
        BY <1>1, PathFacts DEF LinkTypeOK
      <4>3. meant[b] # data[x]
        BY <1>8, <2>3, <3>2, <4>1, <4>2
      <4> QED
        BY <1>7, <1>8, <2>2, <2>3, <3>1, <3>2, <4>1, <4>3
    <3>3. CASE link[Name(b)] = NoPath /\ data[Name(b)] = NoFile
      <4>1. home[meant[b]] \in broken
        BY <1>1, <2>1, <2>3, <3>3 DEF MeantOK
      <4> QED
        BY <1>7, <1>8, <2>2, <2>3, <3>1, <3>3, <4>1
    <3> QED
      BY <3>1, <3>2, <3>3
  <2>4. ASSUME meant[a] # NoFile
        PROVE  \/ home'[meant[a]] \in broken'
               \/ MovedAway(a)' /\ handler'.todo[1].do = "symlink" /\ home'[meant[a]] = h
    <3>1. CASE link[x] # NoPath
      <4>1. home[meant[a]] \in {link[x]} \cup broken /\ data[x] = NoFile
        BY <1>1, <1>8, <2>4, <3>1 DEF MeantOK
      <4> QED
        BY <1>7, <1>8, <3>1, <4>1
    <3>2. CASE link[x] = NoPath
      <4>1. meant[a] = data[x] /\ data[x] # NoFile /\ home'[meant[a]] = h
        BY <1>4, <1>7, <1>8, <1>9, <3>2
      <4>2. CASE h \notin broken'
        <5>1. handler'.todo = <<Do("symlink", Final(h, 2), h), Do("symlink", h, x),
                                Do("symlink", h, Current.to)>>
          BY <1>16, <4>2
        <5>2. handler'.todo[1].do = "symlink" /\ handler'.todo[2] = Do("symlink", h, x)
              /\ Len(handler'.todo) = 3
          BY <5>1, DoFacts
        <5>3. MovedAway(a)'
          <6>1. 2 \in 1 .. Len(handler'.todo) - 1
            BY <5>2
          <6>2. handler'.todo[2] = Do("symlink", handler'.path, Name(a))
            BY <1>3, <5>2
          <6> QED
            BY <6>1, <6>2 DEF MovedAway
        <5> QED
          BY <4>1, <5>2, <5>3
      <4> QED
        BY <4>1, <4>2
    <3> QED
      BY <3>1, <3>2
  <2>5. link'[Name(a)] = NoPath /\ Name(a) = x
    BY <1>6
  <2> QED
    BY <1>3, <1>5, <2>3, <2>4, <2>5 DEF MeantOK
<1>18. HandlerOK'
  <2>1. CASE data[x] # NoFile
    <3>1. home'[Content(x)] = h
      BY <1>4, <1>7, <1>9, <1>12, <2>1
    <3> QED
      BY <1>3, <1>8, <3>1
  <2>2. CASE data[x] = NoFile
    <3>1. link[x] # NoPath
      BY <1>8, <2>2
    <3>2. Content(x) = NoFile \/ home[Content(x)] \in {link[x]} \cup broken
      BY <1>1, <3>1, ContentHome
    <3> QED
      BY <1>3, <1>7, <1>8, <2>2, <3>1, <3>2
  <2> QED
    BY <2>1, <2>2
<1>19. ASSUME NEW k \in Inters \ broken'
       PROVE  k \in Inters \ broken /\ LoweredOK(k)' /\ Kept(k)' = Kept(k) /\ SameKept(k)
  <2>1. k \in Inters \ broken /\ LoweredOK(k) /\ k # NoPath
    BY <1>1, <1>8, <1>19, PathFacts DEF PathOK
  <2>2. link[x] # k
    BY <1>8, <1>19, <2>1
  <2>3. ASSUME NEW u \in Tracees, call[u].dec = k
        PROVE  \E b \in Names : b # a /\ call[u].to = Name(b)
    <3>1. call[u] # NoCall
      BY <2>1, <2>3 DEF NoCall
    <3>2. PICK b \in Names : call[u].to = Name(b)
      BY <1>1, <3>1 DEF CallsOK
    <3> QED
      BY <2>1, <2>2, <2>3, <3>2 DEF LoweredOK
  <2>4. LoweredOK(k)'
    BY <1>3, <1>10, <2>1, <2>3 DEF LoweredOK
  <2>5. Kept(k)' = Kept(k)
    <3>1. NamesOf(k)' = NamesOf(k)
      BY <1>6, <1>10, <2>1, <2>2 DEF NamesOf
    <3> QED
      BY <1>3, <3>1 DEF Kept, Takes
  <2> QED
    BY <1>5, <2>1, <2>4, <2>5 DEF SameKept
<1>20. ASSUME NEW k \in Inters \ broken', k # h PROVE PathOK(k)'
  <2>1. SameStore(k)
    BY <1>10, <1>20 DEF SameStore
  <2> QED
    BY <1>1, <1>3, <1>19, <1>20, <2>1, PathTransfers
<1>21. ASSUME h \notin broken' PROVE PathOK(h)'
  <2>1. /\ n = 2 /\ Unlinked(h) /\ x = Current.from
        /\ handler'.todo = <<Do("symlink", Final(h, 2), h), Do("symlink", h, x),
                             Do("symlink", h, Current.to)>>
    BY <1>16, <1>21
  <2>2. LoweredOK(h)' /\ Kept(h)' = {}
    BY <1>3, <1>19, <1>21, <2>1 DEF Unlinked
  <2>3. data[x] # NoFile /\ link'[h] = NoPath
    BY <1>3, <1>8, <1>10, <1>21, <2>1 DEF Unlinked
  <2>4. data'[Final(h, 2)] = data[x] /\ 2 \in 1 .. MaxCount
    BY <1>6, <2>1
  <2>5. Stored(h, 2)'
    BY <1>3, <1>10, <2>1, <2>3, <2>4 DEF Stored, Unlinked, Bare
  <2>6. Moved1(h, x)'
    <3>1. ~ Exists(x)'
      BY <1>6 DEF Exists
    <3>2. meant'[a] = data'[Final(h, 2)] /\ handler'.shows = data'[Final(h, 2)]
      BY <1>3, <1>5, <1>8, <1>12, <2>3, <2>4
    <3> QED
      BY <2>2, <2>5, <3>1, <3>2 DEF Moved1
  <2>7. Linking(h, Current.from, Current.to)'
    BY <1>3, <2>1, <2>3, <2>6 DEF Linking
  <2> QED
    BY <1>3, <2>2, <2>7 DEF PathOK, Working
<1> QED
  BY <1>3, <1>13, <1>14, <1>15, <1>17, <1>18, <1>20, <1>21 DEF LinkInv

\* An intermediate path is linked to a final path.
LEMMA InterStep ==
  ASSUME LinkInv, Step, NEW c, c = Head(handler.todo), NEW i \in Inters, NEW n \in 1 .. MaxCount,
         NEW y, y = Final(i, n), c = Do("symlink", y, i), NEW h, h = handler.path,
         i = h \/ {i, h} \subseteq broken
  PROVE  LinkInv'
<1>1. /\ LinkTypeOK /\ PlacesOK /\ LinksOK /\ MeantOK /\ HandlerOK /\ CallsOK
      /\ \A k \in Inters \ broken : PathOK(k)
  BY DEF LinkInv
<1>2. c.do = "symlink" /\ c.from = y /\ c.to = i /\ ~ Shares(c)
  BY DoFacts DEF Shares
<1>3. /\ handler # NoHandler /\ h \in Inters /\ handler.todo # <<>>
      /\ c = handler.todo[1] /\ HostCall(c)
      /\ handler'.todo = Tail(handler.todo) /\ handler'.path = h
      /\ handler'.shows = handler.shows
      /\ Current' = Current /\ call' = call /\ mixed' \subseteq Inters
      /\ Len(handler'.todo) = Len(handler.todo) - 1
      /\ \A k \in 1 .. Len(handler'.todo) : handler'.todo[k] = handler.todo[k + 1]
      /\ handler'.tracee \in Tracees \cup {NoTracee} /\ handler'.todo \in Seq(HostCalls)
      /\ CallsOK'
      /\ (/\ broken \subseteq broken'
          /\ \/ handler'.shows = NoFile \/ Current.op # "link"
             \/ home'[handler'.shows] \in {h} \cup broken') => HandlerOK'
      /\ \/ handler.shows = NoFile \/ Current.op # "link"
         \/ home[handler.shows] \in {h} \cup broken
  <2>1. ~ \E a \in Names : c = Do("rename", Name(a), Final(h, 2))
    BY <1>2, DoFacts
  <2> QED
    BY <1>2, <2>1, StepFacts
<1>4. /\ i \in Paths /\ y \in Paths
      /\ \A a \in Names : Name(a) \in Paths /\ i # Name(a)
      /\ \A k \in Inters : k \in Paths
      /\ \A k \in Inters, l \in 1 .. MaxCount : Final(k, l) \in Paths /\ Final(k, l) # i
  BY PathFacts
<1>5. /\ data' = data /\ link' = [link EXCEPT ![i] = y]
      /\ home' = home /\ broken' = broken /\ meant' = meant
  <2>1. Symlink(y, i)
    BY <1>2, <1>3 DEF HostCall
  <2>2. ~ NewName(c)
    <3>1. Current.op = "link" => \E a \in Names : Current.to = Name(a)
      BY <1>1, <1>3 DEF HandlerOK, CallsOK, Current
    <3> QED
      BY <1>2, <1>4, <3>1 DEF NewName
  <2> QED
    BY <1>2, <1>3, <2>1, <2>2 DEF Step, Symlink
<1>6. /\ \A p \in Paths : p # i => link'[p] = link[p]
      /\ link'[i] = y /\ link' \in [Paths -> Paths \cup {NoPath}]
  BY <1>1, <1>4, <1>5 DEF LinkTypeOK
<1>7. LinkTypeOK'
  BY <1>1, <1>3, <1>5, <1>6 DEF LinkTypeOK
<1>8. PlacesOK'
  BY <1>1, <1>4, <1>5, <1>6 DEF PlacesOK
<1>9. LinksOK'
  BY <1>1, <1>4, <1>5, <1>6 DEF LinksOK
<1>10. HandlerOK'
  BY <1>3, <1>5
<1>11. \A k \in Inters \ broken : LoweredOK(k)' /\ Kept(k)' = Kept(k) /\ SameKept(k)
  BY <1>3, <1>4, <1>5, <1>6, NamesLeft
<1>12. ASSUME h \notin broken
       PROVE  i = h /\ LoweredOK(i) /\ NextCall(i, Current.from, Current.to, c, handler'.todo)
  <2>1. i = h
    BY <1>12
  <2>2. LoweredOK(i) /\ Working(i)
    BY <1>1, <1>12, <2>1 DEF PathOK
  <2> QED
    BY <1>3, <2>1, <2>2, Phases
<1>13. ASSUME h \notin broken
       PROVE  \/ /\ Current.op = "link" /\ y = Final(i, 2) /\ Moved1(i, Current.from)
                 /\ handler'.todo = <<Do("symlink", i, Current.from), Do("symlink", i, Current.to)>>
              \/ /\ Current.op = "link"
                 /\ \E k \in 1 .. MaxCount - 1 :
                      /\ y = Final(i, k + 1) /\ handler'.todo = <<Do("symlink", i, Current.to)>>
                      /\ Stored(i, k + 1) /\ Shown(i, k, k + 1)
                      /\ handler.shows = data[Final(i, k + 1)]
              \/ \E k \in 1 .. MaxCount - 1 :
                   /\ y = Final(i, k) /\ handler'.todo = <<>> /\ Stored(i, k) /\ Shown(i, k, k)
  <2>1. \A a \in Names : c # Do("symlink", i, Name(a))
    BY <1>2, <1>4, DoFacts
  <2>2. Current.op = "link" => /\ \E a \in Names : Current.to = Name(a)
                               /\ \E a \in Names : Current.from = Name(a)
    BY <1>1, <1>3 DEF HandlerOK, CallsOK, Current
  <2> QED
    BY <1>2, <1>12, <1>13, <2>1, <2>2, DoFacts DEF NextCall
<1>14. MeantOK'
  <2>1. ASSUME NEW a \in Names, MovedAway(a), h \notin broken
        PROVE  MovedAway(a)' /\ handler'.todo[1].do = "symlink"
    <3>1. PICK k \in 1 .. Len(handler.todo) - 1 : handler.todo[k] = Do("symlink", h, Name(a))
      BY <2>1 DEF MovedAway
    <3>2. k # 1
      BY <1>2, <1>3, <1>4, <3>1, DoFacts
    <3>3. Len(handler'.todo) \in Nat /\ Len(handler.todo) = Len(handler'.todo) + 1
      <4>1. Len(handler'.todo) \in Nat
        BY <1>3
      <4>2. Len(handler.todo) \in Nat
        BY <1>1 DEF LinkTypeOK
      <4> QED
        BY <1>3, <4>1, <4>2
    <3>4. k - 1 \in 1 .. Len(handler'.todo) - 1 /\ k - 1 \in 1 .. Len(handler'.todo) /\ (k - 1) + 1 = k
      BY <3>1, <3>2, <3>3
    <3>5. handler'.todo[k - 1] = Do("symlink", handler'.path, Name(a))
      BY <1>3, <3>1, <3>4
    <3>6. MovedAway(a)'
      BY <3>4, <3>5 DEF MovedAway
    <3>7. handler'.todo = <<Do("symlink", i, Current.from), Do("symlink", i, Current.to)>>
      <4>1. Len(handler'.todo) # 0 /\ Len(handler'.todo) # 1
        <5>1. k - 1 \in 1 .. Len(handler'.todo) - 1 /\ Len(handler'.todo) \in Nat
          BY <3>3, <3>4
        <5>2. \A j, l : l \in Nat /\ j \in 1 .. l - 1 => l # 0 /\ l # 1
          OBVIOUS
        <5> QED
          BY <5>1, <5>2
      <4>2. ASSUME NEW d PROVE handler'.todo # <<d>>
        <5>1. Len(<<d>>) = 1
          OBVIOUS
        <5> QED
          BY <4>1, <5>1
      <4>3. handler'.todo # <<>>
        BY <4>1
      <4> QED
        BY <1>13, <2>1, <4>2, <4>3
    <3>8. handler'.todo[1].do = "symlink"
      BY <3>7, DoFacts
    <3> QED
      BY <3>6, <3>8
  <2> QED
    BY <1>1, <1>3, <1>4, <1>5, <1>6, <2>1 DEF MeantOK
<1>15. ASSUME NEW k \in Inters \ broken, k # h PROVE PathOK(k)'
  <2>1. k # i
    BY <1>15
  <2>2. SameStore(k)
    BY <1>4, <1>5, <1>6, <2>1 DEF SameStore
  <2> QED
    BY <1>1, <1>3, <1>11, <1>15, <2>2, PathTransfers
<1>16. ASSUME h \in Inters \ broken PROVE PathOK(h)'
  <2>1. i = h /\ LoweredOK(i)' /\ Kept(i)' = Kept(i) /\ SameKept(i) /\ i \in Inters \ broken
    BY <1>11, <1>12, <1>16
  <2>2. /\ \A m : Stored(i, m) => Stored(i, m)'
        /\ \A m, l : l \in 1 .. MaxCount /\ Shown(i, m, l) => Shown(i, m, l)'
    <3>1. \A m \in 1 .. MaxCount : data'[Final(i, m)] = data[Final(i, m)]
      BY <1>5
    <3> QED
      BY <2>1, <3>1, FilesStay
  <2>3. \A k \in 1 .. MaxCount - 1 : k \in 1 .. MaxCount /\ k + 1 \in 1 .. MaxCount
    BY LinkAssumption
  <2>4. CASE /\ Current.op = "link" /\ y = Final(i, 2) /\ Moved1(i, Current.from)
             /\ handler'.todo = <<Do("symlink", i, Current.from), Do("symlink", i, Current.to)>>
    <3>1. PICK a \in Names : Current.from = Name(a) /\ meant[a] = data[Final(i, 2)]
      BY <2>4 DEF Moved1
    <3>2. ~ Exists(Current.from)'
      BY <1>3, <1>4, <1>5, <1>6, <2>4, <3>1 DEF Moved1, Exists
    <3>3. Stored(i, 2)' /\ Kept(i)' = {}
      BY <2>1, <2>2, <2>4 DEF Moved1
    <3>4. handler'.shows = data'[Final(i, 2)]
      BY <1>3, <1>5, <2>4 DEF Moved1
    <3>5. Moved1(i, Current.from)'
      BY <1>3, <1>5, <3>1, <3>2, <3>3, <3>4 DEF Moved1
    <3>6. Linking(i, Current.from, Current.to)'
      BY <1>3, <1>6, <2>4, <3>5 DEF Linking
    <3> QED
      BY <1>3, <2>1, <2>4, <3>6 DEF PathOK, Working
  <2>5. ASSUME NEW k \in 1 .. MaxCount - 1, Current.op = "link",
               y = Final(i, k + 1), handler'.todo = <<Do("symlink", i, Current.to)>>,
               Stored(i, k + 1), Shown(i, k, k + 1), handler.shows = data[Final(i, k + 1)]
        PROVE  PathOK(h)'
    <3>1. Linking(i, Current.from, Current.to)'
      BY <1>3, <1>5, <1>6, <2>2, <2>3, <2>5 DEF Linking
    <3> QED
      BY <1>3, <2>1, <2>5, <3>1 DEF PathOK, Working
  <2>6. ASSUME NEW k \in 1 .. MaxCount - 1, y = Final(i, k), handler'.todo = <<>>,
               Stored(i, k), Shown(i, k, k)
        PROVE  PathOK(h)'
    <3>1. Linked(i, k)'
      BY <1>6, <2>2, <2>3, <2>6 DEF Linked
    <3>2. Sound(i)'
      BY <2>3, <3>1 DEF Sound
    <3> QED
      BY <1>3, <2>1, <2>6, <3>2 DEF PathOK, Working
  <2> QED
    BY <1>13, <1>16, <2>4, <2>5, <2>6
<1> QED
  BY <1>3, <1>5, <1>7, <1>8, <1>9, <1>10, <1>14, <1>15, <1>16 DEF LinkInv

\* A name is linked to the path of the handler.
LEMMA NameStep ==
  ASSUME LinkInv, IsFiniteSet(Names), Step, NEW c, c = Head(handler.todo), NEW a \in Names,
         NEW h, h = handler.path, NEW x, x = Name(a), c = Do("symlink", h, x), Current.op = "link"
  PROVE  LinkInv'
<1>1. /\ LinkTypeOK /\ PlacesOK /\ LinksOK /\ MeantOK /\ HandlerOK /\ CallsOK
      /\ \A k \in Inters \ broken : PathOK(k)
  BY DEF LinkInv
<1>2. c.do = "symlink" /\ c.from = h /\ c.to = x /\ ~ Shares(c)
  BY DoFacts DEF Shares
<1>3. /\ handler # NoHandler /\ h \in Inters /\ handler.todo # <<>>
      /\ c = handler.todo[1] /\ HostCall(c)
      /\ handler'.todo = Tail(handler.todo) /\ handler'.path = h
      /\ handler'.shows = handler.shows
      /\ Current' = Current /\ call' = call /\ mixed' \subseteq Inters
      /\ handler'.tracee \in Tracees \cup {NoTracee} /\ handler'.todo \in Seq(HostCalls)
      /\ CallsOK'
      /\ (/\ broken \subseteq broken'
          /\ \/ handler'.shows = NoFile \/ Current.op # "link"
             \/ home'[handler'.shows] \in {h} \cup broken') => HandlerOK'
      /\ handler.shows = NoFile \/ home[handler.shows] \in {h} \cup broken
  <2>1. ~ \E b \in Names : c = Do("rename", Name(b), Final(h, 2))
    BY <1>2, DoFacts
  <2> QED
    BY <1>2, <2>1, StepFacts
<1>4. /\ x \in Paths /\ h \in Paths /\ h # NoPath /\ x[1] = a
      /\ \A b \in Names : Name(b) \in Paths /\ (Name(b) = x <=> b = a)
      /\ \A k \in Inters : k \in Paths /\ k # x
      /\ \A k \in Inters, l \in 1 .. MaxCount : Final(k, l) \in Paths /\ Final(k, l) # x
  BY <1>3, PathFacts
<1>5. /\ ~ Exists(x) /\ data' = data /\ link' = [link EXCEPT ![x] = h]
      /\ home' = home /\ broken' = broken
      /\ meant' = (IF NewName(c) THEN [meant EXCEPT ![a] = handler.shows] ELSE meant)
  <2>1. Symlink(h, x)
    BY <1>2, <1>3 DEF HostCall
  <2> QED
    BY <1>2, <1>3, <1>4, <2>1 DEF Step, Symlink
<1>6. /\ \A p \in Paths : p # x => link'[p] = link[p]
      /\ link'[x] = h /\ link' \in [Paths -> Paths \cup {NoPath}]
      /\ link[x] = NoPath /\ data[x] = NoFile
  BY <1>1, <1>4, <1>5 DEF LinkTypeOK, Exists
<1>7. /\ \A b \in Names : b # a => meant'[b] = meant[b]
      /\ meant'[a] = (IF NewName(c) THEN handler.shows ELSE meant[a])
      /\ meant' \in [Names -> Files \cup {NoFile}]
  <2>1. handler.shows \in Files \cup {NoFile} /\ meant \in [Names -> Files \cup {NoFile}]
    BY <1>1 DEF LinkTypeOK
  <2> QED
    BY <1>5, <2>1
<1>8. \A b \in Names : b # a => link'[Name(b)] = link[Name(b)]
  BY <1>4, <1>6
<1>9. LinkTypeOK'
  BY <1>1, <1>3, <1>5, <1>6, <1>7 DEF LinkTypeOK
<1>10. PlacesOK'
  BY <1>1, <1>4, <1>5, <1>6, <1>7, <1>8 DEF PlacesOK
<1>11. LinksOK'
  BY <1>1, <1>3, <1>4, <1>5, <1>6, <1>8 DEF LinksOK
<1>12. HandlerOK'
  BY <1>3, <1>5
<1>13. ASSUME h \notin broken
       PROVE  /\ LoweredOK(h)
              /\ \/ /\ x = Current.from /\ link[h] = Final(h, 2) /\ Moved1(h, x)
                    /\ handler'.todo = <<Do("symlink", h, Current.to)>>
                 \/ /\ x = Current.to /\ handler'.todo = <<>> /\ Len(handler.todo) = 1
                    /\ \E k \in 1 .. MaxCount - 1 :
                         /\ link[h] = Final(h, k + 1) /\ Stored(h, k + 1) /\ Shown(h, k, k + 1)
                         /\ handler.shows = data[Final(h, k + 1)]
  <2>1. LoweredOK(h) /\ Working(h)
    BY <1>1, <1>3, <1>13 DEF PathOK
  <2>2. NextCall(h, Current.from, Current.to, c, handler'.todo)
    BY <1>3, <2>1, Phases
  <2>3. \A p : c # Do("symlink", p, h)
    BY <1>2, <1>3, <1>4, DoFacts
  <2> QED
    BY <1>2, <2>1, <2>2, <2>3, DoFacts DEF NextCall
<1>14. MeantOK'
  <2>1. ASSUME meant'[a] # NoFile PROVE home[meant'[a]] \in {h} \cup broken
    <3>1. CASE NewName(c)
      BY <1>3, <1>7, <2>1, <3>1
    <3>2. CASE ~ NewName(c)
      BY <1>1, <1>6, <1>7, <2>1, <3>2 DEF MeantOK
    <3> QED
      BY <3>1, <3>2
  <2>2. ASSUME NEW b \in Names, b # a, MovedAway(b), h \notin broken PROVE FALSE
    <3>1. PICK k \in 1 .. Len(handler.todo) - 1 : handler.todo[k] = Do("symlink", h, Name(b))
      BY <2>2 DEF MovedAway
    <3>2. Len(handler.todo) = 1 \/ Len(handler.todo) = 2
      <4>1. Len(handler.todo) \in Nat /\ Len(handler'.todo) = Len(handler.todo) - 1
        <5>1. handler.todo \in Seq(HostCalls)
          BY <1>1 DEF LinkTypeOK
        <5> QED
          BY <5>1, StepFacts
      <4>2. Len(handler'.todo) = 0 \/ Len(handler'.todo) = 1
        <5>1. handler'.todo = <<>> \/ handler'.todo = <<Do("symlink", h, Current.to)>>
          BY <1>13, <2>2
        <5>2. Len(<<>>) = 0 /\ Len(<<Do("symlink", h, Current.to)>>) = 1
          OBVIOUS
        <5> QED
          BY <5>1, <5>2
      <4> QED
        BY <4>1, <4>2
    <3>3. k = 1
      <4>1. \A j, l : (l = 1 \/ l = 2) /\ j \in 1 .. l - 1 => j = 1
        OBVIOUS
      <4> QED
        BY <3>1, <3>2, <4>1
    <3>4. Do("symlink", h, Name(b)) = c
      BY <1>3, <3>1, <3>3
    <3> QED
      BY <1>2, <1>4, <2>2, <3>4, DoFacts
  <2>3. link'[Name(a)] = h /\ h # NoPath
    BY <1>4, <1>6
  <2> QED
    BY <1>1, <1>3, <1>5, <1>7, <1>8, <2>1, <2>2, <2>3 DEF MeantOK
<1>15. ASSUME NEW k \in Inters \ broken
       PROVE  /\ LoweredOK(k)'
              /\ \A u \in Tracees : ~ Takes(u, k, a)
              /\ a \notin Kept(k) /\ Kept(k) \subseteq Names
              /\ Kept(k)' = IF k = h THEN Kept(k) \cup {a} ELSE Kept(k)
  <2>1. LoweredOK(k) /\ k # NoPath
    BY <1>1, <1>15, PathFacts DEF PathOK
  <2>2. ASSUME NEW u \in Tracees, call[u].dec = k
        PROVE  \E b \in Names : b # a /\ call[u].to = Name(b)
    <3>1. call[u] # NoCall
      BY <2>1, <2>2 DEF NoCall
    <3>2. PICK b \in Names : call[u].to = Name(b)
      BY <1>1, <3>1 DEF CallsOK
    <3> QED
      BY <1>6, <2>1, <2>2, <3>2 DEF LoweredOK
  <2>3. LoweredOK(k)'
    BY <1>3, <1>8, <2>1, <2>2 DEF LoweredOK
  <2>4. \A u \in Tracees : ~ Takes(u, k, a)
    BY <1>4, <2>2 DEF Takes
  <2>5. NamesOf(k)' = IF k = h THEN NamesOf(k) \cup {a} ELSE NamesOf(k)
    BY <1>4, <1>6, <1>8, <2>1 DEF NamesOf
  <2>6. Kept(k)' = IF k = h THEN Kept(k) \cup {a} ELSE Kept(k)
    <3>1. \A u \in Tracees, b \in Names : Takes(u, k, b)' <=> Takes(u, k, b)
      BY <1>3 DEF Takes
    <3>2. Kept(k)' = {b \in NamesOf(k)' : \A u \in Tracees : ~ Takes(u, k, b)}
      <4>1. NamesOf(k)' \subseteq Names
        BY DEF NamesOf
      <4> QED
        BY <3>1, <4>1 DEF Kept
    <3> QED
      BY <2>4, <2>5, <3>2 DEF Kept
  <2>7. a \notin Kept(k) /\ Kept(k) \subseteq Names
    BY <1>6, <2>1 DEF Kept, NamesOf
  <2> QED
    BY <2>3, <2>4, <2>6, <2>7
<1>16. ASSUME NEW k \in Inters \ broken, k # h PROVE PathOK(k)'
  <2>1. SameStore(k)
    BY <1>4, <1>5, <1>6 DEF SameStore
  <2>2. SameKept(k)
    BY <1>7, <1>15, <1>16 DEF SameKept
  <2> QED
    BY <1>1, <1>3, <1>15, <1>16, <2>1, <2>2, PathTransfers
<1>17. ASSUME h \notin broken PROVE PathOK(h)'
  <2>1. h \in Inters \ broken
    BY <1>3, <1>17
  <2>2. LoweredOK(h)' /\ a \notin Kept(h) /\ Kept(h) \subseteq Names /\ Kept(h)' = Kept(h) \cup {a}
    BY <1>15, <2>1
  <2>3. /\ \A m \in 1 .. MaxCount : data'[Final(h, m)] = data[Final(h, m)]
        /\ link'[h] = link[h]
    BY <1>3, <1>4, <1>5, <1>6
  <2>4. \A k \in 1 .. MaxCount - 1 : k \in 1 .. MaxCount /\ k + 1 \in 1 .. MaxCount
    BY LinkAssumption
  <2>5. Cardinality(Kept(h)') = Cardinality(Kept(h)) + 1
    BY <2>2, FS_Subset, FS_AddElement
  <2>6. \A m : Stored(h, m) => Stored(h, m)'
    BY <2>3 DEF Stored
  <2>7. CASE /\ x = Current.from /\ link[h] = Final(h, 2) /\ Moved1(h, x)
             /\ handler'.todo = <<Do("symlink", h, Current.to)>>
    <3>1. ~ NewName(c)
      <4>1. Len(handler'.todo) = 1 /\ Len(handler'.todo) = Len(handler.todo) - 1
        BY <2>7, StepFacts
      <4> QED
        BY <4>1 DEF NewName
    <3>2. PICK b \in Names : x = Name(b) /\ meant[b] = data[Final(h, 2)]
      BY <2>7 DEF Moved1
    <3>3. meant'[a] = data[Final(h, 2)]
      BY <1>4, <1>7, <3>1, <3>2
    <3>4. 1 \in 1 .. MaxCount - 1 /\ 1 + 1 = 2 /\ 2 \in 1 .. MaxCount
      BY LinkAssumption
    <3>5. Kept(h)' = {a} /\ Cardinality(Kept(h)') = 1
      BY <2>2, <2>5, <2>7, FS_EmptySet DEF Moved1
    <3>6. Shown(h, 1, 2)'
      BY <2>3, <3>3, <3>4, <3>5 DEF Shown
    <3>7. Stored(h, 2)' /\ handler'.shows = data'[Final(h, 2)]
      BY <1>3, <1>5, <2>6, <2>7 DEF Moved1
    <3>8. Linking(h, Current.from, Current.to)'
      BY <1>3, <2>3, <2>7, <3>4, <3>6, <3>7 DEF Linking
    <3> QED
      BY <1>3, <2>2, <3>8 DEF PathOK, Working
  <2>8. ASSUME NEW k \in 1 .. MaxCount - 1, x = Current.to, handler'.todo = <<>>,
               Len(handler.todo) = 1, link[h] = Final(h, k + 1), Stored(h, k + 1),
               Shown(h, k, k + 1), handler.shows = data[Final(h, k + 1)]
        PROVE  PathOK(h)'
    <3>1. NewName(c)
      BY <1>2, <2>8 DEF NewName
    <3>2. meant'[a] = data[Final(h, k + 1)]
      BY <1>7, <2>8, <3>1
    <3>3. Shown(h, k + 1, k + 1)'
      BY <1>7, <2>2, <2>3, <2>4, <2>5, <2>8, <3>2 DEF Shown
    <3>4. Linked(h, k + 1)'
      BY <2>3, <2>6, <2>8, <3>3 DEF Linked
    <3>5. Sound(h)'
      BY <2>4, <3>4 DEF Sound
    <3> QED
      BY <1>3, <2>2, <2>8, <3>5 DEF PathOK, Working
  <2> QED
    BY <1>13, <1>17, <2>7, <2>8
<1> QED
  BY <1>3, <1>5, <1>9, <1>10, <1>11, <1>12, <1>14, <1>16, <1>17 DEF LinkInv

\* The next host call of a handler, whatever it is.
LEMMA StepKeepsInv ==
  ASSUME LinkInv, IsFiniteSet(Names), Step
  PROVE  LinkInv'
<1>1. PICK c : c = Head(handler.todo)
  OBVIOUS
<1>2. CallOK(c) /\ handler.path \in Inters
  BY <1>1, StepFacts
<1>3. PICK i \in Inters, n \in 1 .. MaxCount, m \in 1 .. MaxCount, a \in Names :
        /\ i = handler.path \/ {i, handler.path} \subseteq broken
        /\ \/ c = Do("rename", Name(a), Final(i, n)) /\ i = handler.path /\ Current.op = "link"
           \/ c = Do("rename", Final(i, m), Final(i, n))
           \/ c = Do("unlink", NoPath, i)
           \/ c = Do("unlink", NoPath, Final(i, n))
           \/ c = Do("symlink", Final(i, n), i)
           \/ c = Do("symlink", i, Name(a)) /\ i = handler.path /\ Current.op = "link"
  BY <1>2 DEF CallOK
<1>4. CASE c = Do("rename", Name(a), Final(i, n)) /\ i = handler.path /\ Current.op = "link"
  BY <1>1, <1>4, ShareStep
<1>5. CASE c = Do("rename", Final(i, m), Final(i, n))
  BY <1>1, <1>3, <1>5, RecountStep
<1>6. CASE c = Do("unlink", NoPath, i)
  BY <1>1, <1>3, <1>6, UnlinkStep
<1>7. CASE c = Do("unlink", NoPath, Final(i, n))
  BY <1>1, <1>3, <1>7, UnlinkStep
<1>8. CASE c = Do("symlink", Final(i, n), i)
  BY <1>1, <1>3, <1>8, InterStep
<1>9. CASE c = Do("symlink", i, Name(a)) /\ i = handler.path /\ Current.op = "link"
  BY <1>1, <1>9, NameStep
<1> QED
  BY <1>3, <1>4, <1>5, <1>6, <1>7, <1>8, <1>9

(***************************************************************************)
(* Where no two files met.                                                 *)
(***************************************************************************)

\* At the final paths of i, and for its names and new names, all is as it was.
SameOwn(i) ==
  /\ \A n \in 1 .. MaxCount : /\ data'[Final(i, n)] = data[Final(i, n)]
                              /\ link'[Final(i, n)] = link[Final(i, n)]
  /\ \A a \in NamesOf(i)' : \E b \in NamesOf(i) : meant'[a] = meant[b]
  /\ handler'.shows = handler.shows
  /\ mixed \subseteq mixed'

\* What was kept apart at i still is.
LEMMA OwnTransfers ==
  ASSUME NEW i \in Inters, NEW n \in 1 .. MaxCount, SameOwn(i)
  PROVE  /\ \A f : Own(Final(i, n), f) => Own(Final(i, n), f)'
         /\ OfNames(i, Final(i, n)) => OfNames(i, Final(i, n))'
         /\ OfNew(i, Final(i, n)) => OfNew(i, Final(i, n))'
<1>1. \A f : Own(Final(i, n), f) => Own(Final(i, n), f)'
  BY DEF SameOwn, Own
<1>2. OfNames(i, Final(i, n)) => OfNames(i, Final(i, n))'
  BY <1>1 DEF SameOwn, OfNames
<1>3. OfNew(i, Final(i, n)) => OfNew(i, Final(i, n))'
  BY <1>1 DEF SameOwn, OfNew
<1> QED
  BY <1>1, <1>2, <1>3

\* A path that leads where it did before.
LEMMA OwnKept ==
  ASSUME LinksOK, NamesOwn, NEW i \in Inters, SameOwn(i), link'[i] = link[i], link'[i] # NoPath
  PROVE  OfNames(i, link[i])'
<1>1. PICK n \in 1 .. MaxCount : link[i] = Final(i, n)
  BY DEF LinksOK
<1>2. OfNames(i, Final(i, n))
  BY <1>1 DEF NamesOwn
<1>3. OfNames(i, Final(i, n))'
  BY <1>2, OwnTransfers
<1> QED
  BY <1>1, <1>3

\* Steps that neither move a file from or to a final path nor change what a handler will do.
LEMMA OwnStays ==
  ASSUME LinksOK, OwnInv, handler' = handler, handler # NoHandler => Current' = Current,
         \A i \in Inters : SameOwn(i) /\ link'[i] = link[i],
         \A a \in Names : MovedAway(a) /\ ~ Exists(Name(a)) =>
           handler.path \in mixed' \/ (~ Exists(Name(a))' /\ meant'[a] = meant[a])
  PROVE  OwnInv'
<1>1. NamesOwn'
  BY OwnKept DEF OwnInv, NamesOwn
<1>2. \A i \in Inters, n \in 1 .. MaxCount :
        /\ OfNames(i, Final(i, n)) => OfNames(i, Final(i, n))'
        /\ OfNew(i, Final(i, n)) => OfNew(i, Final(i, n))'
  BY OwnTransfers
<1>3. ASSUME NEW i \in Inters, i = handler.path, NEW n \in 1 .. MaxCount, NEW a \in Names,
             OfMoved(i, Final(i, n), a), MovedAway(a)
      PROVE  OfMoved(i, Final(i, n), a)'
  <2>1. CASE i \in mixed'
    BY <2>1 DEF OfMoved
  <2>2. CASE i \notin mixed'
    <3>1. i \notin mixed
      BY <2>2 DEF SameOwn
    <3>2. Own(Final(i, n), handler.shows) /\ ~ Exists(Name(a)) /\ meant[a] = handler.shows
      BY <1>3, <3>1 DEF OfMoved
    <3>3. ~ Exists(Name(a))' /\ meant'[a] = meant[a]
      BY <1>3, <2>2, <3>2
    <3>4. Own(Final(i, n), handler.shows)'
      BY <3>2, OwnTransfers
    <3> QED
      BY <3>2, <3>3, <3>4 DEF OfMoved
  <2> QED
    BY <2>1, <2>2
<1>4. ASSUME NEW i \in Inters, i = handler.path, NEW q, LinkPlan(i, q) PROVE LinkPlan(i, q)'
  <2>1. CASE \E a \in Names :
       handler.todo = <<Do("rename", Name(a), Final(i, 2)), Do("symlink", Final(i, 2), i),
                        Do("symlink", i, Name(a)), Do("symlink", i, q)>>
    BY <2>1 DEF LinkPlan
  <2>2. ASSUME NEW a \in Names, OfMoved(i, Final(i, 2), a), i \in mixed \/ NamesOf(i) = {},
          handler.todo = <<Do("symlink", Final(i, 2), i), Do("symlink", i, Name(a)),
                           Do("symlink", i, q)>>
        PROVE LinkPlan(i, q)'
    <3>1. MovedAway(a)
      <4>1. handler.todo[2] = Do("symlink", i, Name(a)) /\ Len(handler.todo) = 3
        BY <2>2
      <4> QED
        BY <1>4, <4>1 DEF MovedAway
    <3>2. 2 \in 1 .. MaxCount
      BY LinkAssumption
    <3>3. OfMoved(i, Final(i, 2), a)'
      BY <1>3, <1>4, <2>2, <3>1, <3>2
    <3>4. i \in mixed' \/ NamesOf(i)' = {}
      BY <2>2 DEF SameOwn
    <3> QED
      BY <2>2, <3>3, <3>4 DEF LinkPlan
  <2>3. ASSUME NEW a \in Names, link[i] # NoPath, OfMoved(i, link[i], a),
          handler.todo = <<Do("symlink", i, Name(a)), Do("symlink", i, q)>>
        PROVE LinkPlan(i, q)'
    <3>1. MovedAway(a)
      <4>1. handler.todo[1] = Do("symlink", i, Name(a)) /\ Len(handler.todo) = 2
        BY <2>3
      <4> QED
        BY <1>4, <4>1 DEF MovedAway
    <3>2. PICK n \in 1 .. MaxCount : link[i] = Final(i, n)
      BY <2>3 DEF LinksOK
    <3>3. OfMoved(i, Final(i, n), a)'
      BY <1>3, <1>4, <2>3, <3>1, <3>2
    <3>4. OfMoved(i, link[i], a)'
      BY <3>2, <3>3
    <3> QED
      BY <2>3, <3>4 DEF LinkPlan
  <2>4. ASSUME NEW n \in 1 .. MaxCount, NEW m \in 1 .. MaxCount,
       \/ /\ handler.todo = <<Do("rename", Final(i, n), Final(i, m)), Do("unlink", NoPath, i),
                              Do("symlink", Final(i, m), i), Do("symlink", i, q)>>
          /\ n # m /\ link[i] = Final(i, n) /\ OfNew(i, Final(i, n))
       \/ /\ handler.todo = <<Do("unlink", NoPath, i), Do("symlink", Final(i, m), i),
                              Do("symlink", i, q)>>
          /\ OfNew(i, Final(i, m)) /\ OfNames(i, Final(i, m))
       \/ /\ handler.todo = <<Do("symlink", Final(i, m), i), Do("symlink", i, q)>>
          /\ OfNew(i, Final(i, m)) /\ OfNames(i, Final(i, m))
        PROVE LinkPlan(i, q)'
    BY <1>2, <2>4 DEF LinkPlan
  <2>5. CASE handler.todo = <<Do("symlink", i, q)>> /\ (link[i] # NoPath => OfNew(i, link[i]))
    <3>1. link[i] # NoPath => OfNew(i, link[i])'
      <4>1. ASSUME NEW n \in 1 .. MaxCount, link[i] = Final(i, n) PROVE OfNew(i, link[i])'
        BY <1>2, <2>5, <4>1, PathFacts
      <4> QED
        BY <4>1 DEF LinksOK
    <3> QED
      BY <2>5, <3>1 DEF LinkPlan
  <2> QED
    BY <1>4, <2>1, <2>2, <2>3, <2>4, <2>5 DEF LinkPlan
<1>5. ASSUME NEW i \in Inters, LowerPlan(i) PROVE LowerPlan(i)'
  BY <1>2, <1>5 DEF LowerPlan
<1>6. PlanOK'
  <2>1. CASE handler.todo = <<>>
    BY <2>1 DEF PlanOK
  <2>2. CASE handler.todo # <<>>
    <3>1. Current' = Current
      BY <2>2 DEF NoHandler
    <3> QED
      BY <1>4, <1>5, <2>2, <3>1 DEF OwnInv, PlanOK
  <2> QED
    BY <2>1, <2>2
<1> QED
  BY <1>1, <1>6 DEF OwnInv

\* open(2) of a new file.
LEMMA OwnCreate ==
  ASSUME LinkInv, OwnInv, NEW t \in Tracees, NEW a \in Names, NEW f \in Files, Create(t, a, f)
  PROVE  OwnInv'
<1>1. LinkTypeOK /\ LinksOK
  BY DEF LinkInv
<1>2. /\ data' = [data EXCEPT ![Name(a)] = f] /\ meant' = [meant EXCEPT ![a] = f]
      /\ mixed' = mixed \cup Taken(Name(a))
      /\ link' = link /\ call' = call /\ handler' = handler /\ ~ Exists(Name(a))
  BY DEF Create
<1>3. /\ \A p \in Paths : p # Name(a) => data'[p] = data[p]
      /\ \A b \in Names : b # a => meant'[b] = meant[b]
  BY <1>1, <1>2, PathFacts DEF LinkTypeOK
<1>4. ASSUME NEW i \in Inters PROVE SameOwn(i) /\ link'[i] = link[i]
  <2>1. \A n \in 1 .. MaxCount : data'[Final(i, n)] = data[Final(i, n)]
    BY <1>3, PathFacts
  <2>2. NamesOf(i)' = NamesOf(i) /\ a \notin NamesOf(i)
    BY <1>2, PathFacts DEF NamesOf, Exists
  <2>3. \A b \in NamesOf(i) : meant'[b] = meant[b]
    BY <1>3, <2>2 DEF NamesOf
  <2> QED
    BY <1>2, <2>1, <2>2, <2>3 DEF SameOwn
<1>5. ASSUME NEW b \in Names, MovedAway(b), ~ Exists(Name(b))
      PROVE  handler.path \in mixed' \/ (~ Exists(Name(b))' /\ meant'[b] = meant[b])
  <2>1. CASE b = a
    BY <1>2, <1>5, <2>1 DEF MovedAway, Taken
  <2>2. CASE b # a
    <3>1. Name(b) \in Paths /\ Name(b) # Name(a)
      BY <2>2, PathFacts
    <3> QED
      BY <1>2, <1>3, <1>5, <2>2, <3>1 DEF Exists
  <2> QED
    BY <2>1, <2>2
<1> QED
  BY <1>1, <1>2, <1>4, <1>5, OwnStays DEF Current

\* The kernel's half of unlink(2).
LEMMA OwnUnlink ==
  ASSUME LinkInv, OwnInv, NEW t \in Tracees, KernelUnlink(t)
  PROVE  OwnInv'
<1>1. LinkTypeOK /\ LinksOK /\ HandlerOK /\ CallsOK
  BY DEF LinkInv
<1>2. PICK a \in Names : call[t].to = Name(a)
  BY <1>1 DEF KernelUnlink, CallsOK
<1>3. /\ call' = [call EXCEPT ![t] = NoCall] /\ call[t].half = "kernel"
      /\ handler' = handler /\ mixed' = mixed
  BY DEF KernelUnlink
<1>4. handler # NoHandler => Current' = Current
  BY <1>1, <1>3, OtherTracee DEF LinkTypeOK
<1>5. /\ \A p \in Paths : p # Name(a) => data'[p] = data[p] /\ link'[p] = link[p]
      /\ \A b \in Names : b # a => meant'[b] = meant[b]
      /\ \/ data' = data /\ link' = link /\ meant' = meant
         \/ Exists(Name(a)) /\ link'[Name(a)] = NoPath
  <2>1. Name(a) \in Paths /\ Name(a)[1] = a
    BY PathFacts
  <2>2. CASE Exists(Name(a))
    <3>1. /\ data' = [data EXCEPT ![Name(a)] = NoFile] /\ link' = [link EXCEPT ![Name(a)] = NoPath]
          /\ meant' = [meant EXCEPT ![a] = NoFile]
      BY <1>2, <2>1, <2>2 DEF KernelUnlink, Unlink
    <3> QED
      BY <1>1, <2>1, <2>2, <3>1 DEF LinkTypeOK
  <2>3. CASE ~ Exists(Name(a))
    BY <1>2, <2>3 DEF KernelUnlink, hostVars
  <2> QED
    BY <2>2, <2>3
<1>6. \A b \in Names : b # a => Name(b) \in Paths /\ Name(b) # Name(a)
  BY PathFacts
<1>7. ASSUME NEW i \in Inters PROVE SameOwn(i) /\ link'[i] = link[i]
  <2>1. /\ link'[i] = link[i]
        /\ \A n \in 1 .. MaxCount : /\ data'[Final(i, n)] = data[Final(i, n)]
                                    /\ link'[Final(i, n)] = link[Final(i, n)]
    BY <1>5, PathFacts
  <2>2. \A b \in NamesOf(i)' : b \in NamesOf(i) /\ meant'[b] = meant[b]
    BY <1>5, <1>6, PathFacts DEF NamesOf
  <2> QED
    BY <1>3, <2>1, <2>2 DEF SameOwn
<1>8. ASSUME NEW b \in Names, ~ Exists(Name(b)) PROVE ~ Exists(Name(b))' /\ meant'[b] = meant[b]
  BY <1>5, <1>6, <1>8 DEF Exists
<1> QED
  BY <1>1, <1>3, <1>4, <1>7, <1>8, OwnStays

\* The kernel's half of rename(2).
LEMMA OwnRename ==
  ASSUME LinkInv, OwnInv, NEW t \in Tracees, KernelRename(t)
  PROVE  OwnInv'
<1>1. LinkTypeOK /\ LinksOK /\ HandlerOK /\ CallsOK
  BY DEF LinkInv
<1>2. PICK a \in Names, b \in Names : call[t].to = Name(a) /\ call[t].from = Name(b)
  BY <1>1 DEF KernelRename, CallsOK
<1>3. /\ call' = [call EXCEPT ![t] = NoCall] /\ call[t].half = "kernel" /\ handler' = handler
  BY DEF KernelRename
<1>4. handler # NoHandler => Current' = Current
  BY <1>1, <1>3, OtherTracee DEF LinkTypeOK
<1>5. CASE Exists(Name(b)) /\ Name(b) # Name(a)
  <2>1. /\ \A c \in Names : Name(c) \in Paths /\ Name(c)[1] = c /\ (c # a => Name(c) # Name(a))
                            /\ (c # b => Name(c) # Name(b))
        /\ a # b
    BY <1>5, PathFacts
  <2>2. /\ data' = [data EXCEPT ![Name(a)] = data[Name(b)], ![Name(b)] = NoFile]
        /\ link' = [link EXCEPT ![Name(a)] = link[Name(b)], ![Name(b)] = NoPath]
        /\ meant' = [meant EXCEPT ![a] = meant[b], ![b] = NoFile]
        /\ mixed' = mixed \cup Taken(Name(a))
    BY <1>2, <1>5, <2>1 DEF KernelRename, Rename, Moved
  <2>3. /\ \A p \in Paths : p # Name(a) /\ p # Name(b) => data'[p] = data[p] /\ link'[p] = link[p]
        /\ \A c \in Names : c # a /\ c # b => meant'[c] = meant[c]
        /\ link'[Name(b)] = NoPath /\ link'[Name(a)] = link[Name(b)] /\ meant'[a] = meant[b]
    BY <1>1, <2>1, <2>2 DEF LinkTypeOK
  <2>4. ASSUME NEW i \in Inters PROVE SameOwn(i) /\ link'[i] = link[i]
    <3>1. /\ link'[i] = link[i]
          /\ \A n \in 1 .. MaxCount : /\ data'[Final(i, n)] = data[Final(i, n)]
                                      /\ link'[Final(i, n)] = link[Final(i, n)]
      BY <2>3, PathFacts
    <3>2. ASSUME NEW c \in NamesOf(i)' PROVE \E d \in NamesOf(i) : meant'[c] = meant[d]
      <4>1. c \in Names /\ link'[Name(c)] = i /\ i # NoPath
        BY <3>2, PathFacts DEF NamesOf
      <4>2. CASE c = a
        BY <2>3, <4>1, <4>2 DEF NamesOf
      <4>3. CASE c # a
        <5>1. c # b
          BY <2>3, <4>1
        <5>2. link[Name(c)] = i /\ meant'[c] = meant[c]
          BY <2>1, <2>3, <4>1, <4>3, <5>1
        <5> QED
          BY <4>1, <5>2 DEF NamesOf
      <4> QED
        BY <4>2, <4>3
    <3> QED
      BY <1>3, <2>2, <3>1, <3>2 DEF SameOwn
  <2>5. ASSUME NEW c \in Names, MovedAway(c), ~ Exists(Name(c))
        PROVE  handler.path \in mixed' \/ (~ Exists(Name(c))' /\ meant'[c] = meant[c])
    <3>1. CASE c = a
      BY <2>2, <2>5, <3>1 DEF MovedAway, Taken
    <3>2. CASE c # a
      <4>1. c # b
        BY <1>5, <2>5
      <4> QED
        BY <2>1, <2>3, <2>5, <3>2, <4>1 DEF Exists
    <3> QED
      BY <3>1, <3>2
  <2> QED
    BY <1>1, <1>3, <1>4, <2>4, <2>5, OwnStays
<1>6. CASE ~ (Exists(Name(b)) /\ Name(b) # Name(a))
  <2>1. data' = data /\ link' = link /\ meant' = meant /\ mixed' = mixed
    BY <1>2, <1>6 DEF KernelRename, hostVars
  <2>2. ASSUME NEW i \in Inters PROVE SameOwn(i) /\ link'[i] = link[i]
    BY <1>3, <2>1 DEF SameOwn, NamesOf
  <2>3. ASSUME NEW c \in Names, ~ Exists(Name(c)) PROVE ~ Exists(Name(c))' /\ meant'[c] = meant[c]
    BY <2>1, <2>3 DEF Exists
  <2> QED
    BY <1>1, <1>3, <1>4, <2>2, <2>3, OwnStays
<1> QED
  BY <1>5, <1>6

\* No file is touched: what is to be shown is that the handler has a plan.
LEMMA OwnUntouched ==
  ASSUME OwnInv, data' = data, link' = link, meant' = meant, mixed' = mixed
  PROVE  /\ NamesOwn'
         /\ \A i, p : OfNames(i, p)' <=> OfNames(i, p)
         /\ \A i, p : handler'.shows = handler.shows => (OfNew(i, p)' <=> OfNew(i, p))
BY DEF OwnInv, NamesOwn, OfNames, OfNew, NamesOf, Own

\* A handler that ends or is cut short has nothing left to do.
LEMMA OwnEnds ==
  ASSUME OwnInv, data' = data, link' = link, meant' = meant, mixed' = mixed, handler' = NoHandler
  PROVE  OwnInv'
<1>1. PlanOK'
  BY DEF PlanOK, NoHandler
<1> QED
  BY <1>1, OwnUntouched DEF OwnInv

\* Nothing happens.
LEMMA OwnStutters ==
  ASSUME OwnInv, LinkInv, UNCHANGED vars
  PROVE  OwnInv'
<1>1. /\ data' = data /\ link' = link /\ call' = call /\ handler' = handler /\ meant' = meant
      /\ mixed' = mixed
  BY DEF vars, hostVars, history
<1>2. \A i \in Inters : SameOwn(i) /\ link'[i] = link[i]
  BY <1>1 DEF SameOwn, NamesOf
<1> QED
  BY <1>1, <1>2, OwnStays DEF LinkInv, Current, Exists

\* decrement_link_count() has a plan.
LEMMA DecrementPlan ==
  ASSUME LinksOK, NEW a \in Names, handler'.todo = Decrement(Name(a)), link' = link
  PROVE  PlanOK'
<1> DEFINE i == link[Name(a)]
           todo == Decrement(Name(a))
<1>1. CASE todo = <<>>
  BY <1>1 DEF PlanOK
<1>2. CASE i \in Inters /\ todo = <<Do("unlink", NoPath, i), Do("unlink", NoPath, Final(i, 1))>>
  <2>1. 1 \in 1 .. MaxCount
    BY LinkAssumption
  <2>2. LowerPlan(i)'
    BY <1>2, <2>1 DEF LowerPlan
  <2> QED
    BY <1>2, <2>2 DEF PlanOK
<1>3. ASSUME i \in Inters, NEW n \in 1 .. MaxCount - 1, link[i] = Final(i, n + 1),
             todo = Recounted(i, Final(i, n + 1), Final(i, n))
      PROVE  PlanOK'
  <2>1. n \in 1 .. MaxCount /\ n + 1 \in 1 .. MaxCount /\ n + 1 # n
    BY LinkAssumption
  <2>2. handler'.todo = <<Do("rename", Final(i, n + 1), Final(i, n)), Do("unlink", NoPath, i),
                         Do("symlink", Final(i, n), i)>>
    BY <1>3 DEF Recounted
  <2>3. LowerPlan(i)'
    BY <1>3, <2>1, <2>2 DEF LowerPlan
  <2> QED
    BY <1>3, <2>3 DEF PlanOK
<1>4. \/ todo = <<>>
      \/ /\ i \in Inters
         /\ \/ todo = <<Do("unlink", NoPath, i), Do("unlink", NoPath, Final(i, 1))>>
            \/ \E n \in 1 .. MaxCount - 1 :
                 link[i] = Final(i, n + 1) /\ todo = Recounted(i, Final(i, n + 1), Final(i, n))
  BY DecrementCalls
<1> HIDE DEF i, todo
<1> QED
  BY <1>1, <1>2, <1>3, <1>4

\* The new name of link() could not be made.
LEMMA OwnNewNameFails ==
  ASSUME LinkInv, OwnInv, NewNameFails
  PROVE  OwnInv'
<1>1. /\ data' = data /\ link' = link /\ meant' = meant /\ mixed' = mixed
      /\ handler' = [handler EXCEPT !.todo = Decrement(Current.from)]
  BY DEF NewNameFails, hostVars
<1>2. handler # NoHandler /\ handler.tracee \in Tracees /\ Current.op # "none"
  BY PathOfHandler DEF LinkInv, HandlerOK, NewNameFails
<1>3. PICK a \in Names : Current.from = Name(a)
  BY <1>2 DEF LinkInv, CallsOK, Current
<1>4. handler'.todo = Decrement(Name(a))
  BY <1>1, <1>3, <1>2 DEF LinkInv, HandlerOK, LinkTypeOK, NewNameFails, NoHandler
<1>5. PlanOK'
  BY <1>1, <1>4, DecrementPlan DEF LinkInv
<1> QED
  BY <1>1, <1>5, OwnUntouched DEF OwnInv

\* What a call that starts sets up.
LEMMA StartFacts ==
  ASSUME LinkInv, NEW t \in Tracees, NEW op, NEW a \in Names, NEW b \in Names, NEW todo, NEW path,
         NEW dec, Starts(t, op, Name(a), Name(b), todo, path, dec)
  PROVE  /\ data' = data /\ link' = link /\ meant' = meant /\ mixed' = mixed
         /\ handler'.todo = todo /\ handler'.path = path
         /\ op = "link" => handler'.shows = meant[a]
         /\ Current'.op = op /\ Current'.to = Name(b)
<1>1. /\ data' = data /\ link' = link /\ meant' = meant /\ mixed' = mixed
      /\ handler' = [tracee |-> t, todo |-> todo, path |-> path,
                     shows |-> IF op = "link" THEN meant[Name(a)[1]] ELSE NoFile]
      /\ call' = [call EXCEPT ![t] = [op |-> op, from |-> Name(a), to |-> Name(b), dec |-> dec,
                                      half |-> "proot"]]
  BY DEF Starts, hostVars
<1>2. call'[t] = [op |-> op, from |-> Name(a), to |-> Name(b), dec |-> dec, half |-> "proot"]
  BY <1>1 DEF LinkInv, LinkTypeOK
<1>3. handler'.tracee = t /\ Name(a)[1] = a
  BY <1>1, PathFacts
<1>4. Current' = call'[t]
  BY <1>3 DEF Current
<1> QED
  BY <1>1, <1>2, <1>3, <1>4

\* link() starts.
LEMMA OwnLink ==
  ASSUME LinkInv, OwnInv, NEW t \in Tracees, NEW a \in Names, NEW b \in Names,
         Link(t, Name(a), Name(b))
  PROVE  OwnInv'
<1>1. ASSUME NEW i \in Unused(Name(a)),
             Starts(t, "link", Name(a), Name(b),
                    FirstLink(Name(a), i) \o <<Do("symlink", i, Name(b))>>, i, NoPath)
      PROVE  OwnInv'
  <2>1. /\ data' = data /\ link' = link /\ meant' = meant /\ mixed' = mixed
        /\ handler'.todo = FirstLink(Name(a), i) \o <<Do("symlink", i, Name(b))>>
        /\ handler'.path = i /\ Current'.op = "link" /\ Current'.to = Name(b)
    <3> DEFINE todo == FirstLink(Name(a), i) \o <<Do("symlink", i, Name(b))>>
    <3>1. Starts(t, "link", Name(a), Name(b), todo, i, NoPath)
      BY <1>1
    <3> HIDE DEF todo
    <3>2. /\ data' = data /\ link' = link /\ meant' = meant /\ mixed' = mixed
          /\ handler'.todo = todo /\ handler'.path = i
          /\ Current'.op = "link" /\ Current'.to = Name(b)
      BY <3>1, StartFacts
    <3> QED
      BY <3>2 DEF todo
  <2>2. handler'.todo = <<Do("rename", Name(a), Final(i, 2)), Do("symlink", Final(i, 2), i),
                          Do("symlink", i, Name(a)), Do("symlink", i, Name(b))>>
    BY <2>1, ThenOne DEF FirstLink
  <2>3. LinkPlan(i, Name(b))'
    BY <2>2 DEF LinkPlan
  <2>4. i \in Inters
    BY DEF Unused
  <2> QED
    BY <2>1, <2>3, <2>4, OwnUntouched DEF OwnInv, PlanOK
<1>2. ASSUME NEW i, i = link[Name(a)], i # NoPath, link[i] # NoPath, Count(link[i]) < MaxCount,
             Starts(t, "link", Name(a), Name(b), NextLink(i) \o <<Do("symlink", i, Name(b))>>,
                    i, NoPath)
      PROVE  OwnInv'
  <2>1. /\ data' = data /\ link' = link /\ meant' = meant /\ mixed' = mixed
        /\ handler'.todo = NextLink(i) \o <<Do("symlink", i, Name(b))>>
        /\ handler'.path = i /\ Current'.op = "link" /\ Current'.to = Name(b)
        /\ handler'.shows = meant[a]
    <3> DEFINE todo == NextLink(i) \o <<Do("symlink", i, Name(b))>>
    <3>1. Starts(t, "link", Name(a), Name(b), todo, i, NoPath)
      BY <1>2
    <3> HIDE DEF todo
    <3>2. /\ data' = data /\ link' = link /\ meant' = meant /\ mixed' = mixed
          /\ handler'.todo = todo /\ handler'.path = i /\ handler'.shows = meant[a]
          /\ Current'.op = "link" /\ Current'.to = Name(b)
      BY <3>1, StartFacts
    <3> QED
      BY <3>2 DEF todo
  <2>2. i \in Inters
    BY <1>2 DEF LinkInv, LinksOK
  <2>3. PICK n \in 1 .. MaxCount : link[i] = Final(i, n)
    BY <1>2, <2>2 DEF LinkInv, LinksOK
  <2>4. Count(Final(i, n)) = n /\ n + 1 \in 1 .. MaxCount /\ n # n + 1
    BY <1>2, <2>2, <2>3, PathFacts, LinkAssumption
  <2>5. handler'.todo = <<Do("rename", Final(i, n), Final(i, n + 1)), Do("unlink", NoPath, i),
                          Do("symlink", Final(i, n + 1), i), Do("symlink", i, Name(b))>>
    BY <2>1, <2>3, <2>4, ThenOne DEF NextLink, Recounted
  <2>6. OfNew(i, Final(i, n))'
    <3>1. OfNames(i, Final(i, n)) /\ a \in NamesOf(i)
      BY <1>2, <2>2, <2>3 DEF OwnInv, NamesOwn, NamesOf
    <3> QED
      BY <2>1, <3>1 DEF OfNames, OfNew, Own
  <2>7. LinkPlan(i, Name(b))'
    BY <2>1, <2>3, <2>4, <2>5, <2>6 DEF LinkPlan
  <2> QED
    BY <2>1, <2>2, <2>7, OwnUntouched DEF OwnInv, PlanOK
<1> QED
  BY <1>1, <1>2 DEF Link

\* unlink() or rename() starts.
LEMMA OwnRemoves ==
  ASSUME LinkInv, OwnInv, NEW t \in Tracees, NEW a \in Names, NEW b \in Names, NEW op,
         Removes(t, op, Name(a), Name(b))
  PROVE  OwnInv'
<1>1. /\ data' = data /\ link' = link /\ meant' = meant /\ mixed' = mixed
      /\ handler'.todo = Decrement(Name(b))
  BY StartFacts DEF Removes
<1>2. PlanOK'
  BY <1>1, DecrementPlan DEF LinkInv
<1> QED
  BY <1>1, <1>2, OwnUntouched DEF OwnInv

\* The next host call takes place, and the rest is left to do.
LEMMA StepHost ==
  ASSUME LinkInv, Step, NEW c, c = Head(handler.todo)
  PROVE  /\ HostCall(c) /\ handler'.todo = Tail(handler.todo) /\ handler'.path = handler.path
         /\ handler'.shows = (IF Shares(c) THEN Content(c.from) ELSE handler.shows)
         /\ Current' = Current /\ handler.path \in Inters
         /\ mixed' = mixed \cup (IF Shares(c) THEN Mixing(c) ELSE {})
         /\ meant' = (IF NewName(c) THEN [meant EXCEPT ![c.to[1]] = handler.shows] ELSE meant)
         /\ NewName(c) => \E b \in Names : c.to = Name(b)
<1>1. /\ HostCall(c) /\ handler'.todo = Tail(handler.todo) /\ handler'.path = handler.path
      /\ handler'.shows = (IF Shares(c) THEN Content(c.from) ELSE handler.shows)
      /\ Current' = Current /\ handler.path \in Inters /\ handler # NoHandler
  BY StepFacts
<1>2. /\ mixed' = mixed \cup (IF Shares(c) THEN Mixing(c) ELSE {})
      /\ meant' = (IF NewName(c) THEN [meant EXCEPT ![c.to[1]] = handler.shows] ELSE meant)
  BY DEF Step
<1>3. NewName(c) => \E b \in Names : c.to = Name(b)
  BY <1>1 DEF NewName, LinkInv, HandlerOK, CallsOK, Current
<1> QED
  BY <1>1, <1>2, <1>3

\* The file at a final path is given a new count.
LEMMA OwnRecount ==
  ASSUME LinkInv, OwnInv, Step, NEW i \in Inters, NEW n \in 1 .. MaxCount, NEW m \in 1 .. MaxCount,
         n # m, link[i] = Final(i, n),
         Head(handler.todo) = Do("rename", Final(i, n), Final(i, m))
  PROVE  /\ NamesOwn' /\ OfNames(i, Final(i, m))'
         /\ OfNew(i, Final(i, n)) => OfNew(i, Final(i, m))'
<1> DEFINE c == Head(handler.todo)
           x == Final(i, n)
           y == Final(i, m)
<1>1. c.do = "rename" /\ c.from = x /\ c.to = y
  BY DoFacts
<1>2. /\ x \in Paths /\ y \in Paths /\ x # y
      /\ \A a \in Names : Name(a) \in Paths /\ x # Name(a) /\ y # Name(a)
      /\ \A k \in Inters : k \in Paths /\ x # k /\ y # k
      /\ \A k \in Inters, l \in 1 .. MaxCount :
           Final(k, l) \in Paths /\ (k # i => Final(k, l) # x /\ Final(k, l) # y)
  BY PathFacts
<1>3. ~ Shares(c)
  BY <1>1, <1>2 DEF Shares
<1> HIDE DEF c, x, y
<1>4. HostCall(c) /\ meant' = meant /\ mixed' = mixed /\ handler'.shows = handler.shows
  BY <1>1, <1>2, <1>3, StepHost DEF c
<1>5. /\ \A p \in Paths : p # x /\ p # y => data'[p] = data[p] /\ link'[p] = link[p]
      /\ data'[y] = data[x] /\ link'[y] = link[x] /\ data'[x] = NoFile /\ link'[x] = NoPath
  BY <1>1, <1>2, <1>4 DEF HostCall, Rename, Moved, LinkInv, LinkTypeOK
<1>6. /\ \A k \in Inters : link'[k] = link[k] /\ NamesOf(k)' = NamesOf(k)
  BY <1>2, <1>5 DEF NamesOf
<1>7. LinksOK /\ NamesOwn
  BY DEF LinkInv, OwnInv
<1>8. ASSUME NEW k \in Inters, k # i, link'[k] # NoPath PROVE OfNames(k, link[k])'
  <2>1. SameOwn(k)
    BY <1>2, <1>4, <1>5, <1>6, <1>8 DEF SameOwn
  <2> QED
    BY <1>6, <1>7, <1>8, <2>1, OwnKept
<1>9. OfNames(i, x)'
  BY <1>5 DEF OfNames, Own
<1>10. NamesOwn'
  BY <1>6, <1>8, <1>9 DEF NamesOwn, x
<1>11. \A f : Own(x, f) => Own(y, f)'
  BY <1>5 DEF Own
<1>12. OfNames(i, x) /\ (OfNames(i, x) => OfNames(i, y)')
  <2>1. OfNames(i, x)
    BY <1>2, <1>7, PathFacts DEF NamesOwn, x
  <2> QED
    BY <1>4, <1>6, <1>11, <2>1 DEF OfNames
<1>13. OfNew(i, x) => OfNew(i, y)'
  BY <1>4, <1>11 DEF OfNew
<1> QED
  BY <1>10, <1>12, <1>13 DEF x, y

\* An intermediate or a final path is removed.
LEMMA OwnUnlinkOf ==
  ASSUME LinkInv, OwnInv, Step, NEW i \in Inters, NEW n \in 1 .. MaxCount,
         NEW x, x = i \/ x = Final(i, n), Head(handler.todo) = Do("unlink", NoPath, x)
  PROVE  /\ NamesOwn' /\ link'[x] = NoPath
         /\ \A k \in Inters, m \in 1 .. MaxCount :
              /\ OfNames(k, Final(k, m)) => OfNames(k, Final(k, m))'
              /\ OfNew(k, Final(k, m)) => OfNew(k, Final(k, m))'
<1> DEFINE c == Head(handler.todo)
<1>1. c.do = "unlink" /\ c.to = x /\ ~ Shares(c)
  BY DoFacts DEF Shares
<1>2. /\ x \in Paths /\ \A a \in Names : Name(a) \in Paths /\ x # Name(a)
      /\ \A k \in Inters : k \in Paths /\ k # NoPath
      /\ \A k \in Inters, m \in 1 .. MaxCount : Final(k, m) \in Paths
  BY PathFacts
<1> HIDE DEF c
<1>3. HostCall(c) /\ meant' = meant /\ mixed' = mixed /\ handler'.shows = handler.shows
  BY <1>1, <1>2, StepHost DEF c
<1>4. /\ \A p \in Paths : p # x => data'[p] = data[p] /\ link'[p] = link[p]
      /\ data'[x] = NoFile /\ link'[x] = NoPath
  BY <1>1, <1>2, <1>3 DEF HostCall, Unlink, LinkInv, LinkTypeOK
<1>5. \A p \in Paths : \A f : Own(p, f) => Own(p, f)'
  BY <1>4 DEF Own
<1>6. \A k \in Inters : NamesOf(k)' = NamesOf(k)
  BY <1>2, <1>4 DEF NamesOf
<1>7. \A k \in Inters, m \in 1 .. MaxCount :
        /\ OfNames(k, Final(k, m)) => OfNames(k, Final(k, m))'
        /\ OfNew(k, Final(k, m)) => OfNew(k, Final(k, m))'
  BY <1>2, <1>3, <1>5, <1>6 DEF OfNames, OfNew
<1>8. ASSUME NEW k \in Inters, link'[k] # NoPath PROVE OfNames(k, link[k])'
  <2>1. link'[k] = link[k]
    BY <1>2, <1>4, <1>8
  <2>2. PICK m \in 1 .. MaxCount : link[k] = Final(k, m)
    BY <1>8, <2>1 DEF LinkInv, LinksOK
  <2>3. OfNames(k, Final(k, m))'
    BY <1>7, <1>8, <2>1, <2>2 DEF OwnInv, NamesOwn
  <2> QED
    BY <2>1, <2>2, <2>3
<1> QED
  BY <1>4, <1>7, <1>8 DEF NamesOwn

\* An intermediate path is made to lead to a final path.
LEMMA OwnInter ==
  ASSUME LinkInv, OwnInv, Step, NEW i \in Inters, NEW n \in 1 .. MaxCount, OfNames(i, Final(i, n)),
         Head(handler.todo) = Do("symlink", Final(i, n), i)
  PROVE  /\ NamesOwn' /\ link'[i] = Final(i, n)
         /\ OfNew(i, Final(i, n)) => OfNew(i, Final(i, n))'
         /\ \A a \in Names : OfMoved(i, Final(i, n), a) => OfMoved(i, Final(i, n), a)'
<1> DEFINE c == Head(handler.todo)
           y == Final(i, n)
<1>1. c.do = "symlink" /\ c.from = y /\ c.to = i /\ ~ Shares(c)
  BY DoFacts DEF Shares
<1>2. /\ i \in Paths /\ y # i
      /\ \A a \in Names : Name(a) \in Paths /\ i # Name(a)
      /\ \A k \in Inters, m \in 1 .. MaxCount : Final(k, m) \in Paths /\ Final(k, m) # i
      /\ \A k \in Inters : k \in Paths
  BY PathFacts
<1> HIDE DEF c, y
<1>3. HostCall(c) /\ meant' = meant /\ mixed' = mixed /\ handler'.shows = handler.shows
  BY <1>1, <1>2, StepHost DEF c
<1>4. /\ data' = data /\ link'[i] = y /\ \A p \in Paths : p # i => link'[p] = link[p]
  BY <1>1, <1>2, <1>3 DEF HostCall, Symlink, LinkInv, LinkTypeOK
<1>5. \A k \in Inters : NamesOf(k)' = NamesOf(k)
  BY <1>2, <1>4 DEF NamesOf
<1>6. ASSUME NEW k \in Inters PROVE SameOwn(k)
  BY <1>2, <1>3, <1>4, <1>5 DEF SameOwn
<1>7. /\ OfNames(i, y)' /\ (OfNew(i, y) => OfNew(i, y)') /\ \A f : Own(y, f) => Own(y, f)'
  BY <1>6, OwnTransfers DEF y
<1>8. NamesOwn'
  <2>1. ASSUME NEW k \in Inters, k # i, link'[k] # NoPath PROVE OfNames(k, link[k])'
    BY <1>2, <1>4, <1>6, <2>1, OwnKept DEF LinkInv, OwnInv
  <2> QED
    BY <1>4, <1>7, <2>1 DEF NamesOwn
<1>9. ASSUME NEW a \in Names, OfMoved(i, y, a) PROVE OfMoved(i, y, a)'
  BY <1>2, <1>3, <1>4, <1>7, <1>9 DEF OfMoved, Exists
<1> QED
  BY <1>4, <1>7, <1>8, <1>9 DEF y

\* The file of a name is moved to a final path.
LEMMA OwnShare ==
  ASSUME LinkInv, OwnInv, Step, NEW i, i = handler.path, NEW a \in Names, Current.op = "link",
         Head(handler.todo) = Do("rename", Name(a), Final(i, 2))
  PROVE  NamesOwn' /\ OfMoved(i, Final(i, 2), a)' /\ (i \in mixed' \/ NamesOf(i)' = {})
<1> DEFINE c == Head(handler.todo)
           x == Name(a)
           y == Final(i, 2)
<1>1. i \in Inters /\ 2 \in 1 .. MaxCount
  BY StepHost, LinkAssumption
<1>2. c.do = "rename" /\ c.from = x /\ c.to = y /\ Shares(c)
  BY DoFacts DEF Shares
<1>3. /\ x \in Paths /\ y \in Paths /\ x # y
      /\ \A b \in Names : Name(b) \in Paths /\ y # Name(b) /\ (b # a => Name(b) # x)
      /\ \A k \in Inters : k \in Paths /\ x # k /\ y # k /\ k # NoPath
      /\ \A k \in Inters, l \in 1 .. MaxCount :
           Final(k, l) \in Paths /\ Final(k, l) # x /\ (k # i => Final(k, l) # y)
  BY <1>1, PathFacts
<1> HIDE DEF c, x, y
<1>4. /\ HostCall(c) /\ meant' = meant /\ mixed' = mixed \cup Mixing(c)
      /\ handler'.shows = Content(x)
  BY <1>2, <1>3, StepHost DEF c
<1>5. /\ Exists(x)
      /\ \A p \in Paths : p # x /\ p # y => data'[p] = data[p] /\ link'[p] = link[p]
      /\ data'[y] = data[x] /\ link'[y] = link[x] /\ data'[x] = NoFile /\ link'[x] = NoPath
  BY <1>2, <1>3, <1>4 DEF HostCall, Rename, Moved, LinkInv, LinkTypeOK
<1>6. \A k \in Inters : link'[k] = link[k] /\ NamesOf(k)' \subseteq NamesOf(k)
  BY <1>3, <1>5 DEF NamesOf, x
<1>7. i \in mixed' \/ (link[x] = NoPath /\ NamesOf(i) = {})
  BY <1>2, <1>4 DEF Mixing, NamesOf
<1>8. i \in mixed' \/ NamesOf(i)' = {}
  BY <1>1, <1>6, <1>7
<1>9. ASSUME NEW k \in Inters, link'[k] # NoPath PROVE OfNames(k, link[k])'
  <2>1. CASE k = i
    BY <1>8, <2>1 DEF OfNames
  <2>2. CASE k # i
    <3>1. PICK m \in 1 .. MaxCount : link[k] = Final(k, m)
      BY <1>6, <1>9 DEF LinkInv, LinksOK
    <3>2. OfNames(k, Final(k, m))
      BY <1>6, <1>9, <3>1 DEF OwnInv, NamesOwn
    <3>3. \A f : Own(Final(k, m), f) => Own(Final(k, m), f)'
      BY <1>3, <1>5, <2>2 DEF Own
    <3>4. OfNames(k, Final(k, m))'
      BY <1>4, <1>6, <3>2, <3>3 DEF OfNames
    <3> QED
      BY <1>6, <3>1, <3>4
  <2> QED
    BY <2>1, <2>2
<1>10. OfMoved(i, y, a)'
  <2>1. CASE i \in mixed'
    BY <2>1 DEF OfMoved
  <2>2. CASE link[x] = NoPath
    <3>1. data[x] # NoFile
      BY <1>5, <2>2 DEF Exists
    <3>2. meant[a] = data[x] /\ Content(x) = data[x]
      BY <2>2, <3>1 DEF LinkInv, PlacesOK, Content, Target, x
    <3> QED
      BY <1>4, <1>5, <2>2, <3>2 DEF OfMoved, Own, Exists, x
  <2> QED
    BY <1>7, <2>1, <2>2
<1> QED
  BY <1>8, <1>9, <1>10 DEF NamesOwn, y

\* A name is made a link to an intermediate path.
LEMMA OwnName ==
  ASSUME LinkInv, OwnInv, Step, NEW i, i = handler.path, NEW b \in Names,
         Head(handler.todo) = Do("symlink", i, Name(b)),
         link[i] # NoPath =>
           i \in mixed \/ (Own(link[i], handler.shows) /\ meant'[b] = handler.shows)
  PROVE  /\ NamesOwn' /\ link'[i] = link[i]
         /\ link[i] # NoPath => OfNew(i, link[i])'
<1> DEFINE c == Head(handler.todo)
           x == Name(b)
<1>1. i \in Inters
  BY StepHost
<1>2. c.do = "symlink" /\ c.from = i /\ c.to = x /\ ~ Shares(c)
  BY DoFacts DEF Shares
<1>3. /\ x \in Paths /\ x[1] = b
      /\ \A a \in Names : Name(a) \in Paths /\ (a # b => Name(a) # x)
      /\ \A k \in Inters : k \in Paths /\ k # x /\ k # NoPath
      /\ \A k \in Inters, m \in 1 .. MaxCount : Final(k, m) \in Paths /\ Final(k, m) # x
  BY PathFacts
<1> HIDE DEF c, x
<1>4. /\ HostCall(c) /\ mixed' = mixed /\ handler'.shows = handler.shows
      /\ meant' = (IF NewName(c) THEN [meant EXCEPT ![b] = handler.shows] ELSE meant)
  BY <1>2, <1>3, StepHost DEF c
<1>5. /\ data' = data /\ link'[x] = i /\ \A p \in Paths : p # x => link'[p] = link[p]
  BY <1>2, <1>3, <1>4 DEF HostCall, Symlink, LinkInv, LinkTypeOK
<1>6. \A a \in Names : a # b => meant'[a] = meant[a]
  BY <1>4 DEF LinkInv, LinkTypeOK
<1>7. \A k \in Inters : link'[k] = link[k]
  BY <1>3, <1>5
<1>8. ASSUME NEW k \in Inters, NEW m \in 1 .. MaxCount, NEW f, Own(Final(k, m), f)
      PROVE  Own(Final(k, m), f)'
  BY <1>3, <1>5, <1>8 DEF Own
<1>9. ASSUME link[i] # NoPath, i \notin mixed
      PROVE  Own(link[i], handler.shows)'
  <2>1. PICK m \in 1 .. MaxCount : link[i] = Final(i, m)
    BY <1>1, <1>9 DEF LinkInv, LinksOK
  <2> QED
    BY <1>1, <1>4, <1>7, <1>8, <1>9, <2>1
<1>10. ASSUME NEW k \in Inters, link'[k] # NoPath PROVE OfNames(k, link[k])'
  <2>1. PICK m \in 1 .. MaxCount : link[k] = Final(k, m)
    BY <1>7, <1>10 DEF LinkInv, LinksOK
  <2>2. OfNames(k, Final(k, m))
    BY <1>7, <1>10, <2>1 DEF OwnInv, NamesOwn
  <2>3. ASSUME k \notin mixed, NEW a \in NamesOf(k)' PROVE Own(Final(k, m), meant[a])'
    <3>1. CASE a = b
      <4>1. k = i
        BY <1>5, <2>3, <3>1 DEF NamesOf, x
      <4>2. meant'[a] = handler.shows /\ handler'.shows = handler.shows
        BY <1>4, <1>7, <1>10, <2>3, <3>1, <4>1
      <4>3. Own(Final(k, m), handler.shows)'
        BY <1>7, <1>9, <1>10, <2>1, <2>3, <4>1
      <4> QED
        BY <4>2, <4>3 DEF Own
    <3>2. CASE a # b
      <4>1. a \in NamesOf(k) /\ meant'[a] = meant[a]
        BY <1>3, <1>5, <1>6, <2>3, <3>2 DEF NamesOf
      <4>2. Own(Final(k, m), meant[a])
        BY <2>2, <2>3, <4>1 DEF OfNames
      <4> QED
        BY <1>3, <1>5, <4>1, <4>2 DEF Own
    <3> QED
      BY <3>1, <3>2
  <2>4. OfNames(k, Final(k, m))'
    BY <1>4, <2>3 DEF OfNames
  <2> QED
    BY <1>7, <2>1, <2>4
<1>11. link[i] # NoPath => OfNew(i, link[i])'
  BY <1>1, <1>4, <1>7, <1>9 DEF OfNew
<1> QED
  BY <1>1, <1>7, <1>10, <1>11 DEF NamesOwn

\* The calls of move_and_symlink_path(), one after the other.
LEMMA OwnLinkStep ==
  ASSUME LinkInv, OwnInv, Step, NEW i, i = handler.path, NEW q, q = Current.to,
         Current.op = "link", LinkPlan(i, q)
  PROVE  NamesOwn' /\ (handler'.todo = <<>> \/ LinkPlan(i, q)')
<1>1. /\ i \in Inters /\ handler'.todo = Tail(handler.todo) /\ 2 \in 1 .. MaxCount
      /\ \E b \in Names : q = Name(b)
  <2>1. handler # NoHandler
    BY PathOfHandler DEF LinkInv, Step
  <2> QED
    BY <2>1, StepHost, LinkAssumption DEF LinkInv, HandlerOK, CallsOK, Current
<1>2. ASSUME NEW a \in Names,
             handler.todo = <<Do("rename", Name(a), Final(i, 2)), Do("symlink", Final(i, 2), i),
                              Do("symlink", i, Name(a)), Do("symlink", i, q)>>
      PROVE  NamesOwn' /\ LinkPlan(i, q)'
  <2>1. /\ Head(handler.todo) = Do("rename", Name(a), Final(i, 2))
        /\ handler'.todo = <<Do("symlink", Final(i, 2), i), Do("symlink", i, Name(a)),
                             Do("symlink", i, q)>>
    BY <1>1, <1>2, Rest
  <2>2. NamesOwn' /\ OfMoved(i, Final(i, 2), a)' /\ (i \in mixed' \/ NamesOf(i)' = {})
    BY <2>1, OwnShare
  <2> QED
    BY <2>1, <2>2 DEF LinkPlan
<1>3. ASSUME NEW a \in Names, OfMoved(i, Final(i, 2), a), i \in mixed \/ NamesOf(i) = {},
             handler.todo = <<Do("symlink", Final(i, 2), i), Do("symlink", i, Name(a)),
                              Do("symlink", i, q)>>
      PROVE  NamesOwn' /\ LinkPlan(i, q)'
  <2>1. /\ Head(handler.todo) = Do("symlink", Final(i, 2), i)
        /\ handler'.todo = <<Do("symlink", i, Name(a)), Do("symlink", i, q)>>
    BY <1>1, <1>3, Rest
  <2>2. OfNames(i, Final(i, 2))
    BY <1>3 DEF OfNames
  <2>3. NamesOwn' /\ link'[i] = Final(i, 2) /\ OfMoved(i, Final(i, 2), a)'
    BY <1>1, <1>3, <2>1, <2>2, OwnInter
  <2>4. link'[i] # NoPath /\ OfMoved(i, link[i], a)'
    BY <1>1, <2>3, PathFacts
  <2> QED
    BY <2>1, <2>3, <2>4 DEF LinkPlan
<1>4. ASSUME NEW a \in Names, link[i] # NoPath, OfMoved(i, link[i], a),
             handler.todo = <<Do("symlink", i, Name(a)), Do("symlink", i, q)>>
      PROVE  NamesOwn' /\ LinkPlan(i, q)'
  <2>1. /\ Head(handler.todo) = Do("symlink", i, Name(a)) /\ Len(handler.todo) = 2
        /\ handler'.todo = <<Do("symlink", i, q)>>
    BY <1>1, <1>4, Rest
  <2>2. meant' = meant
    BY <2>1, StepHost DEF NewName
  <2>3. NamesOwn' /\ link'[i] = link[i] /\ OfNew(i, link[i])'
    BY <1>4, <2>1, <2>2, OwnName DEF OfMoved
  <2> QED
    BY <2>1, <2>3 DEF LinkPlan
<1>5. ASSUME NEW n \in 1 .. MaxCount, NEW m \in 1 .. MaxCount,
             handler.todo = <<Do("rename", Final(i, n), Final(i, m)), Do("unlink", NoPath, i),
                              Do("symlink", Final(i, m), i), Do("symlink", i, q)>>,
             n # m, link[i] = Final(i, n), OfNew(i, Final(i, n))
      PROVE  NamesOwn' /\ LinkPlan(i, q)'
  <2>1. /\ Head(handler.todo) = Do("rename", Final(i, n), Final(i, m))
        /\ handler'.todo = <<Do("unlink", NoPath, i), Do("symlink", Final(i, m), i),
                             Do("symlink", i, q)>>
    BY <1>1, <1>5, Rest
  <2>2. NamesOwn' /\ OfNames(i, Final(i, m))' /\ OfNew(i, Final(i, m))'
    BY <1>1, <1>5, <2>1, OwnRecount
  <2> QED
    BY <2>1, <2>2 DEF LinkPlan
<1>6. ASSUME NEW m \in 1 .. MaxCount, OfNew(i, Final(i, m)), OfNames(i, Final(i, m)),
             handler.todo = <<Do("unlink", NoPath, i), Do("symlink", Final(i, m), i),
                              Do("symlink", i, q)>>
      PROVE  NamesOwn' /\ LinkPlan(i, q)'
  <2>1. /\ Head(handler.todo) = Do("unlink", NoPath, i)
        /\ handler'.todo = <<Do("symlink", Final(i, m), i), Do("symlink", i, q)>>
    BY <1>1, <1>6, Rest
  <2>2. NamesOwn' /\ OfNames(i, Final(i, m))' /\ OfNew(i, Final(i, m))'
    BY <1>1, <1>6, <2>1, OwnUnlinkOf
  <2> QED
    BY <2>1, <2>2 DEF LinkPlan
<1>7. ASSUME NEW m \in 1 .. MaxCount, OfNew(i, Final(i, m)), OfNames(i, Final(i, m)),
             handler.todo = <<Do("symlink", Final(i, m), i), Do("symlink", i, q)>>
      PROVE  NamesOwn' /\ LinkPlan(i, q)'
  <2>1. /\ Head(handler.todo) = Do("symlink", Final(i, m), i)
        /\ handler'.todo = <<Do("symlink", i, q)>>
    BY <1>1, <1>7, Rest
  <2>2. NamesOwn' /\ link'[i] = Final(i, m) /\ OfNew(i, Final(i, m))'
    BY <1>1, <1>7, <2>1, OwnInter
  <2>3. OfNew(i, link[i])'
    BY <2>2
  <2> QED
    BY <2>1, <2>2, <2>3 DEF LinkPlan
<1>8. ASSUME handler.todo = <<Do("symlink", i, q)>>, link[i] # NoPath => OfNew(i, link[i])
      PROVE  NamesOwn' /\ handler'.todo = <<>>
  <2>1. PICK b \in Names : q = Name(b)
    BY <1>1
  <2>2. Head(handler.todo) = Do("symlink", i, q) /\ Len(handler.todo) = 1 /\ handler'.todo = <<>>
    BY <1>1, <1>8, Rest
  <2>3. NewName(Head(handler.todo)) /\ Head(handler.todo).to = Name(b) /\ Name(b)[1] = b
    BY <2>1, <2>2, DoFacts, PathFacts DEF NewName
  <2>4. meant' = [meant EXCEPT ![b] = handler.shows]
    BY <2>3, StepHost
  <2>5. meant'[b] = handler.shows
    BY <2>4 DEF LinkInv, LinkTypeOK
  <2> QED
    BY <1>8, <2>1, <2>2, <2>5, OwnName DEF OfNew
<1> QED
  BY <1>2, <1>3, <1>4, <1>5, <1>6, <1>7, <1>8 DEF LinkPlan

\* The calls of decrement_link_count(), one after the other.
LEMMA OwnLowerStep ==
  ASSUME LinkInv, OwnInv, Step, NEW i \in Inters, LowerPlan(i)
  PROVE  NamesOwn' /\ (handler'.todo = <<>> \/ LowerPlan(i)')
<1>1. handler'.todo = Tail(handler.todo)
  BY StepHost
<1>2. ASSUME NEW n \in 1 .. MaxCount, NEW m \in 1 .. MaxCount, n # m, link[i] = Final(i, n),
             handler.todo = <<Do("rename", Final(i, n), Final(i, m)), Do("unlink", NoPath, i),
                              Do("symlink", Final(i, m), i)>>
      PROVE  NamesOwn' /\ LowerPlan(i)'
  <2>1. /\ Head(handler.todo) = Do("rename", Final(i, n), Final(i, m))
        /\ handler'.todo = <<Do("unlink", NoPath, i), Do("symlink", Final(i, m), i)>>
    BY <1>1, <1>2, Rest
  <2>2. NamesOwn' /\ OfNames(i, Final(i, m))'
    BY <1>2, <2>1, OwnRecount
  <2> QED
    BY <2>1, <2>2 DEF LowerPlan
<1>3. ASSUME NEW m \in 1 .. MaxCount, OfNames(i, Final(i, m)),
             handler.todo = <<Do("unlink", NoPath, i), Do("symlink", Final(i, m), i)>>
      PROVE  NamesOwn' /\ LowerPlan(i)'
  <2>1. /\ Head(handler.todo) = Do("unlink", NoPath, i)
        /\ handler'.todo = <<Do("symlink", Final(i, m), i)>>
    BY <1>1, <1>3, Rest
  <2>2. NamesOwn' /\ OfNames(i, Final(i, m))'
    BY <1>3, <2>1, OwnUnlinkOf
  <2> QED
    BY <2>1, <2>2 DEF LowerPlan
<1>4. ASSUME NEW m \in 1 .. MaxCount, OfNames(i, Final(i, m)),
             handler.todo = <<Do("symlink", Final(i, m), i)>>
      PROVE  NamesOwn' /\ handler'.todo = <<>>
  BY <1>1, <1>4, Rest, OwnInter
<1>5. ASSUME NEW n \in 1 .. MaxCount,
             handler.todo = <<Do("unlink", NoPath, i), Do("unlink", NoPath, Final(i, n))>>
      PROVE  NamesOwn' /\ LowerPlan(i)'
  <2>1. /\ Head(handler.todo) = Do("unlink", NoPath, i)
        /\ handler'.todo = <<Do("unlink", NoPath, Final(i, n))>>
    BY <1>1, <1>5, Rest
  <2>2. NamesOwn'
    BY <1>5, <2>1, OwnUnlinkOf
  <2> QED
    BY <2>1, <2>2 DEF LowerPlan
<1>6. ASSUME NEW n \in 1 .. MaxCount, handler.todo = <<Do("unlink", NoPath, Final(i, n))>>
      PROVE  NamesOwn' /\ handler'.todo = <<>>
  BY <1>1, <1>6, Rest, OwnUnlinkOf
<1> QED
  BY <1>2, <1>3, <1>4, <1>5, <1>6 DEF LowerPlan

\* The next host call of a handler, whatever it is.
LEMMA OwnStep ==
  ASSUME LinkInv, OwnInv, Step
  PROVE  OwnInv'
<1>1. Current' = Current /\ handler'.path = handler.path
  BY StepHost
<1>2. ASSUME NEW i \in Inters, Current.op = "link", i = handler.path, LinkPlan(i, Current.to)
      PROVE  OwnInv'
  BY <1>1, <1>2, OwnLinkStep DEF OwnInv, PlanOK
<1>3. ASSUME NEW i \in Inters, LowerPlan(i) PROVE OwnInv'
  BY <1>3, OwnLowerStep DEF OwnInv, PlanOK
<1> QED
  BY <1>2, <1>3 DEF OwnInv, PlanOK, Step

\* Where no two files met, whatever happens next.
LEMMA NextKeepsOwn ==
  ASSUME LinkInv, OwnInv, LinkNext
  PROVE  OwnInv'
<1>1. ASSUME NEW t \in Tracees, NEW a \in Names, NEW f \in Files, Create(t, a, f) PROVE OwnInv'
  BY <1>1, OwnCreate
<1>2. ASSUME NEW t \in Tracees, NEW a \in Names, Removes(t, "unlink", Name(a), Name(a)) PROVE OwnInv'
  BY <1>2, OwnRemoves
<1>3. ASSUME NEW t \in Tracees, NEW a \in Names, NEW b \in Names, Removes(t, "rename", Name(a), Name(b))
      PROVE  OwnInv'
  BY <1>3, OwnRemoves
<1>4. ASSUME NEW t \in Tracees, NEW a \in Names, NEW b \in Names, Link(t, Name(a), Name(b))
      PROVE  OwnInv'
  BY <1>4, OwnLink
<1>5. ASSUME NEW t \in Tracees, KernelUnlink(t) PROVE OwnInv'
  BY <1>5, OwnUnlink
<1>6. ASSUME NEW t \in Tracees, KernelRename(t) PROVE OwnInv'
  BY <1>6, OwnRename
<1>7. HostCallFails => OwnInv'
  BY OwnEnds DEF HostCallFails, Fails, hostVars
<1>8. HandlerEnds => OwnInv'
  BY OwnEnds DEF HandlerEnds, hostVars, history
<1>9. Killed => OwnInv'
  BY OwnEnds DEF Killed, hostVars
<1> QED
  BY <1>1, <1>2, <1>3, <1>4, <1>5, <1>6, <1>7, <1>8, <1>9, OwnStep, OwnNewNameFails DEF LinkNext

(***************************************************************************)
(* Every step keeps the invariant, and the invariant gives the properties. *)
(***************************************************************************)

\* Whatever happens next, the paths that were not mishandled are in order.
LEMMA NextKeepsInv ==
  ASSUME IsFiniteSet(Names), LinkInv, LinkNext
  PROVE  LinkInv'
<1>1. ASSUME NEW t \in Tracees, NEW a \in Names, NEW f \in Files, Create(t, a, f) PROVE LinkInv'
  BY <1>1, CreateKeepsInv
<1>2. ASSUME NEW t \in Tracees, NEW a \in Names, Removes(t, "unlink", Name(a), Name(a)) PROVE LinkInv'
  BY <1>2, RemovesKeepsInv
<1>3. ASSUME NEW t \in Tracees, NEW a \in Names, NEW b \in Names, Removes(t, "rename", Name(a), Name(b))
      PROVE  LinkInv'
  BY <1>3, RemovesKeepsInv
<1>4. ASSUME NEW t \in Tracees, NEW a \in Names, NEW b \in Names, Link(t, Name(a), Name(b))
      PROVE  LinkInv'
  BY <1>4, FirstLinkKeepsInv, NextLinkKeepsInv DEF Link
<1>5. ASSUME NEW t \in Tracees, KernelUnlink(t) PROVE LinkInv'
  BY <1>5, UnlinkKeepsInv
<1>6. ASSUME NEW t \in Tracees, KernelRename(t) PROVE LinkInv'
  BY <1>6, RenameNothing, RenameMoves
<1>7. Step => LinkInv'
  BY StepKeepsInv
<1>8. NewNameFails => LinkInv'
  BY NewNameFailsKeepsInv
<1>9. HostCallFails => LinkInv'
  BY FailKeepsInv
<1>10. HandlerEnds => LinkInv'
  BY EndKeepsInv
<1>11. Killed => LinkInv'
  BY KilledKeepsInv
<1> QED
  BY <1>1, <1>2, <1>3, <1>4, <1>5, <1>6, <1>7, <1>8, <1>9, <1>10, <1>11 DEF LinkNext

\* Nothing happens.
LEMMA StutterKeepsInv ==
  ASSUME LinkInv, UNCHANGED vars
  PROVE  LinkInv'
<1>1. /\ data' = data /\ link' = link /\ call' = call /\ handler' = handler /\ meant' = meant
      /\ home' = home /\ broken' = broken /\ mixed' = mixed
  BY DEF vars, hostVars, history
<1>2. LinkTypeOK' /\ PlacesOK' /\ LinksOK' /\ CallsOK'
  BY <1>1 DEF LinkInv, LinkTypeOK, PlacesOK, LinksOK, CallsOK
<1>3. HandlerOK'
  BY <1>1, HandlerStays DEF LinkInv, Current
<1>4. MeantOK'
  BY <1>1 DEF LinkInv, MeantOK, MovedAway
<1>5. ASSUME NEW i \in Inters \ broken' PROVE PathOK(i)'
  <2>1. LoweredOK(i)' /\ PathOK(i)
    BY <1>1, <1>5 DEF LinkInv, PathOK, LoweredOK
  <2>2. Kept(i)' = Kept(i)
    BY <1>1 DEF Kept, NamesOf, Takes
  <2>3. SameStore(i) /\ SameKept(i) /\ SameWork(i)
    BY <1>1, <2>2 DEF SameStore, SameKept, SameWork, Current, Exists
  <2> QED
    BY <1>1, <1>5, <2>1, <2>3, PathTransfers
<1> QED
  BY <1>2, <1>3, <1>4, <1>5 DEF LinkInv

\* The invariant of the whole.
LEMMA LinkInvariant ==
  ASSUME IsFiniteSet(Names)
  PROVE  LinkSpec => []LinkInv
<1>1. LinkInit => LinkInv
  BY LinkInitInv
<1>2. LinkInv /\ [LinkNext]_vars => LinkInv'
  BY NextKeepsInv, StutterKeepsInv
<1> QED
  BY <1>1, <1>2, PTL DEF LinkSpec

\* At no time does a path at which no two files met hold another file.
LEMMA OwnInvariant ==
  ASSUME IsFiniteSet(Names)
  PROVE  LinkSpec => []OwnInv
<1>1. LinkInit => OwnInv
  BY DEF LinkInit, OwnInv, NamesOwn, PlanOK, NoHandler, Inters, Paths
<1>2. LinkInv /\ OwnInv /\ [LinkNext]_vars => OwnInv'
  BY NextKeepsOwn, OwnStutters
<1>3. LinkSpec => []LinkInv
  BY LinkInvariant
<1> QED
  BY <1>1, <1>2, <1>3, PTL DEF LinkSpec

\* Between two handlers, a linked path that was not mishandled has one final path, that of
\* as many names as are kept, which all show its file.
LEMMA QuietPath ==
  ASSUME LinkInv, Quiet, NEW i \in Inters \ broken
  PROVE  /\ LoweredOK(i) /\ Sound(i)
         /\ link[i] # NoPath => \E n \in 1 .. MaxCount : Linked(i, n)
<1>1. LoweredOK(i) /\ Sound(i)
  BY PathBefore DEF Quiet
<1> QED
  BY <1>1 DEF Sound, Unlinked

\* The names of i are those kept and one for each count that was lowered.
LEMMA NamesCounted ==
  ASSUME IsFiniteSet(Names), IsFiniteSet(Tracees), LinkInv, NEW i \in Inters, LoweredOK(i)
  PROVE  /\ Cardinality(NamesOf(i)) =
              Cardinality(Kept(i)) + Cardinality({t \in Tracees : call[t].dec = i})
         /\ Cardinality(Kept(i)) \in Nat
         /\ Cardinality({t \in Tracees : call[t].dec = i}) \in Nat
<1> DEFINE D == {t \in Tracees : call[t].dec = i}
           T == NamesOf(i) \ Kept(i)
           m == [t \in D |-> call[t].to[1]]
<1>1. ASSUME NEW t \in D PROVE \E a \in T : call[t].to = Name(a) /\ m[t] = a
  <2>1. call[t] # NoCall
    BY PathFacts DEF NoCall
  <2>2. PICK a \in Names : call[t].to = Name(a)
    BY <2>1 DEF LinkInv, CallsOK
  <2>3. a \in NamesOf(i) /\ Takes(t, i, a)
    BY <2>2 DEF LoweredOK, NamesOf, Takes
  <2> QED
    BY <2>2, <2>3, PathFacts DEF Kept
<1>2. m \in [D -> T]
  BY <1>1
<1>3. \A t, u \in D : m[t] = m[u] => t = u
  BY <1>1 DEF LoweredOK
<1>4. \A a \in T : \E t \in D : m[t] = a
  <2>1. ASSUME NEW a \in T PROVE \E t \in D : m[t] = a
    <3>1. PICK t \in Tracees : call[t].dec = i /\ call[t].to = Name(a) /\ a \in Names
      BY <2>1 DEF Kept, NamesOf, Takes
    <3> QED
      BY <3>1, PathFacts
  <2> QED
    BY <2>1
<1>5. IsFiniteSet(D)
  <2>1. D \subseteq Tracees
    OBVIOUS
  <2> QED
    BY <2>1, FS_Subset
<1>6. NamesOf(i) \subseteq Names /\ Kept(i) \subseteq NamesOf(i)
  BY DEF Kept, NamesOf
<1>7. IsFiniteSet(Kept(i)) /\ IsFiniteSet(NamesOf(i)) /\ IsFiniteSet(T)
  BY <1>6, FS_Subset
<1> HIDE DEF D, T, m
<1>8. m \in Injection(D, T) /\ m \in Surjection(D, T)
  BY <1>2, <1>3, <1>4, Fun_IsInj, Fun_IsSurj
<1>9. Cardinality(T) = Cardinality(D)
  BY <1>5, <1>8, FS_Surjection
<1>10. Cardinality(NamesOf(i)) = Cardinality(Kept(i)) + Cardinality(T)
  <2>1. Kept(i) \cup T = NamesOf(i) /\ Kept(i) \cap T = {}
    BY <1>6 DEF T
  <2>2. Cardinality(Kept(i)) \in Nat /\ Cardinality(T) \in Nat /\ Cardinality({}) = 0
    BY <1>7, FS_CardinalityType, FS_EmptySet
  <2>3. Cardinality(Kept(i) \cup T) = Cardinality(Kept(i)) + Cardinality(T)
           - Cardinality(Kept(i) \cap T)
    BY <1>7, FS_Union
  <2>4. Cardinality(Kept(i) \cup T) = Cardinality(NamesOf(i)) /\ Cardinality(Kept(i) \cap T) = 0
    BY <2>1, <2>2
  <2> QED
    BY <2>2, <2>3, <2>4
<1> QED
  BY <1>5, <1>7, <1>9, <1>10, FS_CardinalityType DEF D

\* What is counted at a path is what is shown of its names.
LEMMA InvCountsNames ==
  ASSUME IsFiniteSet(Names), IsFiniteSet(Tracees), LinkInv
  PROVE  CountsNames
<1> SUFFICES ASSUME Quiet, NEW i \in Inters \ broken, link[i] # NoPath
             PROVE  /\ data[link[i]] # NoFile
                    /\ Nlink(i) + Cardinality({t \in Tracees : call[t].dec = i})
                         = Cardinality(NamesOf(i))
                    /\ \A a \in NamesOf(i) : Nlink(TranslatedPath(Name(a))) = Nlink(i)
  BY DEF CountsNames
<1>1. LoweredOK(i) /\ \E n \in 1 .. MaxCount : Linked(i, n)
  BY QuietPath
<1>2. PICK n \in 1 .. MaxCount : Linked(i, n)
  BY <1>1
<1>3. link[i] = Final(i, n) /\ data[Final(i, n)] # NoFile /\ Cardinality(Kept(i)) = n
  BY <1>2 DEF Linked, Stored, Shown
<1>4. /\ Count(i) = 0 /\ Count(Final(i, n)) = n /\ Final(i, n) \notin Inters /\ NoPath \notin Inters
      /\ Final(i, n) # NoPath /\ n > 0
  BY PathFacts
<1>5. link[Final(i, n)] = NoPath
  BY DEF LinkInv, LinksOK
<1>6. Nlink(i) = n
  BY <1>3, <1>4 DEF Nlink
<1>7. Nlink(Final(i, n)) = n
  BY <1>4, <1>5 DEF Nlink
<1>8. ASSUME NEW a \in NamesOf(i) PROVE TranslatedPath(Name(a)) = Final(i, n)
  BY <1>3, <1>8 DEF TranslatedPath, NamesOf
<1>9. Cardinality(NamesOf(i)) = n + Cardinality({t \in Tracees : call[t].dec = i})
  BY <1>1, <1>3, NamesCounted
<1> QED
  BY <1>3, <1>6, <1>7, <1>8, <1>9

\* A name is the file itself, or leads to the one final path of its file.
LEMMA SoundNamesShow ==
  ASSUME LinkInv, Quiet, NEW a \in Names, link[Name(a)] \notin broken,
         meant[a] = NoFile \/ Fine(meant[a]), Removing(Name(a)) = {}
  PROVE  Content(TranslatedPath(Name(a))) = meant[a]
<1>1. LinkTypeOK /\ PlacesOK /\ LinksOK /\ MeantOK
  BY DEF LinkInv
<1>2. Name(a) \in Paths /\ Name(a) # NoPath /\ NoPath \notin Inters
  BY PathFacts
<1>3. CASE link[Name(a)] # NoPath
  <2>1. PICK i \in Inters \ broken : link[Name(a)] = i
    BY <1>1, <1>3 DEF LinksOK
  <2>2. a \in Kept(i)
    BY <2>1, KeptName, PathFacts DEF Disturbed
  <2>3. PICK n \in 1 .. MaxCount : Linked(i, n)
    BY <2>2, QuietPath DEF Sound, Unlinked
  <2>4. link[i] = Final(i, n) /\ meant[a] = data[Final(i, n)] /\ Final(i, n) # NoPath
    BY <2>2, <2>3, PathFacts DEF Linked, Shown
  <2>5. TranslatedPath(Name(a)) = Final(i, n)
    BY <2>1, <2>4 DEF TranslatedPath
  <2>6. link[Final(i, n)] = NoPath
    BY <1>1, <2>1 DEF LinksOK
  <2> QED
    BY <2>4, <2>5, <2>6 DEF Content, Target
<1>4. CASE link[Name(a)] = NoPath
  <2>1. TranslatedPath(Name(a)) = Name(a) /\ Content(Name(a)) = data[Name(a)]
    BY <1>2, <1>4 DEF TranslatedPath, Content, Target
  <2>2. CASE data[Name(a)] # NoFile
    BY <1>1, <2>1, <2>2 DEF PlacesOK
  <2>3. CASE data[Name(a)] = NoFile
    <3>1. ASSUME meant[a] # NoFile PROVE FALSE
      <4>1. ~ MovedAway(a)
        BY DEF MovedAway, Quiet, NoHandler
      <4>2. home[meant[a]] \in broken
        BY <1>1, <1>4, <2>3, <3>1, <4>1 DEF MeantOK
      <4>3. home[meant[a]] # NoPath
        BY <1>1, <1>2, <4>2 DEF LinkTypeOK
      <4> QED
        BY <3>1, <4>2, <4>3 DEF Fine
    <3> QED
      BY <2>1, <2>3, <3>1
  <2> QED
    BY <2>2, <2>3
<1> QED
  BY <1>3, <1>4

\* A name shows what its path holds, or nothing.
LEMMA OwnNamesShow ==
  ASSUME LinkInv, OwnInv, NEW a \in Names, link[Name(a)] \notin mixed
  PROVE  Content(TranslatedPath(Name(a))) \in {meant[a], NoFile}
<1>1. PlacesOK /\ LinksOK /\ NamesOwn
  BY DEF LinkInv, OwnInv
<1>2. NoPath \notin Inters /\ \A i \in Inters : i # NoPath
  BY PathFacts
<1>3. CASE link[Name(a)] = NoPath
  <2>1. TranslatedPath(Name(a)) = Name(a) /\ Content(Name(a)) = data[Name(a)]
    BY <1>2, <1>3 DEF TranslatedPath, Content, Target
  <2> QED
    BY <1>1, <2>1 DEF PlacesOK
<1>4. ASSUME NEW i \in Inters, link[Name(a)] = i, link[i] = NoPath
      PROVE  Content(TranslatedPath(Name(a))) \in {meant[a], NoFile}
  <2>1. TranslatedPath(Name(a)) = Name(a) /\ Content(Name(a)) = data[i]
    BY <1>2, <1>4 DEF TranslatedPath, Content, Target
  <2> QED
    BY <1>1, <2>1 DEF PlacesOK
<1>5. ASSUME NEW i \in Inters, link[Name(a)] = i, link[i] # NoPath
      PROVE  Content(TranslatedPath(Name(a))) \in {meant[a], NoFile}
  <2>1. TranslatedPath(Name(a)) = link[i]
    BY <1>5 DEF TranslatedPath
  <2>2. Own(link[i], meant[a])
    BY <1>1, <1>5 DEF NamesOwn, OfNames, NamesOf
  <2> QED
    BY <2>1, <2>2 DEF Own, Content, Target
<1> QED
  BY <1>1, <1>3, <1>4, <1>5 DEF LinksOK

\* What a name shows, where its path was handled well and where it was not.
LEMMA InvNamesShowContent ==
  ASSUME LinkInv, OwnInv
  PROVE  NamesShowContent
<1> SUFFICES ASSUME Quiet, NEW a \in Names, Removing(Name(a)) = {},
                    Content(TranslatedPath(Name(a))) # meant[a]
             PROVE  /\ link[Name(a)] \in broken \/ (meant[a] # NoFile /\ ~ Fine(meant[a]))
                    /\ \/ Content(TranslatedPath(Name(a))) = NoFile
                       \/ link[Name(a)] \in mixed
  BY DEF NamesShowContent
<1> QED
  BY SoundNamesShow, OwnNamesShow

\* A file at a final path has a name that is kept.
LEMMA InvNothingLeaks ==
  ASSUME LinkInv
  PROVE  NothingLeaks
<1> SUFFICES ASSUME Quiet, NEW p \in Paths, data[p] # NoFile, Fine(data[p])
             PROVE  \E a \in Names : meant[a] = data[p]
  BY DEF NothingLeaks
<1>1. PlacesOK
  BY DEF LinkInv
<1>2. ASSUME NEW a \in Names, p = Name(a) PROVE \E b \in Names : meant[b] = data[p]
  BY <1>1, <1>2 DEF PlacesOK
<1>3. p \notin Inters
  BY <1>1 DEF PlacesOK
<1>4. ASSUME NEW i \in Inters, NEW m \in 1 .. MaxCount, p = Final(i, m)
      PROVE  \E b \in Names : meant[b] = data[p]
  <2>1. home[data[p]] = i /\ i # NoPath
    BY <1>1, <1>4, PathFacts DEF PlacesOK
  <2>2. i \in Inters \ broken
    BY <2>1 DEF Fine
  <2>3. PICK n \in 1 .. MaxCount : Linked(i, n)
    BY <1>4, <2>2, QuietPath DEF Sound, Unlinked, Bare
  <2>4. n = m /\ Cardinality(Kept(i)) = n /\ \A b \in Kept(i) : meant[b] = data[p]
    BY <1>4, <2>3 DEF Linked, Stored, Shown
  <2>5. Kept(i) # {}
    BY <2>4, FS_EmptySet
  <2>6. Kept(i) \subseteq Names
    BY DEF Kept, NamesOf
  <2> QED
    BY <2>4, <2>5, <2>6
<1> QED
  BY <1>2, <1>3, <1>4, PathFacts

(***************************************************************************)
(* Whatever links, unlinks and renames ran, the count that stat() shows of *)
(* a file of several names is their number, less those about to be removed *)
(* (decrement_link_count(), move_and_symlink_path()), between two handlers *)
(* and for the paths that were not mishandled.                             *)
(***************************************************************************)
THEOREM LinksAreCounted ==
  ASSUME IsFiniteSet(Names), IsFiniteSet(Tracees)
  PROVE  LinkSpec => []CountsNames
<1>1. LinkSpec => []LinkInv
  BY LinkInvariant
<1>2. LinkInv => CountsNames
  BY InvCountsNames
<1> QED
  BY <1>1, <1>2, PTL

(***************************************************************************)
(* Between two handlers, every name that is not about to be removed shows  *)
(* the content that it was given, or, if its path or the one of its file   *)
(* was mishandled, nothing; the file of another name only at a path where  *)
(* two met: one that move_and_symlink_path() took while other names led to *)
(* it, moved a link to, or gave to a name taken in the meantime.           *)
(***************************************************************************)
THEOREM NamesKeepTheirContent ==
  ASSUME IsFiniteSet(Names)
  PROVE  LinkSpec => []NamesShowContent
<1>1. LinkSpec => []LinkInv
  BY LinkInvariant
<1>2. LinkSpec => []OwnInv
  BY OwnInvariant
<1>3. LinkInv /\ OwnInv => NamesShowContent
  BY InvNamesShowContent
<1> QED
  BY <1>1, <1>2, <1>3, PTL

(***************************************************************************)
(* The last name of a file takes the file with it: decrement_link_count()  *)
(* leaves no final path behind, but where a path was mishandled.           *)
(***************************************************************************)
THEOREM NoFileIsLeft ==
  ASSUME IsFiniteSet(Names)
  PROVE  LinkSpec => []NothingLeaks
<1>1. LinkSpec => []LinkInv
  BY LinkInvariant
<1>2. LinkInv => NothingLeaks
  BY InvNothingLeaks
<1> QED
  BY <1>1, <1>2, PTL
===============================================================================

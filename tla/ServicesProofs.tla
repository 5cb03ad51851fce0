---------------------------- MODULE ServicesProofs ----------------------------
(***************************************************************************)
(* What PRoot knows of shared memory is true, for any number of processes, *)
(* segments and mappings: of the segments that calls under way name, of    *)
(* the mappings that keep them, and of the descriptors the helper has open.*)
(* And its handlers do of every call what the kernel would.                *)
(***************************************************************************)
EXTENDS SysVShm, SyscallHandlers, FiniteSetTheorems, SequenceTheorems, WellFoundedInduction, TLAPS

--------------------------------------------------------------------------------
(* The pipe to the helper *)

SlotType == [key : Keys, gen : Nat, valid : BOOLEAN, rmid : BOOLEAN, fd : Nat]
ReqType  == [op : {"free", "distribute"}, fd : Nat]

\* The descriptors that the first n requests of q free, and the segments of sl.
FreedIn(q, n) == {q[m].fd : m \in {k \in 1 .. n : q[k].op = "free"}}
LiveSlots(sl) == {i \in DOMAIN sl : sl[i].valid}

\* HelperInStep, of any open descriptors, requests and slots.
InStep(open, q, sl) ==
  /\ open \ FreedIn(q, Len(q)) = {sl[i].fd : i \in LiveSlots(sl)}
  /\ \A i, j \in LiveSlots(sl) : sl[i].fd = sl[j].fd => i = j
  /\ \A n \in DOMAIN q : q[n].fd \in open \ FreedIn(q, n - 1)

LEMMA HelperInStepIs == HelperInStep <=> InStep(openFds, reqs, slots)
BY DEF HelperInStep, InStep, Freed, FreedIn, LiveSlots

LEMMA FreedAre ==
  ASSUME NEW q, NEW n
  PROVE  \A x : x \in FreedIn(q, n) <=> \E k \in 1 .. n : q[k].op = "free" /\ x = q[k].fd
BY DEF FreedIn

\* A pipe that goes on with the requests of another frees at least what that one does.
LEMMA SamePrefix ==
  ASSUME NEW q, NEW q2, NEW n, \A k \in 1 .. n : q2[k] = q[k]
  PROVE  FreedIn(q2, n) = FreedIn(q, n)
<1>1. \A x : x \in FreedIn(q2, n) <=> x \in FreedIn(q, n)
  BY FreedAre
<1> QED
  BY <1>1

\* q2 is q, of l requests, and then one for each of the n segments of sl that o lists.
AndThenFrees(q, l, q2, sl, n, o) ==
  /\ DOMAIN q = 1 .. l /\ Len(q) = l
  /\ DOMAIN q2 = 1 .. l + n /\ Len(q2) = l + n
  /\ \A k \in 1 .. l : q2[k] = q[k]
  /\ \A k \in 1 .. n : q2[l + k].op = "free" /\ q2[l + k].fd = sl[o[k]].fd

\* What the first m of those requests free besides.
FreesToo(q, l, q2, sl, o, m) ==
  \A x : x \in FreedIn(q2, l + m) <=> x \in FreedIn(q, l) \/ \E k \in 1 .. m : x = sl[o[k]].fd

LEMMA FreedThen ==
  ASSUME NEW q, NEW l \in Nat, NEW q2, NEW sl, NEW n \in Nat, NEW o, AndThenFrees(q, l, q2, sl, n, o),
         NEW m \in 0 .. n
  PROVE  FreesToo(q, l, q2, sl, o, m)
<1>1. ASSUME NEW k \in 1 .. l + m
      PROVE  k \in 1 .. l \/ \E j \in 1 .. m : k = l + j
  <2>1. k \notin 1 .. l => k - l \in 1 .. m /\ k = l + (k - l)
    OBVIOUS
  <2> QED
    BY <2>1
<1>2. ASSUME NEW j \in 1 .. m
      PROVE  l + j \in 1 .. l + m /\ j \in 1 .. n
  OBVIOUS
<1>3. \A k \in 1 .. l : k \in 1 .. l + m
  OBVIOUS
<1>4. ASSUME NEW x, NEW k \in 1 .. l + m, q2[k].op = "free", x = q2[k].fd
      PROVE  x \in FreedIn(q, l) \/ \E j \in 1 .. m : x = sl[o[j]].fd
  <2>1. CASE k \in 1 .. l
    BY <1>4, <2>1, FreedAre DEF AndThenFrees
  <2>2. ASSUME NEW j \in 1 .. m, k = l + j
        PROVE  x = sl[o[j]].fd
    BY <1>2, <1>4, <2>2 DEF AndThenFrees
  <2> QED
    BY <1>1, <2>1, <2>2
<1>5. ASSUME NEW x, NEW k \in 1 .. l, q[k].op = "free", x = q[k].fd
      PROVE  x \in FreedIn(q2, l + m)
  <2>1. q2[k] = q[k] /\ k \in 1 .. l + m
    BY DEF AndThenFrees
  <2> QED
    BY <1>5, <2>1, FreedAre
<1>6. ASSUME NEW x, NEW k \in 1 .. m, x = sl[o[k]].fd
      PROVE  x \in FreedIn(q2, l + m)
  <2>1. l + k \in 1 .. l + m /\ q2[l + k].op = "free" /\ q2[l + k].fd = x
    BY <1>2, <1>6 DEF AndThenFrees
  <2> QED
    BY <2>1, FreedAre
<1>7. ASSUME NEW x
      PROVE  x \in FreedIn(q2, l + m) <=> x \in FreedIn(q, l) \/ \E k \in 1 .. m : x = sl[o[k]].fd
  <2>1. x \in FreedIn(q2, l + m) <=> \E k \in 1 .. l + m : q2[k].op = "free" /\ x = q2[k].fd
    BY FreedAre
  <2>2. x \in FreedIn(q, l) <=> \E k \in 1 .. l : q[k].op = "free" /\ x = q[k].fd
    BY FreedAre
  <2> QED
    BY <1>4, <1>5, <1>6, <2>1, <2>2
<1> QED
  BY <1>7 DEF FreesToo

\* The segments that o lists are removed from sl.
AreRemoved(sl, sl2, n, o) ==
  /\ \A i : i \in LiveSlots(sl2) <=> i \in LiveSlots(sl) /\ \A k \in 1 .. n : o[k] # i
  /\ \A i \in LiveSlots(sl2) : sl2[i].fd = sl[i].fd

\* Segments are removed, and the requests to free them go into the pipe.
LEMMA SlotsFreed ==
  ASSUME NEW open, NEW q, NEW l \in Nat, NEW q2, NEW sl, NEW sl2, NEW n \in Nat,
         NEW o \in [1 .. n -> LiveSlots(sl)], \A k, m \in 1 .. n : o[k] = o[m] => k = m,
         InStep(open, q, sl), AndThenFrees(q, l, q2, sl, n, o), AreRemoved(sl, sl2, n, o)
  PROVE  InStep(open, q2, sl2)
<1>1. /\ \A x : x \in open \ FreedIn(q, l) <=> \E i \in LiveSlots(sl) : x = sl[i].fd
      /\ \A i, j \in LiveSlots(sl) : sl[i].fd = sl[j].fd => i = j
      /\ \A m \in 1 .. l : q[m].fd \in open \ FreedIn(q, m - 1)
  <2>1. Len(q) = l /\ DOMAIN q = 1 .. l
    BY DEF AndThenFrees
  <2> QED
    BY <2>1 DEF InStep
<1>2. \A k \in 1 .. n : o[k] \in LiveSlots(sl)
  OBVIOUS
<1>3. open \ FreedIn(q2, l + n) = {sl2[i].fd : i \in LiveSlots(sl2)}
  <2>1. \A x : x \in FreedIn(q2, l + n) <=> x \in FreedIn(q, l) \/ \E k \in 1 .. n : x = sl[o[k]].fd
    <3>1. n \in 0 .. n
      OBVIOUS
    <3>2. FreesToo(q, l, q2, sl, o, n)
      BY <3>1, FreedThen
    <3> QED
      BY <3>2 DEF FreesToo
  <2>2. ASSUME NEW x
        PROVE  x \in open \ FreedIn(q2, l + n) <=> \E i \in LiveSlots(sl2) : x = sl2[i].fd
    <3>1. ASSUME x \in open \ FreedIn(q2, l + n)
          PROVE  \E i \in LiveSlots(sl2) : x = sl2[i].fd
      <4>1. PICK i \in LiveSlots(sl) : x = sl[i].fd
        BY <1>1, <2>1, <3>1
      <4>2. \A k \in 1 .. n : o[k] # i
        BY <2>1, <3>1, <4>1
      <4> QED
        BY <4>1, <4>2 DEF AreRemoved
    <3>2. ASSUME NEW i \in LiveSlots(sl2), x = sl2[i].fd
          PROVE  x \in open \ FreedIn(q2, l + n)
      <4>1. i \in LiveSlots(sl) /\ x = sl[i].fd /\ \A k \in 1 .. n : o[k] # i
        BY <3>2 DEF AreRemoved
      <4>2. \A k \in 1 .. n : x # sl[o[k]].fd
        BY <1>1, <1>2, <4>1
      <4> QED
        BY <1>1, <2>1, <4>1, <4>2
    <3> QED
      BY <3>1, <3>2
  <2> QED
    BY <2>2
<1>4. \A i, j \in LiveSlots(sl2) : sl2[i].fd = sl2[j].fd => i = j
  BY <1>1 DEF AreRemoved
<1>5. ASSUME NEW m \in 1 .. l + n
      PROVE  q2[m].fd \in open \ FreedIn(q2, m - 1)
  <2>1. CASE m \in 1 .. l
    <3>1. q2[m] = q[m] /\ \A k \in 1 .. m - 1 : q2[k] = q[k]
      BY <2>1 DEF AndThenFrees
    <3>2. FreedIn(q2, m - 1) = FreedIn(q, m - 1)
      BY <3>1, SamePrefix
    <3> QED
      BY <1>1, <2>1, <3>1, <3>2
  <2>2. CASE m \notin 1 .. l
    <3>1. PICK k \in 1 .. n : m = l + k
      <4>1. m - l \in 1 .. n /\ m = l + (m - l)
        BY <2>2
      <4> QED
        BY <4>1
    <3>2. m - 1 = l + (k - 1) /\ k - 1 \in 0 .. n
      BY <3>1
    <3>3. PICK x : x = sl[o[k]].fd
      OBVIOUS
    <3>4. q2[m].fd = x
      BY <3>1, <3>3 DEF AndThenFrees
    <3>5. \A j \in 1 .. k - 1 : j \in 1 .. n /\ j # k
      OBVIOUS
    <3>6. \A j \in 1 .. k - 1 : x # sl[o[j]].fd
      BY <1>1, <1>2, <3>3, <3>5
    <3>7. x \in open \ FreedIn(q, l)
      BY <1>1, <1>2, <3>3
    <3>8. PICK h \in 0 .. n : h = k - 1
      BY <3>2
    <3>9. x \notin FreedIn(q2, l + h)
      <4>1. FreesToo(q, l, q2, sl, o, h)
        BY FreedThen
      <4> QED
        BY <3>6, <3>7, <3>8, <4>1 DEF FreesToo
    <3> QED
      BY <3>2, <3>4, <3>7, <3>8, <3>9
  <2> QED
    BY <2>1, <2>2
<1>6. DOMAIN q2 = 1 .. l + n /\ Len(q2) = l + n
  BY DEF AndThenFrees
<1> QED
  BY <1>3, <1>4, <1>5, <1>6 DEF InStep

\* A request to hand out a descriptor that is open and stays so goes into the pipe.
LEMMA Distributes ==
  ASSUME NEW open, NEW q \in Seq(ReqType), NEW sl, InStep(open, q, sl), NEW i \in LiveSlots(sl),
         NEW r \in ReqType, r.op = "distribute", r.fd = sl[i].fd
  PROVE  InStep(open, Append(q, r), sl) /\ Append(q, r) \in Seq(ReqType)
<1>1. PICK l \in Nat : l = Len(q)
  OBVIOUS
<1>2. PICK q2 : q2 = Append(q, r)
  OBVIOUS
<1>3. /\ q2 \in Seq(ReqType) /\ DOMAIN q = 1 .. l /\ DOMAIN q2 = 1 .. l + 1 /\ Len(q2) = l + 1
      /\ q2[l + 1] = r /\ \A k \in 1 .. l : q2[k] = q[k]
  BY <1>1, <1>2
<1>4. \A m \in 1 .. l : m - 1 \in 0 .. l
  OBVIOUS
<1>5. \A m \in 0 .. l : FreedIn(q2, m) = FreedIn(q, m)
  <2>1. \A m \in 0 .. l : \A k \in 1 .. m : k \in 1 .. l
    OBVIOUS
  <2> QED
    BY <1>3, <2>1, SamePrefix
<1>6. FreedIn(q2, l + 1) = FreedIn(q, l)
  <2>1. ASSUME NEW x
        PROVE  x \in FreedIn(q2, l + 1) <=> x \in FreedIn(q, l)
    <3>1. \A k \in 1 .. l + 1 : k \in 1 .. l \/ k = l + 1
      OBVIOUS
    <3>2. \A k \in 1 .. l : k \in 1 .. l + 1
      OBVIOUS
    <3>3. x \in FreedIn(q2, l + 1) <=> \E k \in 1 .. l + 1 : q2[k].op = "free" /\ x = q2[k].fd
      BY FreedAre
    <3>4. x \in FreedIn(q, l) <=> \E k \in 1 .. l : q[k].op = "free" /\ x = q[k].fd
      BY FreedAre
    <3> QED
      BY <1>3, <3>1, <3>2, <3>3, <3>4
  <2> QED
    BY <2>1
<1>7. /\ open \ FreedIn(q, l) = {sl[j].fd : j \in LiveSlots(sl)}
      /\ \A k, j \in LiveSlots(sl) : sl[k].fd = sl[j].fd => k = j
      /\ \A m \in 1 .. l : q[m].fd \in open \ FreedIn(q, m - 1)
  BY <1>1, <1>3 DEF InStep
<1>8. ASSUME NEW m \in 1 .. l + 1
      PROVE  q2[m].fd \in open \ FreedIn(q2, m - 1)
  <2>1. CASE m \in 1 .. l
    BY <1>3, <1>4, <1>5, <1>7, <2>1
  <2>2. CASE m \notin 1 .. l
    <3>1. m = l + 1 /\ m - 1 = l
      BY <2>2
    <3>2. r.fd \in open \ FreedIn(q, l)
      BY <1>7
    <3>3. FreedIn(q2, l) = FreedIn(q, l)
      BY <1>5
    <3> QED
      BY <1>3, <3>1, <3>2, <3>3
  <2> QED
    BY <2>1, <2>2
<1>9. InStep(open, q2, sl)
  BY <1>3, <1>6, <1>7, <1>8 DEF InStep
<1> QED
  BY <1>2, <1>3, <1>9

\* The helper has served the first request of the pipe.
LEMMA HeadServed ==
  ASSUME NEW open, NEW q \in Seq(ReqType), q # <<>>, NEW sl, InStep(open, q, sl),
         NEW o2, o2 = IF Head(q).op = "free" THEN open \ {Head(q).fd} ELSE open
  PROVE  InStep(o2, Tail(q), sl) /\ Tail(q) \in Seq(ReqType)
<1>1. PICK l \in Nat : l + 1 = Len(q)
  <2>1. Len(q) - 1 \in Nat /\ Len(q) - 1 + 1 = Len(q)
    OBVIOUS
  <2> QED
    BY <2>1
<1>2. PICK q2 : q2 = Tail(q)
  OBVIOUS
<1>3. /\ q2 \in Seq(ReqType) /\ DOMAIN q = 1 .. l + 1 /\ DOMAIN q2 = 1 .. l /\ Len(q2) = l
      /\ Head(q) = q[1] /\ \A k \in 1 .. l : q2[k] = q[k + 1]
  BY <1>1, <1>2
<1>4. PICK d : d = IF q[1].op = "free" THEN {q[1].fd} ELSE {}
  OBVIOUS
<1>5. o2 = open \ d
  BY <1>3, <1>4
<1>6. ASSUME NEW m \in 0 .. l
      PROVE  open \ FreedIn(q, m + 1) = o2 \ FreedIn(q2, m)
  <2>1. ASSUME NEW x
        PROVE  x \in FreedIn(q, m + 1) <=> x \in d \/ x \in FreedIn(q2, m)
    <3>1. x \in FreedIn(q, m + 1) <=> \E k \in 1 .. m + 1 : q[k].op = "free" /\ x = q[k].fd
      BY FreedAre
    <3>2. x \in FreedIn(q2, m) <=> \E k \in 1 .. m : q2[k].op = "free" /\ x = q2[k].fd
      BY FreedAre
    <3>3. \A k \in 1 .. m : k \in 1 .. l /\ k + 1 \in 1 .. m + 1
      OBVIOUS
    <3>4. \A k \in 1 .. m + 1 : k = 1 \/ \E j \in 1 .. m : k = j + 1
      <4>1. \A k \in 1 .. m + 1 : k # 1 => k - 1 \in 1 .. m /\ k = (k - 1) + 1
        OBVIOUS
      <4> QED
        BY <4>1
    <3>5. ASSUME x \in FreedIn(q, m + 1)
          PROVE  x \in d \/ x \in FreedIn(q2, m)
      <4>1. PICK k \in 1 .. m + 1 : q[k].op = "free" /\ x = q[k].fd
        BY <3>1, <3>5
      <4>2. CASE k = 1
        BY <1>4, <4>1, <4>2
      <4>3. ASSUME NEW j \in 1 .. m, k = j + 1
            PROVE  x \in FreedIn(q2, m)
        BY <1>3, <3>2, <3>3, <4>1, <4>3
      <4> QED
        BY <3>4, <4>2, <4>3
    <3>6. x \in d => x \in FreedIn(q, m + 1)
      <4>1. 1 \in 1 .. m + 1
        OBVIOUS
      <4> QED
        BY <1>4, <3>1, <4>1
    <3>7. x \in FreedIn(q2, m) => x \in FreedIn(q, m + 1)
      BY <1>3, <3>1, <3>2, <3>3
    <3> QED
      BY <3>5, <3>6, <3>7
  <2> QED
    BY <1>5, <2>1
<1>7. /\ open \ FreedIn(q, l + 1) = {sl[j].fd : j \in LiveSlots(sl)}
      /\ \A k, j \in LiveSlots(sl) : sl[k].fd = sl[j].fd => k = j
      /\ \A m \in 1 .. l + 1 : q[m].fd \in open \ FreedIn(q, m - 1)
  BY <1>1, <1>3 DEF InStep
<1>8. o2 \ FreedIn(q2, l) = {sl[j].fd : j \in LiveSlots(sl)}
  <2>1. l \in 0 .. l
    OBVIOUS
  <2> QED
    BY <1>6, <1>7, <2>1
<1>9. ASSUME NEW m \in 1 .. l
      PROVE  q2[m].fd \in o2 \ FreedIn(q2, m - 1)
  <2>1. PICK h \in 0 .. l : h = m - 1 /\ m = h + 1
    OBVIOUS
  <2>2. m + 1 \in 1 .. l + 1 /\ m + 1 - 1 = h + 1 /\ q2[m] = q[m + 1]
    BY <1>3, <2>1
  <2>3. q[m + 1].fd \in open \ FreedIn(q, h + 1)
    BY <1>7, <2>2
  <2> QED
    BY <1>6, <2>1, <2>2, <2>3
<1>10. InStep(o2, q2, sl)
  BY <1>3, <1>7, <1>8, <1>9 DEF InStep
<1> QED
  BY <1>2, <1>3, <1>10

\* A segment is created with a descriptor that is not open, once the pipe is empty.
LEMMA SlotCreated ==
  ASSUME NEW open, NEW sl, InStep(open, <<>>, sl), NEW fd, fd \notin open,
         NEW i, i \notin LiveSlots(sl), NEW sl2, LiveSlots(sl2) = LiveSlots(sl) \cup {i},
         sl2[i].fd = fd, \A j \in LiveSlots(sl) : sl2[j].fd = sl[j].fd
  PROVE  InStep(open \cup {fd}, <<>>, sl2)
<1>1. PICK q : q = <<>>
  OBVIOUS
<1>2. Len(q) = 0 /\ DOMAIN q = {} /\ FreedIn(q, 0) = {}
  BY <1>1 DEF FreedIn
<1>3. /\ open = {sl[j].fd : j \in LiveSlots(sl)}
      /\ \A k, j \in LiveSlots(sl) : sl[k].fd = sl[j].fd => k = j
  BY <1>1, <1>2 DEF InStep
<1>4. open \cup {fd} = {sl2[j].fd : j \in LiveSlots(sl2)}
  <2>1. ASSUME NEW x
        PROVE  x \in open \cup {fd} <=> \E j \in LiveSlots(sl2) : x = sl2[j].fd
    BY <1>3
  <2> QED
    BY <2>1
<1>5. \A k, j \in LiveSlots(sl2) : sl2[k].fd = sl2[j].fd => k = j
  BY <1>3
<1>6. InStep(open \cup {fd}, q, sl2)
  BY <1>2, <1>4, <1>5 DEF InStep
<1> QED
  BY <1>1, <1>6

--------------------------------------------------------------------------------
(* Sequences and finite sets *)

LEMMA FunctionIsSeq ==
  ASSUME NEW S, NEW n \in Nat, NEW f \in [1 .. n -> S]
  PROVE  f \in Seq(S) /\ Len(f) = n /\ DOMAIN f = 1 .. n
<1>1. f \in Seq(S)
  <2>1. Seq(S) = UNION {[1 .. m -> S] : m \in Nat}
    BY SeqDef
  <2> QED
    BY <2>1
<1>2. DOMAIN f = 1 .. n /\ DOMAIN f = 1 .. Len(f) /\ Len(f) \in Nat
  BY <1>1
<1> QED
  BY <1>1, <1>2

LEMMA SetToSeqIs ==
  ASSUME NEW S, IsFiniteSet(S)
  PROVE  /\ Cardinality(S) \in Nat
         /\ SetToSeq(S) \in [1 .. Cardinality(S) -> S]
         /\ \A k, m \in 1 .. Cardinality(S) : SetToSeq(S)[k] = SetToSeq(S)[m] => k = m
         /\ \A x \in S : \E k \in 1 .. Cardinality(S) : SetToSeq(S)[k] = x
<1>1. Cardinality(S) \in Nat /\ ExistsBijection(1 .. Cardinality(S), S)
  BY FS_CardinalityType
<1>2. \E f \in [1 .. Cardinality(S) -> S] : IsInjective(f)
  BY <1>1 DEF ExistsBijection, Bijection, Injection
<1>3. SetToSeq(S) \in [1 .. Cardinality(S) -> S] /\ IsInjective(SetToSeq(S))
  BY <1>2 DEF SetToSeq
<1>4. SetToSeq(S) \in Injection(1 .. Cardinality(S), S)
  BY <1>3 DEF Injection
<1>5. Cardinality(1 .. Cardinality(S)) = Cardinality(S)
  BY <1>1, FS_Interval
<1>6. SetToSeq(S) \in Surjection(1 .. Cardinality(S), S)
  BY <1>4, <1>5, FS_Injection
<1> QED
  BY <1>1, <1>3, <1>6 DEF IsInjective, Surjection

\* Two sequences, one behind the other.
LEMMA Joined ==
  ASSUME NEW S, NEW q \in Seq(S), NEW r \in Seq(S)
  PROVE  /\ q \o r \in Seq(S) /\ Len(q \o r) = Len(q) + Len(r)
         /\ DOMAIN (q \o r) = 1 .. Len(q) + Len(r) /\ DOMAIN q = 1 .. Len(q)
         /\ \A k \in 1 .. Len(q) : (q \o r)[k] = q[k]
         /\ \A k \in 1 .. Len(r) : (q \o r)[Len(q) + k] = r[k]
OBVIOUS

--------------------------------------------------------------------------------
(* Segments and mappings *)

MapsType == [Tracees -> [1 .. MaxSlots -> [Kinds -> Nat]]]

\* The mappings of M name slots that there are.
NamesSlots(M) == \A i \in 1 .. MaxSlots : Mapped(M, i) => i \in DOMAIN slots

\* What PRoot keeps of segments and of mappings, and what the helper has open.
HelperInv ==
  /\ slots \in Seq(SlotType) /\ Len(slots) <= MaxSlots
  /\ reqs \in Seq(ReqType)
  /\ maps \in MapsType
  /\ RemovalsComplete /\ NamesSlots(maps)
  /\ InStep(openFds, reqs, slots)

\* M is maps with some of the mappings gone.
Fewer(M) ==
  /\ M \in MapsType
  /\ \A p \in Tracees, i \in 1 .. MaxSlots, k \in Kinds : M[p][i][k] <= maps[p][i][k]

LEMMA FewerMapped ==
  ASSUME maps \in MapsType, NEW M, Fewer(M), NEW i \in 1 .. MaxSlots, Mapped(M, i)
  PROVE  Mapped(maps, i)
<1>1. PICK p \in Tracees, k \in Kinds : M[p][i][k] > 0
  BY DEF Mapped
<1>2. M[p][i][k] \in Nat /\ maps[p][i][k] \in Nat
  <2>1. M[p] \in [1 .. MaxSlots -> [Kinds -> Nat]] /\ maps[p] \in [1 .. MaxSlots -> [Kinds -> Nat]]
    BY DEF Fewer, MapsType
  <2>2. M[p][i] \in [Kinds -> Nat] /\ maps[p][i] \in [Kinds -> Nat]
    BY <2>1
  <2> QED
    BY <2>2
<1>3. M[p][i][k] <= maps[p][i][k]
  BY DEF Fewer
<1>4. maps[p][i][k] > 0
  BY <1>1, <1>2, <1>3
<1> QED
  BY <1>4 DEF Mapped

LEMMA RemovedIs ==
  ASSUME NEW s \in SlotType
  PROVE  Removed(s) \in SlotType /\ Removed(s).valid = FALSE /\ Removed(s).rmid = FALSE
<1>1. PICK r : r = [s EXCEPT !.valid = FALSE, !.rmid = FALSE, !.fd = 0]
  OBVIOUS
<1>2. r \in SlotType /\ r.valid = FALSE /\ r.rmid = FALSE
  BY <1>1 DEF SlotType
<1>3. PICK g \in Nat : g = s.gen + 1
  BY DEF SlotType
<1>4. Removed(s) = [r EXCEPT !.gen = g]
  BY <1>1, <1>3, Zenon DEF Removed
<1> QED
  BY <1>2, <1>4 DEF SlotType

(***************************************************************************)
(* sysvipc_shm_memmap_destructor of the mappings that go: each segment     *)
(* that was waiting for them is removed, and its descriptor freed once.    *)
(***************************************************************************)
LEMMA UnmapKeeps ==
  ASSUME HelperInv, NEW M, Fewer(M), Unmap(M), openFds' = openFds
  PROVE  /\ HelperInv' /\ DOMAIN slots' = DOMAIN slots
         /\ \A i \in DOMAIN slots : Mapped(M, i) => slots'[i] = slots[i]
<1> USE ShmAssumption
<1>1. PICK over, n, o : /\ over = {i \in DOMAIN slots : Completes(M, i)}
                        /\ n = Cardinality(over) /\ o = SetToSeq(over)
  OBVIOUS
<1>2. PICK l \in Nat : Len(slots) = l /\ DOMAIN slots = 1 .. l /\ l <= MaxSlots /\ \A i \in 1 .. l : slots[i] \in SlotType
  BY DEF HelperInv
<1>3. /\ n \in Nat /\ o \in [1 .. n -> over]
      /\ \A k, m \in 1 .. n : o[k] = o[m] => k = m
      /\ \A i \in over : \E k \in 1 .. n : o[k] = i
  <2>1. IsFiniteSet(over)
    BY <1>1, <1>2, FS_Interval, FS_Subset
  <2> QED
    BY <1>1, <2>1, SetToSeqIs
<1>4. \A i \in over : i \in LiveSlots(slots) /\ slots[i].rmid /\ ~Mapped(M, i)
  BY <1>1 DEF Completes, LiveSlots, HelperInv, RemovalsComplete
<1>5. /\ maps' = M
      /\ slots' = [i \in DOMAIN slots |-> IF i \in over THEN Removed(slots[i]) ELSE slots[i]]
      /\ reqs' = reqs \o [k \in 1 .. n |-> FreeRequest(slots[o[k]])]
  BY <1>1 DEF Unmap
<1>6. PICK f : f = [k \in 1 .. n |-> FreeRequest(slots[o[k]])]
  OBVIOUS
<1>7. /\ f \in Seq(ReqType) /\ Len(f) = n
      /\ \A k \in 1 .. n : f[k].op = "free" /\ f[k].fd = slots[o[k]].fd
  <2>1. \A k \in 1 .. n : FreeRequest(slots[o[k]]) \in ReqType
    <3>1. \A s \in SlotType : FreeRequest(s) \in ReqType
      BY DEF SlotType, ReqType, FreeRequest
    <3> QED
      BY <1>2, <1>3, <1>4, <3>1 DEF LiveSlots
  <2>2. f \in [1 .. n -> ReqType]
    BY <1>6, <2>1
  <2>3. f \in Seq(ReqType) /\ Len(f) = n
    BY <1>3, <2>2, FunctionIsSeq
  <2> QED
    BY <1>6, <2>3 DEF FreeRequest
<1>8. PICK q \in Seq(ReqType) : q = reqs
  BY DEF HelperInv
<1>8a. PICK h \in Nat : h = Len(q)
  OBVIOUS
<1>9. PICK q2 : q2 = q \o f
  OBVIOUS
<1>10. reqs' = q2 /\ q2 \in Seq(ReqType) /\ AndThenFrees(q, h, q2, slots, n, o)
  <2>1. /\ q2 \in Seq(ReqType) /\ Len(q2) = h + n /\ DOMAIN q2 = 1 .. h + n /\ DOMAIN q = 1 .. h
        /\ \A k \in 1 .. h : q2[k] = q[k]
        /\ \A k \in 1 .. n : q2[h + k] = f[k]
    <3>1. f \in Seq(ReqType)
      BY <1>7
    <3>2. /\ q \o f \in Seq(ReqType) /\ Len(q \o f) = Len(q) + Len(f)
          /\ DOMAIN (q \o f) = 1 .. Len(q) + Len(f) /\ DOMAIN q = 1 .. Len(q)
          /\ \A k \in 1 .. Len(q) : (q \o f)[k] = q[k]
          /\ \A k \in 1 .. Len(f) : (q \o f)[Len(q) + k] = f[k]
      BY <3>1, Joined
    <3> QED
      BY <1>7, <1>8a, <1>9, <3>2
  <2> QED
    BY <1>5, <1>6, <1>7, <1>8, <1>8a, <1>9, <2>1 DEF AndThenFrees
<1>11. PICK sl2 : sl2 = [i \in 1 .. l |-> IF i \in over THEN Removed(slots[i]) ELSE slots[i]]
  OBVIOUS
<1>12. /\ slots' = sl2 /\ DOMAIN sl2 = 1 .. l
       /\ \A i \in 1 .. l : sl2[i] = IF i \in over THEN Removed(slots[i]) ELSE slots[i]
  BY <1>2, <1>5, <1>11
<1>13. \A s \in SlotType : Removed(s) \in SlotType /\ Removed(s).valid = FALSE /\ Removed(s).rmid = FALSE
  BY RemovedIs
<1>14. sl2 \in Seq(SlotType) /\ Len(sl2) = l
  <2>1. sl2 \in [1 .. l -> SlotType]
    BY <1>2, <1>11, <1>13
  <2> QED
    BY <2>1, FunctionIsSeq
<1>15. AreRemoved(slots, sl2, n, o)
  <2>1. ASSUME NEW i \in 1 .. l
        PROVE  /\ i \in over => ~sl2[i].valid
               /\ i \notin over => sl2[i] = slots[i]
    BY <1>2, <1>12, <1>13
  <2>2. \A i : (\A k \in 1 .. n : o[k] # i) <=> i \notin over
    BY <1>3
  <2>3. \A i : i \in LiveSlots(sl2) <=> i \in LiveSlots(slots) /\ i \notin over
    BY <1>2, <1>12, <2>1 DEF LiveSlots
  <2>4. \A i \in LiveSlots(sl2) : sl2[i].fd = slots[i].fd
    BY <1>12, <2>1, <2>3 DEF LiveSlots
  <2> QED
    BY <2>2, <2>3, <2>4 DEF AreRemoved
<1>16. InStep(openFds, q, slots)
  BY <1>8 DEF HelperInv
<1>17. InStep(openFds, q2, sl2)
  <2>1. o \in [1 .. n -> LiveSlots(slots)]
    BY <1>3, <1>4
  <2> QED
    BY <1>3, <1>10, <1>15, <1>16, <2>1, SlotsFreed
<1>18. InStep(openFds, reqs, slots)'
  BY <1>10, <1>12, <1>17
<1>19. RemovalsComplete'
  <2>1. ASSUME NEW i \in 1 .. l
        PROVE  (sl2[i].rmid => Mapped(M, i)) /\ (Mapped(M, i) => sl2[i].valid)
    <3>1. i \in 1 .. MaxSlots
      BY <1>2
    <3>2. CASE i \in over
      BY <1>2, <1>4, <1>12, <1>13, <3>2
    <3>3. CASE i \notin over
      <4>1. sl2[i] = slots[i] /\ (slots[i].rmid => Mapped(M, i))
        BY <1>1, <1>2, <1>12, <3>3 DEF Completes
      <4>2. Mapped(M, i) => Mapped(maps, i)
        BY <3>1, FewerMapped DEF HelperInv
      <4> QED
        BY <1>2, <4>1, <4>2 DEF HelperInv, RemovalsComplete
    <3> QED
      BY <3>2, <3>3
  <2> QED
    BY <1>5, <1>12, <2>1 DEF RemovalsComplete, Mapped
<1>20. NamesSlots(maps)'
  <2>1. \A i \in 1 .. MaxSlots : Mapped(M, i) => i \in DOMAIN sl2
    BY <1>2, <1>12, FewerMapped DEF HelperInv, NamesSlots
  <2> QED
    BY <1>5, <1>12, <2>1 DEF NamesSlots, Mapped
<1>20a. HelperInv'
  BY <1>2, <1>5, <1>10, <1>12, <1>14, <1>18, <1>19, <1>20 DEF HelperInv, Fewer
<1>21. ASSUME NEW i \in DOMAIN slots, Mapped(M, i)
       PROVE  slots'[i] = slots[i]
  BY <1>2, <1>4, <1>12, <1>21
<1> QED
  BY <1>2, <1>12, <1>20a, <1>21

--------------------------------------------------------------------------------
(* Calls under way *)

\* The calls after shmat's own, in which tr[t].slot is the segment it asked for.
Naming     == CallStages \ {"close"}
CallRecord == [at : CallStages \cup {"guest", "unborn", "dead", "gone"}, ws : WStates,
               cs : BusyStages \cup {"none", "socket"}, slot : Nat, gen : Nat, fd : Nat]

\* A tracee that is yet to be born has no mapping, and nobody else's process is its.
CallInv ==
  /\ tr \in [Tracees -> CallRecord]
  /\ proc \in [Tracees -> Tracees]
  /\ inbox \in [Tracees -> Nat \cup {Eof}]
  /\ \A t \in Tracees : /\ tr[t].at \in Naming => tr[t].slot \in DOMAIN slots
                        /\ tr[t].at = "close" => tr[t].slot = 0
  /\ \A c \in Tracees : tr[c].at = "unborn" => /\ maps[c] = NoMaps
                                               /\ \A t \in Tracees : proc[t] = c => t = c

\* Without threads a call's segment stays: nobody else touches the mapping that keeps it.
AloneInv ==
  ~Threads =>
    /\ \A t \in Tracees : proc[t] = t
    /\ \A t \in Tracees :
         tr[t].at \in Naming => /\ slots[tr[t].slot].valid
                                /\ slots[tr[t].slot].gen = tr[t].gen
                                /\ maps[t][tr[t].slot]["pending"] > 0

ShmInv == HelperInv /\ CallInv /\ AloneInv

\* The tracees become S, none of them in a call to a segment that it was not in before.
Keeps(S) ==
  /\ S \in [Tracees -> CallRecord]
  /\ \A u \in Tracees :
       /\ S[u].at = "unborn" => tr[u].at = "unborn"
       /\ S[u].at \in Naming => tr[u].at \in Naming /\ S[u].slot = tr[u].slot /\ S[u].gen = tr[u].gen
       /\ S[u].at = "close" => S[u].slot = 0

LEMMA NobodyMoves == CallInv => Keeps(tr)
BY DEF CallInv, Keeps

\* t becomes r.
LEMMA OneMoves ==
  ASSUME CallInv, NEW t \in Tracees, NEW r \in CallRecord,
         r.at # "unborn", r.at = "close" => r.slot = 0,
         r.at \in Naming => tr[t].at \in Naming /\ r.slot = tr[t].slot /\ r.gen = tr[t].gen
  PROVE  Keeps([tr EXCEPT ![t] = r])
<1>1. PICK S : S = [tr EXCEPT ![t] = r]
  OBVIOUS
<1>2. S \in [Tracees -> CallRecord] /\ S[t] = r /\ \A u \in Tracees : u # t => S[u] = tr[u]
  BY <1>1 DEF CallInv
<1>3. \A u \in Tracees : tr[u].at = "close" => tr[u].slot = 0
  BY DEF CallInv
<1>4. Keeps(S)
  BY <1>2, <1>3 DEF Keeps
<1> QED
  BY <1>1, <1>4

\* t goes on to call at.
LEMMA OneGoes ==
  ASSUME CallInv, NEW t \in Tracees, tr[t].at \in Naming, NEW at \in Naming,
         NEW ws \in WStates, NEW cs \in BusyStages \cup {"none", "socket"}, NEW fd \in Nat
  PROVE  Keeps([tr EXCEPT ![t] = [tr[t] EXCEPT !.at = at, !.ws = ws, !.cs = cs, !.fd = fd]])
<1>1. PICK r : r = [tr[t] EXCEPT !.at = at, !.ws = ws, !.cs = cs, !.fd = fd]
  OBVIOUS
<1>2. tr[t] \in CallRecord
  BY DEF CallInv
<1>3. r \in CallRecord /\ r.at = at /\ r.slot = tr[t].slot /\ r.gen = tr[t].gen
  BY <1>1, <1>2 DEF CallRecord, Naming
<1>4. at # "unborn" /\ at # "close"
  BY DEF Naming, CallStages
<1>5. Keeps([tr EXCEPT ![t] = r])
  BY <1>3, <1>4, OneMoves
<1> QED
  BY <1>1, <1>5

\* A waiter that is woken stays in its call.
LEMMA WakingMovesNobody ==
  ASSUME NEW T, Keeps(T), WakePendingShmat(T)
  PROVE  Keeps(tr')
<1>1. CASE tr' = T
  BY <1>1
<1>2. ASSUME NEW u \in Tracees, NEW ws \in WStates, tr' = [T EXCEPT ![u] = [T[u] EXCEPT !.cs = "socket", !.ws = ws]]
      PROVE  Keeps(tr')
  <2>1. PICK r, S : r = [T[u] EXCEPT !.cs = "socket", !.ws = ws] /\ S = [T EXCEPT ![u] = r]
    OBVIOUS
  <2>2. T \in [Tracees -> CallRecord]
    BY DEF Keeps
  <2>3. r \in CallRecord /\ r.at = T[u].at /\ r.slot = T[u].slot /\ r.gen = T[u].gen
    BY <2>1, <2>2 DEF CallRecord
  <2>4. S \in [Tracees -> CallRecord] /\ S[u] = r /\ \A v \in Tracees : v # u => S[v] = T[v]
    BY <2>1, <2>2, <2>3
  <2>5. Keeps(S)
    BY <2>3, <2>4 DEF Keeps
  <2> QED
    BY <1>2, <2>1, <2>5
<1>3. ASSUME NEW u \in Tracees,
             tr' = [T EXCEPT ![u] = [T[u] EXCEPT !.cs = "socket",
                                       !.ws = IF T[u].ws = "ENTERED_PPOLL" THEN "SIGNALED_PPOLL"
                                              ELSE "RESTARTED_INTO_PPOLL_CANCELED"]]
      PROVE  Keeps(tr')
  <2>1. PICK ws \in WStates : ws = IF T[u].ws = "ENTERED_PPOLL" THEN "SIGNALED_PPOLL"
                                   ELSE "RESTARTED_INTO_PPOLL_CANCELED"
    BY DEF WStates
  <2> QED
    BY <1>2, <1>3, <2>1
<1> QED
  BY <1>1, <1>3 DEF WakePendingShmat

\* A step of s: no process but its own loses or gets a mapping, its own only if it makes
\* no call that relies on one, and a segment that is still mapped stays in its slot.
StepOf(s) ==
  /\ Keeps(tr') /\ proc' = proc /\ inbox' \in [Tracees -> Nat \cup {Eof}]
  /\ tr[s].at # "unborn"
  /\ \A p \in Tracees : p # proc[s] \/ tr'[s].at \in Naming => maps'[p] = maps[p]
  /\ \A i \in DOMAIN slots :
       /\ i \in DOMAIN slots'
       /\ slots[i].valid /\ Mapped(maps', i) => slots'[i].valid /\ slots'[i].gen = slots[i].gen

LEMMA StepKeeps ==
  ASSUME ShmInv, HelperInv', NEW s \in Tracees, StepOf(s)
  PROVE  ShmInv'
<1> USE DEF ShmInv
<1>1. PICK S : S = tr'
  OBVIOUS
<1>2. Keeps(S)
  BY <1>1 DEF StepOf
<1>3. PICK M : M = maps'
  OBVIOUS
<1>4. \A p \in Tracees : p # proc[s] \/ S[s].at \in Naming => M[p] = maps[p]
  BY <1>1, <1>3 DEF StepOf
<1>5. CallInv'
  <2>1. ASSUME NEW u \in Tracees
        PROVE  /\ S[u].at \in Naming => S[u].slot \in DOMAIN slots'
               /\ S[u].at = "close" => S[u].slot = 0
    BY <1>2 DEF Keeps, CallInv, StepOf
  <2>2. ASSUME NEW c \in Tracees, S[c].at = "unborn"
        PROVE  M[c] = NoMaps /\ \A t \in Tracees : proc[t] = c => t = c
    <3>1. tr[c].at = "unborn" /\ maps[c] = NoMaps /\ \A t \in Tracees : proc[t] = c => t = c
      BY <1>2, <2>2 DEF Keeps, CallInv
    <3>2. c # proc[s]
      BY <3>1 DEF StepOf
    <3> QED
      BY <1>4, <3>1, <3>2
  <2>3. /\ tr' = S /\ maps' = M /\ S \in [Tracees -> CallRecord]
        /\ proc' = proc /\ proc \in [Tracees -> Tracees] /\ inbox' \in [Tracees -> Nat \cup {Eof}]
    BY <1>1, <1>2, <1>3 DEF StepOf, Keeps, CallInv
  <2> QED
    BY <2>1, <2>2, <2>3 DEF CallInv
<1>6. ASSUME ~Threads
      PROVE  /\ \A t \in Tracees : proc'[t] = t
             /\ \A t \in Tracees :
                  S[t].at \in Naming => /\ slots'[S[t].slot].valid
                                        /\ slots'[S[t].slot].gen = S[t].gen
                                        /\ M[t][S[t].slot]["pending"] > 0
  <2>1. \A t \in Tracees : proc[t] = t
    BY <1>6 DEF AloneInv
  <2>2. ASSUME NEW t \in Tracees, S[t].at \in Naming
        PROVE  /\ slots'[S[t].slot].valid
               /\ slots'[S[t].slot].gen = S[t].gen
               /\ M[t][S[t].slot]["pending"] > 0
    <3>1. PICK i : i = tr[t].slot
      OBVIOUS
    <3>2. tr[t].at \in Naming /\ S[t].slot = i /\ S[t].gen = tr[t].gen
      BY <1>2, <2>2, <3>1 DEF Keeps
    <3>3. slots[i].valid /\ slots[i].gen = tr[t].gen /\ maps[t][i]["pending"] > 0
      BY <1>6, <3>1, <3>2 DEF AloneInv
    <3>4. i \in DOMAIN slots
      BY <3>1, <3>2 DEF CallInv
    <3>5. M[t] = maps[t]
      BY <1>4, <2>1, <2>2
    <3>6. Mapped(M, i)
      BY <3>3, <3>5 DEF Mapped, Kinds
    <3>7. slots'[i].valid /\ slots'[i].gen = slots[i].gen
      BY <1>3, <3>3, <3>4, <3>6 DEF StepOf
    <3> QED
      BY <3>2, <3>3, <3>5, <3>7
  <2>3. proc' = proc
    BY DEF StepOf
  <2> QED
    BY <2>1, <2>2, <2>3
<1>7. AloneInv'
  BY <1>1, <1>3, <1>6 DEF AloneInv
<1> QED
  BY <1>5, <1>7

\* Steps that leave the segments, the mappings and the helper alone.
Unmoved == UNCHANGED <<proc, maps, slots, reqs, openFds>>

LEMMA UnmovedStep ==
  ASSUME ShmInv, NEW s \in Tracees, tr[s].at # "unborn", Unmoved, Keeps(tr'),
         inbox' \in [Tracees -> Nat \cup {Eof}]
  PROVE  ShmInv'
<1>1. HelperInv'
  BY DEF Unmoved, ShmInv, HelperInv, RemovalsComplete, NamesSlots, Mapped
<1>2. StepOf(s)
  BY DEF StepOf, Unmoved, ShmInv
<1> QED
  BY <1>1, <1>2, StepKeeps

\* Steps that also leave the tracees alone.
LEMMA NobodySteps ==
  ASSUME ShmInv, UNCHANGED <<tr, proc, inbox>>, HelperInv', maps' = maps,
         \A i \in DOMAIN slots :
           /\ i \in DOMAIN slots'
           /\ slots[i].valid /\ Mapped(maps', i) => slots'[i].valid /\ slots'[i].gen = slots[i].gen
  PROVE  ShmInv'
<1>1. CallInv'
  BY DEF ShmInv, CallInv
<1>2. ASSUME ~Threads, NEW t \in Tracees, tr[t].at \in Naming
      PROVE  slots'[tr[t].slot].valid /\ slots'[tr[t].slot].gen = tr[t].gen
  <2>1. PICK i : i = tr[t].slot
    OBVIOUS
  <2>2. i \in DOMAIN slots /\ slots[i].valid /\ slots[i].gen = tr[t].gen /\ maps[t][i]["pending"] > 0
    BY <1>2, <2>1 DEF ShmInv, CallInv, AloneInv
  <2>3. Mapped(maps', i)
    BY <2>2 DEF Mapped, Kinds
  <2> QED
    BY <2>1, <2>2, <2>3
<1>3. AloneInv'
  BY <1>2 DEF AloneInv, ShmInv
<1> QED
  BY <1>1, <1>3 DEF ShmInv

--------------------------------------------------------------------------------
(* Mappings that go *)

\* M is maps but for the row of p.
OnlyOf(p, M) == \A o \in Tracees : o # p => M[o] = maps[o]

LEMMA OneFewer ==
  ASSUME maps \in MapsType, NEW p \in Tracees, NEW i \in 1 .. MaxSlots, NEW k \in Kinds,
         maps[p][i][k] > 0, NEW M, M = [maps EXCEPT ![p][i][k] = @ - 1]
  PROVE  Fewer(M) /\ OnlyOf(p, M)
<1>1. PICK e \in Nat : e = maps[p][i][k] - 1 /\ e <= maps[p][i][k]
  <2>1. maps[p] \in [1 .. MaxSlots -> [Kinds -> Nat]]
    BY DEF MapsType
  <2>2. PICK n \in Nat : n = maps[p][i][k]
    BY <2>1
  <2>3. n - 1 \in Nat /\ n - 1 <= n
    BY <2>2
  <2> QED
    BY <2>2, <2>3
<1>2. PICK r : r = [maps[p][i] EXCEPT ![k] = e]
  OBVIOUS
<1>3. PICK m : m = [maps[p] EXCEPT ![i] = r]
  OBVIOUS
<1>4. M = [maps EXCEPT ![p] = m]
  BY <1>1, <1>2, <1>3
<1>5. maps[p] \in [1 .. MaxSlots -> [Kinds -> Nat]] /\ maps[p][i] \in [Kinds -> Nat]
  <2>1. maps[p] \in [1 .. MaxSlots -> [Kinds -> Nat]]
    BY DEF MapsType
  <2> QED
    BY <2>1
<1>6. r \in [Kinds -> Nat] /\ \A x \in Kinds : r[x] <= maps[p][i][x]
  <2>1. \A x \in Kinds : maps[p][i][x] <= maps[p][i][x] /\ r[x] = IF x = k THEN e ELSE maps[p][i][x]
    BY <1>2, <1>5
  <2> QED
    BY <1>1, <1>2, <1>5, <2>1
<1>7. m \in [1 .. MaxSlots -> [Kinds -> Nat]]
      /\ \A j \in 1 .. MaxSlots, x \in Kinds : m[j][x] <= maps[p][j][x]
  <2>1. m \in [1 .. MaxSlots -> [Kinds -> Nat]]
    BY <1>3, <1>5, <1>6
  <2>2. ASSUME NEW j \in 1 .. MaxSlots, NEW x \in Kinds
        PROVE  m[j][x] <= maps[p][j][x]
    <3>1. CASE j = i
      BY <1>3, <1>5, <1>6, <3>1
    <3>2. CASE j # i
      <4>1. m[j] = maps[p][j] /\ maps[p][j] \in [Kinds -> Nat]
        BY <1>3, <1>5, <3>2
      <4> QED
        BY <4>1
    <3> QED
      BY <3>1, <3>2
  <2> QED
    BY <2>1, <2>2
<1>8. M \in MapsType /\ M[p] = m /\ \A o \in Tracees : o # p => M[o] = maps[o]
  BY <1>4, <1>7 DEF MapsType
<1>9. ASSUME NEW o \in Tracees, NEW j \in 1 .. MaxSlots, NEW x \in Kinds
      PROVE  M[o][j][x] <= maps[o][j][x]
  <2>1. CASE o = p
    BY <1>7, <1>8, <2>1
  <2>2. CASE o # p
    <3>1. maps[o] \in [1 .. MaxSlots -> [Kinds -> Nat]]
      BY DEF MapsType
    <3>2. maps[o][j][x] \in Nat
      BY <3>1
    <3> QED
      BY <1>8, <2>2, <3>2
  <2> QED
    BY <2>1, <2>2
<1> QED
  BY <1>8, <1>9 DEF Fewer, OnlyOf

LEMMA AllGone ==
  ASSUME maps \in MapsType, NEW p \in Tracees, NEW M, M = [maps EXCEPT ![p] = NoMaps]
  PROVE  Fewer(M) /\ OnlyOf(p, M)
<1>1. NoMaps \in [1 .. MaxSlots -> [Kinds -> Nat]]
      /\ \A i \in 1 .. MaxSlots, k \in Kinds : NoMaps[i][k] = 0
  BY DEF NoMaps
<1>2. M \in MapsType /\ M[p] = NoMaps /\ \A o \in Tracees : o # p => M[o] = maps[o]
  BY <1>1 DEF MapsType
<1>3. ASSUME NEW o \in Tracees, NEW i \in 1 .. MaxSlots, NEW k \in Kinds
      PROVE  M[o][i][k] <= maps[o][i][k]
  <2>1. maps[o][i][k] \in Nat
    <3>1. maps[o] \in [1 .. MaxSlots -> [Kinds -> Nat]]
      BY DEF MapsType
    <3> QED
      BY <3>1
  <2> QED
    BY <1>1, <1>2, <2>1
<1> QED
  BY <1>2, <1>3 DEF Fewer, OnlyOf

LEMMA NoneGone ==
  ASSUME maps \in MapsType, NEW p
  PROVE  Fewer(maps) /\ OnlyOf(p, maps)
<1>1. ASSUME NEW o \in Tracees, NEW i \in 1 .. MaxSlots, NEW k \in Kinds
      PROVE  maps[o][i][k] <= maps[o][i][k]
  <2>1. maps[o] \in [1 .. MaxSlots -> [Kinds -> Nat]]
    BY DEF MapsType
  <2>2. PICK n \in Nat : n = maps[o][i][k]
    BY <2>1
  <2>3. n <= n
    OBVIOUS
  <2> QED
    BY <2>2, <2>3
<1> QED
  BY <1>1 DEF Fewer, OnlyOf

\* Mappings of the process of s go, and s is in no call that relies on one.
LEMMA UnmapStep ==
  ASSUME ShmInv, NEW s \in Tracees, tr[s].at # "unborn", NEW M, Fewer(M), OnlyOf(proc[s], M),
         Unmap(M), openFds' = openFds, proc' = proc, inbox' \in [Tracees -> Nat \cup {Eof}],
         Keeps(tr'), tr'[s].at \notin Naming
  PROVE  ShmInv'
<1>1. HelperInv' /\ DOMAIN slots' = DOMAIN slots /\ \A i \in DOMAIN slots : Mapped(M, i) => slots'[i] = slots[i]
  BY UnmapKeeps DEF ShmInv
<1>2. maps' = M
  BY DEF Unmap
<1>3. StepOf(s)
  BY <1>1, <1>2 DEF StepOf, OnlyOf
<1> QED
  BY <1>1, <1>3, StepKeeps

LEMMA WakingKeepsPlaces ==
  ASSUME NEW T, Keeps(T), WakePendingShmat(T), NEW t \in Tracees
  PROVE  tr'[t].at = T[t].at
<1>1. CASE tr' = T
  BY <1>1
<1>2. ASSUME NEW u \in Tracees, NEW r, tr' = [T EXCEPT ![u] = r], r.at = T[u].at
      PROVE  tr'[t].at = T[t].at
  BY <1>2 DEF Keeps
<1>3. ASSUME NEW u \in Tracees,
             tr' = [T EXCEPT ![u] = [T[u] EXCEPT !.cs = "socket",
                                       !.ws = IF T[u].ws = "ENTERED_PPOLL" THEN "SIGNALED_PPOLL"
                                              ELSE "RESTARTED_INTO_PPOLL_CANCELED"]]
      PROVE  tr'[t].at = T[t].at
  <2>1. PICK r : r = [T[u] EXCEPT !.cs = "socket",
                                  !.ws = IF T[u].ws = "ENTERED_PPOLL" THEN "SIGNALED_PPOLL"
                                         ELSE "RESTARTED_INTO_PPOLL_CANCELED"]
    OBVIOUS
  <2>2. T[u] \in CallRecord
    BY DEF Keeps
  <2>3. r.at = T[u].at
    BY <2>1, <2>2 DEF CallRecord
  <2> QED
    BY <1>2, <1>3, <2>1, <2>3
<1> QED
  BY <1>1, <1>3 DEF WakePendingShmat

--------------------------------------------------------------------------------
(* The steps, one lemma each *)

LEMMA ShmdtStep ==
  ASSUME ShmInv, NEW t \in Tracees, NEW i \in 1 .. MaxSlots, NEW kind \in Kinds, Shmdt(t, i, kind)
  PROVE  ShmInv'
<1>1. PICK M : M = [maps EXCEPT ![proc[t]][i][kind] = @ - 1]
  OBVIOUS
<1>2. Unmap(M) /\ UNCHANGED <<tr, proc, openFds, inbox>> /\ tr[t].at = "guest" /\ maps[proc[t]][i][kind] > 0
  BY <1>1 DEF Shmdt, Guest
<1>3. proc[t] \in Tracees /\ inbox \in [Tracees -> Nat \cup {Eof}] /\ Keeps(tr) /\ maps \in MapsType
  BY NobodyMoves DEF ShmInv, CallInv, HelperInv
<1>4. Fewer(M) /\ OnlyOf(proc[t], M)
  BY <1>1, <1>2, <1>3, OneFewer
<1>5. tr' = tr /\ "guest" \notin Naming
  BY <1>2 DEF Naming, CallStages
<1>6. Keeps(tr')
  BY <1>3, <1>5
<1> QED
  BY <1>2, <1>3, <1>4, <1>5, <1>6, UnmapStep

LEMMA CrashStep ==
  ASSUME ShmInv, NEW t \in Tracees, tr[t].at # "unborn", Crash(t)
  PROVE  ShmInv'
<1>1. UNCHANGED <<tr, proc, maps, slots, reqs, openFds, inbox>>
  BY DEF Crash
<1>2. Keeps(tr) /\ inbox \in [Tracees -> Nat \cup {Eof}]
  BY NobodyMoves DEF ShmInv, CallInv
<1>3. Keeps(tr')
  BY <1>1, <1>2
<1> QED
  BY <1>1, <1>2, <1>3, UnmovedStep DEF Unmoved

\* Where a call that is over leaves its tracee.
LEMMA Ends ==
  ASSUME CallInv, NEW t \in Tracees, NEW at \in {"guest", "close", "gone"}
  PROVE  Keeps([tr EXCEPT ![t] = [Idle EXCEPT !.at = at]])
<1>1. PICK r : r = [Idle EXCEPT !.at = at]
  OBVIOUS
<1>2. r \in CallRecord /\ r.at = at /\ r.slot = 0
  BY <1>1 DEF Idle, CallRecord, CallStages, WStates, BusyStages
<1>3. at \notin Naming /\ at # "unborn"
  BY DEF Naming, CallStages
<1>4. Keeps([tr EXCEPT ![t] = r])
  BY <1>2, <1>3, OneMoves
<1> QED
  BY <1>1, <1>4

\* A call that names a segment has a valid place for it in the mappings.
LEMMA NamedSlot ==
  ASSUME ShmInv, NEW t \in Tracees, tr[t].at \in Naming
  PROVE  /\ tr[t].slot \in DOMAIN slots /\ tr[t].slot \in 1 .. MaxSlots /\ proc[t] \in Tracees
         /\ tr[t].at # "unborn" /\ slots[tr[t].slot] \in SlotType
<1>1. tr[t].slot \in DOMAIN slots /\ proc[t] \in Tracees /\ tr[t].at # "unborn"
  BY DEF ShmInv, CallInv, Naming, CallStages
<1>2. \A i \in DOMAIN slots : i \in 1 .. MaxSlots /\ slots[i] \in SlotType
  <2>1. slots \in Seq(SlotType) /\ Len(slots) <= MaxSlots /\ MaxSlots \in Nat
    BY ShmAssumption DEF ShmInv, HelperInv
  <2> QED
    BY <2>1
<1> QED
  BY <1>1, <1>2

LEMMA GivesUpStep ==
  ASSUME ShmInv, NEW t \in Tracees, tr[t].at \in Naming, NEW next \in {"guest", "close"}, GivesUp(t, next)
  PROVE  ShmInv'
<1>1. CASE Crash(t)
  BY <1>1, NamedSlot, CrashStep
<1>2. ASSUME ~Fails(t, TRUE), Unmap([maps EXCEPT ![proc[t]][tr[t].slot]["pending"] = @ - 1]),
             Wakes([tr EXCEPT ![t] = [Idle EXCEPT !.at = next]]),
             inbox' = [inbox EXCEPT ![t] = Nothing], UNCHANGED <<proc, openFds>>
      PROVE  ShmInv'
  <2>1. PICK i : i = tr[t].slot
    OBVIOUS
  <2>2. i \in 1 .. MaxSlots /\ proc[t] \in Tracees /\ tr[t].at # "unborn"
    BY <2>1, NamedSlot
  <2>3. maps[proc[t]][i]["pending"] > 0
    <3>1. maps[proc[t]] \in [1 .. MaxSlots -> [Kinds -> Nat]] /\ "pending" \in Kinds
      BY <2>2 DEF ShmInv, HelperInv, MapsType, Kinds
    <3>2. maps[proc[t]][i]["pending"] \in Nat
      BY <2>2, <3>1
    <3>3. maps[proc[t]][i]["pending"] # 0
      BY <1>2, <2>1 DEF Fails, NoPending
    <3> QED
      BY <3>2, <3>3
  <2>4. PICK M : M = [maps EXCEPT ![proc[t]][i]["pending"] = @ - 1]
    OBVIOUS
  <2>5. Unmap(M)
    BY <1>2, <2>1, <2>4
  <2>6. Fewer(M) /\ OnlyOf(proc[t], M)
    <3>1. maps \in MapsType /\ "pending" \in Kinds
      BY DEF ShmInv, HelperInv, Kinds
    <3> QED
      BY <2>2, <2>3, <2>4, <3>1, OneFewer
  <2>7. PICK T : T = [tr EXCEPT ![t] = [Idle EXCEPT !.at = next]]
    OBVIOUS
  <2>8. Keeps(T) /\ T[t].at = next
    BY <2>7, Ends DEF ShmInv, CallInv, Idle
  <2>9. Keeps(tr') /\ tr'[t].at = next
    <3>1. WakePendingShmat(T)
      BY <1>2, <2>7 DEF Wakes
    <3>2. Keeps(tr')
      BY <2>8, <3>1, WakingMovesNobody
    <3>3. tr'[t].at = next
      BY <2>8, <3>1, WakingKeepsPlaces
    <3> QED
      BY <3>2, <3>3
  <2>10. next \notin Naming
    BY DEF Naming, CallStages
  <2>11. inbox' \in [Tracees -> Nat \cup {Eof}]
    BY <1>2 DEF ShmInv, CallInv, Nothing
  <2> QED
    BY <1>2, <2>2, <2>5, <2>6, <2>9, <2>10, <2>11, UnmapStep
<1> QED
  BY <1>1, <1>2 DEF GivesUp

\* t goes on from one call to the next; the other steps that move it alone.
LEMMA MovesOn ==
  ASSUME ShmInv, NEW t \in Tracees, tr[t].at # "unborn", NEW r \in CallRecord, tr' = [tr EXCEPT ![t] = r],
         r.at # "unborn", r.at = "close" => r.slot = 0,
         r.at \in Naming => tr[t].at \in Naming /\ r.slot = tr[t].slot /\ r.gen = tr[t].gen,
         Unmoved, inbox' \in [Tracees -> Nat \cup {Eof}]
  PROVE  ShmInv'
<1>1. Keeps([tr EXCEPT ![t] = r])
  BY OneMoves DEF ShmInv
<1>2. Keeps(tr')
  BY <1>1
<1> QED
  BY <1>2, UnmovedStep

LEMMA MovesInCall ==
  ASSUME ShmInv, NEW t \in Tracees, tr[t].at \in Naming, NEW at \in Naming,
         NEW ws \in WStates, NEW cs \in BusyStages \cup {"none", "socket"}, NEW fd \in Nat,
         tr' = [tr EXCEPT ![t] = [tr[t] EXCEPT !.at = at, !.ws = ws, !.cs = cs, !.fd = fd]],
         Unmoved, inbox' \in [Tracees -> Nat \cup {Eof}]
  PROVE  ShmInv'
<1>1. Keeps([tr EXCEPT ![t] = [tr[t] EXCEPT !.at = at, !.ws = ws, !.cs = cs, !.fd = fd]])
  BY OneGoes DEF ShmInv
<1>2. Keeps(tr')
  BY <1>1
<1>3. tr[t].at # "unborn"
  BY DEF Naming, CallStages
<1> QED
  BY <1>2, <1>3, UnmovedStep

LEMMA GoesOnKeeps ==
  ASSUME ShmInv, NEW t \in Tracees, tr[t].at \in Naming, NEW next \in {"connect", "recvmsg", "mmap"}, GoesOn(t, next)
  PROVE  Keeps(tr')
<1>1. tr \in [Tracees -> CallRecord] /\ tr[t] \in CallRecord
  BY DEF ShmInv, CallInv
<1>2. PICK ws \in WStates, fd \in Nat : ws = tr[t].ws /\ fd = tr[t].fd
  BY <1>1 DEF CallRecord
<1>3. next \in Naming /\ next \in BusyStages /\ next \in BusyStages \cup {"none", "socket"}
  BY DEF Naming, CallStages, BusyStages
<1>4. [tr[t] EXCEPT !.at = next, !.ws = ws, !.cs = next, !.fd = fd] = [tr[t] EXCEPT !.at = next, !.cs = next]
  BY <1>1, <1>2 DEF CallRecord
<1>5. tr' = [tr EXCEPT ![t] = [tr[t] EXCEPT !.at = next, !.cs = next]]
  BY <1>1 DEF GoesOn
<1>6. Keeps([tr EXCEPT ![t] = [tr[t] EXCEPT !.at = next, !.ws = ws, !.cs = next, !.fd = fd]])
  BY <1>3, OneGoes DEF ShmInv
<1> QED
  BY <1>4, <1>5, <1>6

LEMMA RegisteredStep ==
  ASSUME ShmInv, NEW t \in Tracees, tr[t].at \in Naming, NEW next \in {"connect", "recvmsg", "mmap"}, Registered(t, next)
  PROVE  ShmInv'
<1>1. CASE Crash(t)
  BY <1>1, NamedSlot, CrashStep
<1>2. ASSUME GoesOn(t, next), UNCHANGED <<proc, maps, slots, reqs, openFds, inbox>>
      PROVE  ShmInv'
  <2>1. Keeps(tr')
    BY <1>2, GoesOnKeeps
  <2>2. Unmoved /\ inbox' \in [Tracees -> Nat \cup {Eof}] /\ tr[t].at # "unborn"
    BY <1>2 DEF Unmoved, ShmInv, CallInv, Naming, CallStages
  <2> QED
    BY <2>1, <2>2, UnmovedStep
<1> QED
  BY <1>1, <1>2 DEF Registered

LEMMA AfterSocketStep ==
  ASSUME ShmInv, NEW t \in Tracees, AfterSocket(t)
  PROVE  ShmInv'
<1>1. tr[t].at \in Naming
  BY DEF AfterSocket, Naming, CallStages
<1>2. CASE Registered(t, "connect")
  BY <1>1, <1>2, RegisteredStep
<1>3. CASE GivesUp(t, "guest")
  BY <1>1, <1>3, GivesUpStep
<1> QED
  BY <1>2, <1>3 DEF AfterSocket

LEMMA ConnectStep ==
  ASSUME ShmInv, NEW t \in Tracees, Connect(t)
  PROVE  ShmInv'
<1>1. tr[t].at \in Naming /\ "connected" \in Naming
  BY DEF Connect, Naming, CallStages
<1>2. tr[t] \in CallRecord /\ tr \in [Tracees -> CallRecord]
  BY DEF ShmInv, CallInv
<1>3. PICK ws \in WStates, cs \in BusyStages \cup {"none", "socket"}, fd \in Nat :
             ws = tr[t].ws /\ cs = tr[t].cs /\ fd = tr[t].fd
  BY <1>2 DEF CallRecord
<1>4. [tr[t] EXCEPT !.at = "connected", !.ws = ws, !.cs = cs, !.fd = fd] = [tr[t] EXCEPT !.at = "connected"]
  BY <1>2, <1>3 DEF CallRecord
<1>5. tr' = [tr EXCEPT ![t] = [tr[t] EXCEPT !.at = "connected"]]
  BY DEF Connect
<1>6. tr' = [tr EXCEPT ![t] = [tr[t] EXCEPT !.at = "connected", !.ws = ws, !.cs = cs, !.fd = fd]]
  BY <1>4, <1>5
<1>7. Unmoved /\ inbox' \in [Tracees -> Nat \cup {Eof}]
  BY DEF Connect, Unmoved, ShmInv, CallInv
<1> QED
  BY <1>1, <1>6, <1>7, MovesInCall

LEMMA ConnectRefusedStep ==
  ASSUME ShmInv, NEW t \in Tracees, ConnectRefused(t)
  PROVE  ShmInv'
<1>1. tr[t].at \in Naming
  BY DEF ConnectRefused, Naming, CallStages
<1> QED
  BY <1>1, GivesUpStep DEF ConnectRefused

LEMMA AfterConnectStep ==
  ASSUME ShmInv, NEW t \in Tracees, AfterConnect(t)
  PROVE  ShmInv'
<1>1. tr[t].at \in Naming /\ "recvmsg" \in Naming /\ "recvmsg" \in BusyStages
  BY DEF AfterConnect, Naming, CallStages, BusyStages
<1>2. CASE Crash(t)
  BY <1>1, <1>2, NamedSlot, CrashStep
<1>3. CASE GivesUp(t, "close")
  BY <1>1, <1>3, GivesUpStep
<1>4. ASSUME ~Fails(t, FALSE), reqs' = Append(reqs, [op |-> "distribute", fd |-> slots[tr[t].slot].fd]),
             GoesOn(t, "recvmsg"), UNCHANGED <<proc, maps, slots, openFds, inbox>>
      PROVE  ShmInv'
  <2>1. PICK i : i = tr[t].slot
    OBVIOUS
  <2>2. i \in LiveSlots(slots) /\ slots[i] \in SlotType /\ tr[t].at # "unborn"
    BY <1>1, <1>4, <2>1, NamedSlot DEF Fails, LiveSlots
  <2>3. PICK r : r = [op |-> "distribute", fd |-> slots[i].fd]
    OBVIOUS
  <2>4. r \in ReqType /\ r.op = "distribute" /\ r.fd = slots[i].fd
    BY <2>2, <2>3 DEF ReqType, SlotType
  <2>5. InStep(openFds, Append(reqs, r), slots) /\ Append(reqs, r) \in Seq(ReqType)
    BY <2>2, <2>4, Distributes DEF ShmInv, HelperInv
  <2>6. reqs' = Append(reqs, r)
    BY <1>4, <2>1, <2>3
  <2>7. HelperInv'
    <3>1. InStep(openFds, reqs, slots)'
      BY <1>4, <2>5, <2>6
    <3>2. RemovalsComplete' /\ NamesSlots(maps)'
      BY <1>4 DEF ShmInv, HelperInv, RemovalsComplete, NamesSlots, Mapped
    <3> QED
      BY <1>4, <2>5, <2>6, <3>1, <3>2 DEF ShmInv, HelperInv
  <2>8. Keeps(tr')
    BY <1>1, <1>4, GoesOnKeeps
  <2>9. StepOf(t)
    BY <1>4, <2>2, <2>8 DEF StepOf, ShmInv, CallInv
  <2> QED
    BY <2>7, <2>9, StepKeeps
<1> QED
  BY <1>2, <1>3, <1>4 DEF AfterConnect

LEMMA AfterRecvmsgStep ==
  ASSUME ShmInv, NEW t \in Tracees, AfterRecvmsg(t)
  PROVE  ShmInv'
<1>1. tr[t].at \in Naming /\ "mmap" \in Naming /\ "mmap" \in BusyStages \cup {"none", "socket"}
  BY DEF AfterRecvmsg, Naming, CallStages, BusyStages
<1>2. CASE Crash(t)
  BY <1>1, <1>2, NamedSlot, CrashStep
<1>3. CASE GivesUp(t, "close")
  BY <1>1, <1>3, GivesUpStep
<1>4. ASSUME inbox[t] # Eof, tr' = [tr EXCEPT ![t].at = "mmap", ![t].cs = "mmap", ![t].fd = inbox[t]],
             inbox' = [inbox EXCEPT ![t] = Nothing], UNCHANGED <<proc, maps, slots, reqs, openFds>>
      PROVE  ShmInv'
  <2>1. tr \in [Tracees -> CallRecord] /\ tr[t] \in CallRecord /\ inbox \in [Tracees -> Nat \cup {Eof}]
    BY DEF ShmInv, CallInv
  <2>2. PICK ws \in WStates, fd \in Nat : ws = tr[t].ws /\ fd = inbox[t]
    BY <1>4, <2>1 DEF CallRecord
  <2>3. [tr[t] EXCEPT !.at = "mmap", !.ws = ws, !.cs = "mmap", !.fd = fd]
          = [tr[t] EXCEPT !.at = "mmap", !.cs = "mmap", !.fd = fd]
    BY <2>1, <2>2 DEF CallRecord
  <2>4. tr' = [tr EXCEPT ![t] = [tr[t] EXCEPT !.at = "mmap", !.cs = "mmap", !.fd = fd]]
    BY <1>4, <2>1, <2>2
  <2>5. tr' = [tr EXCEPT ![t] = [tr[t] EXCEPT !.at = "mmap", !.ws = ws, !.cs = "mmap", !.fd = fd]]
    BY <2>3, <2>4
  <2>6. Unmoved /\ inbox' \in [Tracees -> Nat \cup {Eof}]
    BY <1>4, <2>1 DEF Unmoved, Nothing
  <2> QED
    BY <1>1, <2>5, <2>6, MovesInCall
<1> QED
  BY <1>2, <1>3, <1>4 DEF AfterRecvmsg

LEMMA AfterCloseStep ==
  ASSUME ShmInv, NEW t \in Tracees, AfterClose(t)
  PROVE  ShmInv'
<1>1. tr \in [Tracees -> CallRecord] /\ tr[t] \in CallRecord /\ inbox \in [Tracees -> Nat \cup {Eof}]
  BY DEF ShmInv, CallInv
<1>2. PICK r : r = [tr[t] EXCEPT !.at = "guest"]
  OBVIOUS
<1>3. r \in CallRecord /\ r.at = "guest"
  BY <1>1, <1>2 DEF CallRecord
<1>4. tr' = [tr EXCEPT ![t] = r]
  BY <1>2 DEF AfterClose
<1>5. Unmoved /\ inbox' \in [Tracees -> Nat \cup {Eof}] /\ tr[t].at # "unborn"
  BY <1>1 DEF AfterClose, Unmoved
<1>6. "guest" \notin Naming
  BY DEF Naming, CallStages
<1> QED
  BY <1>3, <1>4, <1>5, <1>6, MovesOn

LEMMA KillStep ==
  ASSUME ShmInv, NEW t \in Tracees, Kill(t)
  PROVE  ShmInv'
<1>1. tr \in [Tracees -> CallRecord] /\ tr[t] \in CallRecord /\ inbox \in [Tracees -> Nat \cup {Eof}]
  BY DEF ShmInv, CallInv
<1>2. PICK r : r = [tr[t] EXCEPT !.at = "dead"]
  OBVIOUS
<1>3. r \in CallRecord /\ r.at = "dead"
  BY <1>1, <1>2 DEF CallRecord
<1>4. tr' = [tr EXCEPT ![t] = r]
  BY <1>2 DEF Kill
<1>5. Unmoved /\ inbox' \in [Tracees -> Nat \cup {Eof}] /\ tr[t].at # "unborn"
  BY <1>1 DEF Kill, Unmoved, IsAlive
<1>6. "dead" \notin Naming
  BY DEF Naming, CallStages
<1> QED
  BY <1>3, <1>4, <1>5, <1>6, MovesOn

\* A waiter goes on: EnterPpoll, PpollEnds, Signal and the end of the wait of AfterPpoll.
LEMMA GoesStep ==
  ASSUME ShmInv, NEW t \in Tracees, tr[t].at \in Naming, NEW at \in Naming, NEW ws \in WStates, Goes(t, at, ws)
  PROVE  ShmInv'
<1>1. tr \in [Tracees -> CallRecord] /\ tr[t] \in CallRecord /\ inbox \in [Tracees -> Nat \cup {Eof}]
  BY DEF ShmInv, CallInv
<1>2. PICK cs \in BusyStages \cup {"none", "socket"}, fd \in Nat : cs = tr[t].cs /\ fd = tr[t].fd
  BY <1>1 DEF CallRecord
<1>3. [tr[t] EXCEPT !.at = at, !.ws = ws, !.cs = cs, !.fd = fd] = [tr[t] EXCEPT !.at = at, !.ws = ws]
  BY <1>1, <1>2 DEF CallRecord
<1>4. tr' = [tr EXCEPT ![t] = [tr[t] EXCEPT !.at = at, !.ws = ws]]
  BY <1>1 DEF Goes
<1>5. tr' = [tr EXCEPT ![t] = [tr[t] EXCEPT !.at = at, !.ws = ws, !.cs = cs, !.fd = fd]]
  BY <1>3, <1>4
<1>6. Unmoved /\ inbox' \in [Tracees -> Nat \cup {Eof}]
  BY <1>1 DEF Goes, Unmoved
<1> QED
  BY <1>5, <1>6, MovesInCall

LEMMA WaitStep ==
  ASSUME ShmInv, NEW t \in Tracees, EnterPpoll(t) \/ PpollEnds(t) \/ Signal(t) \/ AfterPpoll(t)
  PROVE  ShmInv'
<1>1. /\ "ppoll" \in Naming /\ "ppoll_ret" \in Naming /\ "socket" \in Naming /\ "enter" \in Naming
      /\ {"ENTERED_PPOLL", "SIGNALED_PPOLL", "NOT_WAITING"} \subseteq WStates
  BY DEF Naming, CallStages, WStates, Sleeping
<1>2. CASE EnterPpoll(t)
  <2>1. PICK ws \in WStates : ws = IF tr[t].ws = "RESTARTED_INTO_PPOLL" THEN "ENTERED_PPOLL" ELSE "SIGNALED_PPOLL"
    BY <1>1
  <2> QED
    BY <1>1, <1>2, <2>1, GoesStep DEF EnterPpoll
<1>3. CASE PpollEnds(t) \/ Signal(t)
  <2>1. PICK ws \in WStates : ws = tr[t].ws
    BY <1>1, <1>3 DEF PpollEnds, Signal
  <2> QED
    BY <1>1, <1>3, <2>1, GoesStep DEF PpollEnds, Signal
<1>4. CASE AfterPpoll(t)
  <2>1. ASSUME Goes(t, "socket", "NOT_WAITING")
        PROVE  ShmInv'
    BY <1>1, <1>4, <2>1, GoesStep DEF AfterPpoll
  <2>2. ASSUME tr' = [tr EXCEPT ![t] = Idle], UNCHANGED <<proc, maps, slots, reqs, openFds, inbox>>
        PROVE  ShmInv'
    <3>1. Idle \in CallRecord /\ Idle.at = "guest" /\ "guest" \notin Naming
      BY DEF Idle, CallRecord, CallStages, WStates, BusyStages, Naming
    <3>2. Unmoved /\ inbox' \in [Tracees -> Nat \cup {Eof}] /\ tr[t].at # "unborn"
      BY <1>4, <2>2 DEF AfterPpoll, Unmoved, ShmInv, CallInv
    <3> QED
      BY <2>2, <3>1, <3>2, MovesOn
  <2> QED
    BY <1>4, <2>1, <2>2 DEF AfterPpoll
<1> QED
  BY <1>2, <1>3, <1>4

\* M is maps but for the mappings that p has of slot i, which are r.
RowIs(M, p, i, r) ==
  /\ M \in MapsType /\ OnlyOf(p, M) /\ M[p][i] = r
  /\ \A j \in 1 .. MaxSlots : j # i => (Mapped(M, j) <=> Mapped(maps, j))

LEMMA OneRow ==
  ASSUME maps \in MapsType, NEW p \in Tracees, NEW i \in 1 .. MaxSlots, NEW r \in [Kinds -> Nat],
         NEW M, M = [maps EXCEPT ![p] = [maps[p] EXCEPT ![i] = r]]
  PROVE  RowIs(M, p, i, r)
<1>1. maps[p] \in [1 .. MaxSlots -> [Kinds -> Nat]]
  BY DEF MapsType
<1>2. PICK m : m = [maps[p] EXCEPT ![i] = r]
  OBVIOUS
<1>3. m \in [1 .. MaxSlots -> [Kinds -> Nat]] /\ m[i] = r /\ \A j \in 1 .. MaxSlots : j # i => m[j] = maps[p][j]
  BY <1>1, <1>2
<1>4. M = [maps EXCEPT ![p] = m]
  BY <1>2
<1>5. M \in MapsType /\ M[p] = m /\ \A o \in Tracees : o # p => M[o] = maps[o]
  BY <1>3, <1>4 DEF MapsType
<1>6. ASSUME NEW j \in 1 .. MaxSlots, j # i
      PROVE  Mapped(M, j) <=> Mapped(maps, j)
  <2>1. \A o \in Tracees : M[o][j] = maps[o][j]
    BY <1>3, <1>5, <1>6
  <2> QED
    BY <2>1 DEF Mapped
<1> QED
  BY <1>3, <1>5, <1>6 DEF OnlyOf, RowIs

\* New mappings, of segments that are there.
LEMMA MapsGrow ==
  ASSUME HelperInv, NEW M \in MapsType, maps' = M, UNCHANGED <<slots, reqs, openFds>>,
         \A j \in DOMAIN slots : /\ Mapped(maps, j) => Mapped(M, j)
                                 /\ Mapped(M, j) => Mapped(maps, j) \/ slots[j].valid,
         NamesSlots(M)
  PROVE  HelperInv'
<1>1. \A j \in DOMAIN slots : (slots[j].rmid => Mapped(M, j)) /\ (Mapped(M, j) => slots[j].valid)
  BY DEF HelperInv, RemovalsComplete
<1>2. RemovalsComplete'
  BY <1>1 DEF RemovalsComplete, Mapped
<1>3. InStep(openFds, reqs, slots)'
  BY DEF HelperInv
<1>4. NamesSlots(maps)'
  BY DEF NamesSlots, Mapped
<1> QED
  BY <1>2, <1>3, <1>4 DEF HelperInv

LEMMA AfterMmapStep ==
  ASSUME ShmInv, NEW t \in Tracees, AfterMmap(t)
  PROVE  ShmInv'
<1>1. tr[t].at \in Naming
  BY DEF AfterMmap, Naming, CallStages
<1>2. CASE Crash(t)
  BY <1>1, <1>2, NamedSlot, CrashStep
<1>3. ASSUME ~Fails(t, TRUE), NEW kind \in {"attached", "failed"},
             maps' = [maps EXCEPT ![proc[t]][tr[t].slot]["pending"] = @ - 1,
                                  ![proc[t]][tr[t].slot][kind] = @ + 1],
             WakePendingShmat([tr EXCEPT ![t] = [Idle EXCEPT !.at = "close"]]),
             UNCHANGED <<proc, slots, reqs, openFds, inbox>>
      PROVE  ShmInv'
  <2>1. PICK p, i : p = proc[t] /\ i = tr[t].slot
    OBVIOUS
  <2>2. i \in 1 .. MaxSlots /\ i \in DOMAIN slots /\ p \in Tracees /\ tr[t].at # "unborn"
    BY <1>1, <2>1, NamedSlot
  <2>3. maps \in MapsType /\ maps[p] \in [1 .. MaxSlots -> [Kinds -> Nat]] /\ maps[p][i] \in [Kinds -> Nat]
    <3>1. maps \in MapsType
      BY DEF ShmInv, HelperInv
    <3>2. maps[p] \in [1 .. MaxSlots -> [Kinds -> Nat]]
      BY <2>2, <3>1 DEF MapsType
    <3> QED
      BY <2>2, <3>1, <3>2
  <2>4. PICK e \in Nat, f \in Nat : e = maps[p][i]["pending"] - 1 /\ f = maps[p][i][kind] + 1 /\ maps[p][i]["pending"] > 0
    <3>1. maps[p][i]["pending"] \in Nat /\ maps[p][i][kind] \in Nat
      BY <2>3 DEF Kinds
    <3>2. maps[p][i]["pending"] # 0
      BY <1>3, <2>1 DEF Fails, NoPending
    <3>3. maps[p][i]["pending"] - 1 \in Nat /\ maps[p][i][kind] + 1 \in Nat /\ maps[p][i]["pending"] > 0
      BY <3>1, <3>2
    <3> QED
      BY <3>3
  <2>5. PICK r : r = [maps[p][i] EXCEPT !["pending"] = e, ![kind] = f]
    OBVIOUS
  <2>6. r \in [Kinds -> Nat] /\ r[kind] = f /\ f > 0 /\ kind \in Kinds
    <3>1. r \in [Kinds -> Nat] /\ r[kind] = f
      BY <2>3, <2>5 DEF Kinds
    <3>2. f > 0
      <4>1. maps[p][i][kind] \in Nat
        BY <2>3 DEF Kinds
      <4>2. PICK k \in Nat : k = maps[p][i][kind]
        BY <4>1
      <4> QED
        BY <2>4, <4>2
    <3> QED
      BY <3>1, <3>2 DEF Kinds
  <2>7. PICK M : M = [maps EXCEPT ![p] = [maps[p] EXCEPT ![i] = r]]
    OBVIOUS
  <2>8. maps' = M
    BY <1>3, <2>1, <2>2, <2>3, <2>4, <2>5, <2>7
  <2>9. /\ M \in MapsType /\ OnlyOf(p, M) /\ M[p][i] = r
        /\ \A j \in 1 .. MaxSlots : j # i => (Mapped(M, j) <=> Mapped(maps, j))
    <3>1. RowIs(M, p, i, r)
      BY <2>2, <2>3, <2>6, <2>7, OneRow
    <3> QED
      BY <3>1 DEF RowIs
  <2>10. Mapped(M, i) /\ Mapped(maps, i)
    BY <2>2, <2>4, <2>6, <2>9 DEF Mapped, Kinds
  <2>11. \A j \in DOMAIN slots : Mapped(M, j) <=> Mapped(maps, j)
    <3>1. \A j \in DOMAIN slots : j \in 1 .. MaxSlots
      <4>1. slots \in Seq(SlotType) /\ Len(slots) <= MaxSlots /\ MaxSlots \in Nat
        BY ShmAssumption DEF ShmInv, HelperInv
      <4> QED
        BY <4>1
    <3> QED
      BY <2>9, <2>10, <3>1
  <2>12. HelperInv'
    <3>1. NamesSlots(M)
      BY <2>2, <2>9 DEF NamesSlots, ShmInv, HelperInv
    <3> QED
      BY <1>3, <2>8, <2>9, <2>11, <3>1, MapsGrow DEF ShmInv
  <2>13. PICK T : T = [tr EXCEPT ![t] = [Idle EXCEPT !.at = "close"]]
    OBVIOUS
  <2>14. Keeps(T) /\ T[t].at = "close"
    BY <2>13, Ends DEF ShmInv, CallInv, Idle
  <2>15. Keeps(tr') /\ tr'[t].at = "close"
    <3>1. WakePendingShmat(T)
      BY <1>3, <2>13
    <3>2. Keeps(tr')
      BY <2>14, <3>1, WakingMovesNobody
    <3>3. tr'[t].at = "close"
      BY <2>14, <3>1, WakingKeepsPlaces
    <3> QED
      BY <3>2, <3>3
  <2>16. StepOf(t)
    BY <1>3, <2>1, <2>2, <2>8, <2>9, <2>15 DEF StepOf, OnlyOf, Naming, ShmInv, CallInv
  <2> QED
    BY <2>12, <2>16, StepKeeps
<1>4. ASSUME UNCHANGED maps, WakePendingShmat([tr EXCEPT ![t] = [Idle EXCEPT !.at = "close"]]),
             UNCHANGED <<proc, slots, reqs, openFds, inbox>>
      PROVE  ShmInv'
  <2>1. tr[t].at # "unborn" /\ HelperInv
    BY <1>1, NamedSlot DEF ShmInv
  <2>2. HelperInv'
    BY <1>4, <2>1, MapsGrow DEF HelperInv
  <2>3. PICK T : T = [tr EXCEPT ![t] = [Idle EXCEPT !.at = "close"]]
    OBVIOUS
  <2>4. Keeps(T) /\ T[t].at = "close"
    BY <2>3, Ends DEF ShmInv, CallInv, Idle
  <2>5. Keeps(tr') /\ tr'[t].at = "close"
    BY <1>4, <2>3, <2>4, WakingMovesNobody, WakingKeepsPlaces
  <2>6. StepOf(t)
    BY <1>4, <2>1, <2>5 DEF StepOf, ShmInv, CallInv
  <2> QED
    BY <2>2, <2>6, StepKeeps
<1> QED
  BY <1>2, <1>3, <1>4 DEF AfterMmap

\* The slots a segment may be in are among those of the model.
LEMMA SlotsAre ==
  ASSUME HelperInv
  PROVE  \A i \in DOMAIN slots : i \in 1 .. MaxSlots /\ slots[i] \in SlotType
<1>1. slots \in Seq(SlotType) /\ Len(slots) <= MaxSlots /\ MaxSlots \in Nat
  BY ShmAssumption DEF HelperInv
<1> QED
  BY <1>1

\* shmat of slot i takes t to r.
LEMMA NamesSlot ==
  ASSUME ShmInv, HelperInv', NEW t \in Tracees, tr[t].at = "guest", NEW i \in DOMAIN slots, slots[i].valid,
         NEW r \in CallRecord, r.at \in Naming, r.slot = i, r.gen = slots[i].gen,
         NEW S, S = [tr EXCEPT ![t] = r], tr' = S,
         NEW M, OnlyOf(proc[t], M), M[proc[t]][i]["pending"] > 0, maps' = M,
         UNCHANGED <<proc, slots, inbox>>
  PROVE  ShmInv'
<1>1. /\ tr \in [Tracees -> CallRecord]
      /\ \A c \in Tracees : tr[c].at = "unborn" => /\ maps[c] = NoMaps
                                                   /\ \A u \in Tracees : proc[u] = c => u = c
  BY DEF ShmInv, CallInv
<1>2. S \in [Tracees -> CallRecord] /\ S[t] = r /\ \A u \in Tracees : u # t => S[u] = tr[u]
  BY <1>1
<1>3. ASSUME NEW c \in Tracees, S[c].at = "unborn"
      PROVE  M[c] = NoMaps /\ \A u \in Tracees : proc[u] = c => u = c
  <2>1. c # t /\ S[c] = tr[c]
    BY <1>2, <1>3 DEF Naming, CallStages
  <2>2. maps[c] = NoMaps /\ \A u \in Tracees : proc[u] = c => u = c
    BY <1>1, <1>3, <2>1
  <2>3. c # proc[t]
    BY <2>1, <2>2
  <2> QED
    BY <2>2, <2>3 DEF OnlyOf
<1>4. ASSUME NEW u \in Tracees
      PROVE  (S[u].at \in Naming => S[u].slot \in DOMAIN slots) /\ (S[u].at = "close" => S[u].slot = 0)
  <2>1. CASE u = t
    BY <1>2, <2>1 DEF Naming
  <2>2. CASE u # t
    BY <1>2, <2>2 DEF ShmInv, CallInv
  <2> QED
    BY <2>1, <2>2
<1>5. CallInv'
  BY <1>2, <1>3, <1>4 DEF ShmInv, CallInv
<1>6. ASSUME ~Threads
      PROVE  /\ \A u \in Tracees : proc[u] = u
             /\ \A u \in Tracees :
                  S[u].at \in Naming => /\ slots[S[u].slot].valid
                                        /\ slots[S[u].slot].gen = S[u].gen
                                        /\ M[u][S[u].slot]["pending"] > 0
  <2>1. \A u \in Tracees : proc[u] = u
    BY <1>6 DEF ShmInv, AloneInv
  <2>2. ASSUME NEW u \in Tracees, S[u].at \in Naming
        PROVE  /\ slots[S[u].slot].valid
               /\ slots[S[u].slot].gen = S[u].gen
               /\ M[u][S[u].slot]["pending"] > 0
    <3>1. CASE u = t
      BY <1>2, <2>1, <3>1
    <3>2. CASE u # t
      <4>1. S[u] = tr[u] /\ M[u] = maps[u]
        BY <1>2, <2>1, <3>2 DEF OnlyOf
      <4> QED
        BY <1>6, <2>2, <4>1 DEF ShmInv, AloneInv
    <3> QED
      BY <3>1, <3>2
  <2> QED
    BY <2>1, <2>2
<1>7. AloneInv'
  BY <1>6 DEF AloneInv
<1> QED
  BY <1>5, <1>7 DEF ShmInv

LEMMA ShmatStep ==
  ASSUME ShmInv, NEW t \in Tracees, NEW path, NEW i \in 1 .. MaxSlots, Shmat(t, path, i)
  PROVE  ShmInv'
<1>1. /\ tr[t].at = "guest" /\ i \in DOMAIN slots /\ slots[i].valid /\ maps' = Registers(proc[t], i)
      /\ UNCHANGED <<proc, slots, reqs, openFds, inbox>>
  BY DEF Shmat, Guest
<1>2. PICK p \in Tracees : p = proc[t]
  BY DEF ShmInv, CallInv
<1>3. maps \in MapsType /\ maps[p] \in [1 .. MaxSlots -> [Kinds -> Nat]] /\ maps[p][i] \in [Kinds -> Nat]
  <2>1. maps \in MapsType
    BY DEF ShmInv, HelperInv
  <2>2. maps[p] \in [1 .. MaxSlots -> [Kinds -> Nat]]
    BY <1>2, <2>1 DEF MapsType
  <2> QED
    BY <2>1, <2>2
<1>4. PICK e \in Nat : e = maps[p][i]["pending"] + 1 /\ e > 0
  <2>1. PICK n \in Nat : n = maps[p][i]["pending"]
    BY <1>3 DEF Kinds
  <2>2. n + 1 \in Nat /\ n + 1 > 0
    OBVIOUS
  <2> QED
    BY <2>1, <2>2
<1>5. PICK r : r = [maps[p][i] EXCEPT !["pending"] = e]
  OBVIOUS
<1>6. r \in [Kinds -> Nat] /\ r["pending"] = e
  BY <1>3, <1>5 DEF Kinds
<1>7. PICK M : M = [maps EXCEPT ![p] = [maps[p] EXCEPT ![i] = r]]
  OBVIOUS
<1>8. maps' = M
  BY <1>1, <1>2, <1>3, <1>4, <1>5, <1>7 DEF Registers
<1>9. /\ M \in MapsType /\ OnlyOf(p, M) /\ M[p][i] = r
      /\ \A j \in 1 .. MaxSlots : j # i => (Mapped(M, j) <=> Mapped(maps, j))
  <2>1. RowIs(M, p, i, r)
    BY <1>3, <1>6, <1>7, OneRow
  <2> QED
    BY <2>1 DEF RowIs
<1>10. Mapped(M, i)
  BY <1>4, <1>6, <1>9 DEF Mapped, Kinds
<1>11. \A j \in DOMAIN slots : /\ Mapped(maps, j) => Mapped(M, j)
                               /\ Mapped(M, j) => Mapped(maps, j) \/ slots[j].valid
  <2>1. \A j \in DOMAIN slots : j \in 1 .. MaxSlots
    BY SlotsAre DEF ShmInv
  <2> QED
    BY <1>1, <1>9, <1>10, <2>1
<1>12. HelperInv'
  <2>1. NamesSlots(M)
    BY <1>1, <1>9 DEF NamesSlots, ShmInv, HelperInv
  <2> QED
    BY <1>1, <1>8, <1>9, <1>11, <2>1, MapsGrow DEF ShmInv
<1>13. ASSUME NEW d \in CallRecord, d.at \in Naming, d.slot = i, d.gen = slots[i].gen,
              tr' = [tr EXCEPT ![t] = d]
       PROVE  ShmInv'
  <2>1. M[proc[t]][i]["pending"] > 0 /\ OnlyOf(proc[t], M)
    BY <1>2, <1>4, <1>6, <1>9
  <2>2. PICK S : S = [tr EXCEPT ![t] = d]
    OBVIOUS
  <2>3. tr' = S
    BY <1>13, <2>2
  <2> QED
    BY <1>1, <1>8, <1>12, <1>13, <2>1, <2>2, <2>3, NamesSlot
<1>14. PICK c : c = [tr[t] EXCEPT !.slot = i, !.gen = slots[i].gen]
  OBVIOUS
<1>15. c \in CallRecord /\ c.slot = i /\ c.gen = slots[i].gen
  <2>1. tr[t] \in CallRecord /\ slots[i].gen \in Nat /\ i \in Nat
    BY <1>1, SlotsAre DEF ShmInv, CallInv, SlotType
  <2> QED
    BY <1>14, <2>1 DEF CallRecord
<1>16. CASE tr' = [tr EXCEPT ![t] = [c EXCEPT !.at = "ppoll", !.ws = "ENTERED_PPOLL"]]
  <2>1. PICK d : d = [c EXCEPT !.at = "ppoll", !.ws = "ENTERED_PPOLL"]
    OBVIOUS
  <2>2. d \in CallRecord /\ d.slot = i /\ d.gen = slots[i].gen /\ d.at \in Naming
    BY <1>15, <2>1 DEF CallRecord, CallStages, Naming, WStates, Sleeping
  <2> QED
    BY <1>13, <1>16, <2>1, <2>2
<1>17. CASE tr' = [tr EXCEPT ![t] = [c EXCEPT !.at = "enter", !.ws = "RESTARTED_INTO_PPOLL"]]
  <2>1. PICK d : d = [c EXCEPT !.at = "enter", !.ws = "RESTARTED_INTO_PPOLL"]
    OBVIOUS
  <2>2. d \in CallRecord /\ d.slot = i /\ d.gen = slots[i].gen /\ d.at \in Naming
    BY <1>15, <2>1 DEF CallRecord, CallStages, Naming, WStates, Sleeping
  <2> QED
    BY <1>13, <1>17, <2>1, <2>2
<1>18. CASE tr' = [tr EXCEPT ![t] = [c EXCEPT !.at = "socket", !.cs = "socket"]]
  <2>1. PICK d : d = [c EXCEPT !.at = "socket", !.cs = "socket"]
    OBVIOUS
  <2>2. d \in CallRecord /\ d.slot = i /\ d.gen = slots[i].gen /\ d.at \in Naming
    BY <1>15, <2>1 DEF CallRecord, CallStages, Naming
  <2> QED
    BY <1>13, <1>18, <2>1, <2>2
<1> QED
  BY <1>14, <1>16, <1>17, <1>18 DEF Shmat

\* Without a mapping being made or undone, slots, pipe and descriptors become sl, q and open.
LEMMA SlotsBecome ==
  ASSUME ShmInv, UNCHANGED <<tr, proc, maps, inbox>>, NEW sl \in Seq(SlotType), Len(sl) <= MaxSlots,
         NEW q \in Seq(ReqType), NEW open, InStep(open, q, sl), slots' = sl, reqs' = q, openFds' = open,
         \A i \in DOMAIN sl : (sl[i].rmid => Mapped(maps, i)) /\ (Mapped(maps, i) => sl[i].valid),
         \A i \in DOMAIN slots : /\ i \in DOMAIN sl
                                 /\ slots[i].valid /\ Mapped(maps, i) => sl[i].gen = slots[i].gen
  PROVE  ShmInv'
<1>1. RemovalsComplete'
  BY DEF RemovalsComplete, Mapped
<1>2. NamesSlots(maps)'
  BY DEF ShmInv, HelperInv, NamesSlots, Mapped
<1>3. HelperInv'
  BY <1>1, <1>2 DEF ShmInv, HelperInv
<1>4. \A i \in DOMAIN slots :
        /\ i \in DOMAIN slots'
        /\ slots[i].valid /\ Mapped(maps', i) => slots'[i].valid /\ slots'[i].gen = slots[i].gen
  BY DEF Mapped
<1> QED
  BY <1>3, <1>4, NobodySteps

\* The helper does not see what does not change the descriptors.
LEMMA SameFds ==
  ASSUME NEW open, NEW q, NEW sl, NEW sl2, InStep(open, q, sl),
         \A i : i \in LiveSlots(sl2) <=> i \in LiveSlots(sl),
         \A i \in LiveSlots(sl) : sl2[i].fd = sl[i].fd
  PROVE  InStep(open, q, sl2)
<1>1. \A x : x \in {sl[i].fd : i \in LiveSlots(sl)} <=> x \in {sl2[i].fd : i \in LiveSlots(sl2)}
  OBVIOUS
<1> QED
  BY <1>1 DEF InStep

LEMMA RmidStep ==
  ASSUME ShmInv, NEW t \in Tracees, NEW i \in 1 .. MaxSlots, Rmid(t, i)
  PROVE  ShmInv'
<1>1. /\ i \in DOMAIN slots /\ slots[i].valid /\ slots[i] \in SlotType
      /\ UNCHANGED <<tr, proc, maps, openFds, inbox>>
  BY SlotsAre DEF Rmid, ShmInv
<1>2. PICK sl \in Seq(SlotType), q \in Seq(ReqType) : sl = slots /\ q = reqs /\ Len(sl) <= MaxSlots
  BY DEF ShmInv, HelperInv
<1>3. InStep(openFds, q, sl)
  BY <1>2 DEF ShmInv, HelperInv
<1>4. \A j \in DOMAIN sl : (sl[j].rmid => Mapped(maps, j)) /\ (Mapped(maps, j) => sl[j].valid)
  BY <1>2 DEF ShmInv, HelperInv, RemovalsComplete
<1>5. ASSUME NEW s \in SlotType
      PROVE  /\ [sl EXCEPT ![i] = s] \in Seq(SlotType) /\ Len([sl EXCEPT ![i] = s]) = Len(sl)
             /\ DOMAIN [sl EXCEPT ![i] = s] = DOMAIN sl
             /\ \A j \in DOMAIN sl : [sl EXCEPT ![i] = s][j] = IF j = i THEN s ELSE sl[j]
  <2>1. i \in 1 .. Len(sl)
    BY <1>1, <1>2
  <2> QED
    BY <1>5, <2>1, ExceptSeq
<1>6. CASE WaitsForMaps(i) /\ slots' = [slots EXCEPT ![i].rmid = TRUE] /\ UNCHANGED reqs
  <2>1. PICK s : s = [sl[i] EXCEPT !.rmid = TRUE]
    OBVIOUS
  <2>2. s \in SlotType /\ s.valid /\ s.gen = sl[i].gen /\ s.fd = sl[i].fd
    BY <1>1, <1>2, <2>1 DEF SlotType
  <2>3. PICK sl2 : sl2 = [sl EXCEPT ![i] = s]
    OBVIOUS
  <2>4. /\ sl2 \in Seq(SlotType) /\ Len(sl2) = Len(sl) /\ DOMAIN sl2 = DOMAIN sl
        /\ \A j \in DOMAIN sl : sl2[j] = IF j = i THEN s ELSE sl[j]
    BY <1>5, <2>2, <2>3
  <2>5. slots' = sl2
    BY <1>2, <1>6, <2>1, <2>3
  <2>6. InStep(openFds, q, sl2)
    <3>1. sl[i].valid /\ i \in DOMAIN sl
      BY <1>1, <1>2
    <3>2. \A j \in DOMAIN sl : sl2[j].valid = sl[j].valid /\ sl2[j].fd = sl[j].fd
      BY <2>2, <2>4, <3>1 DEF SlotType
    <3>3. \A j : j \in LiveSlots(sl2) <=> j \in LiveSlots(sl)
      BY <2>4, <3>2 DEF LiveSlots
    <3>4. \A j \in LiveSlots(sl) : sl2[j].fd = sl[j].fd
      BY <3>2 DEF LiveSlots
    <3> QED
      BY <1>3, <3>3, <3>4, SameFds
  <2>7. \A j \in DOMAIN sl2 : (sl2[j].rmid => Mapped(maps, j)) /\ (Mapped(maps, j) => sl2[j].valid)
    BY <1>4, <1>6, <2>2, <2>4 DEF WaitsForMaps
  <2>8. \A j \in DOMAIN slots : /\ j \in DOMAIN sl2
                                /\ slots[j].valid /\ Mapped(maps, j) => sl2[j].gen = slots[j].gen
    BY <1>2, <2>2, <2>4
  <2> QED
    BY <1>1, <1>2, <1>6, <2>4, <2>5, <2>6, <2>7, <2>8, SlotsBecome
<1>7. CASE ~WaitsForMaps(i) /\ slots' = [slots EXCEPT ![i] = Removed(@)] /\ reqs' = Append(reqs, FreeRequest(slots[i]))
  <2>1. PICK s : s = Removed(sl[i])
    OBVIOUS
  <2>2. s \in SlotType /\ s.valid = FALSE /\ s.rmid = FALSE
    BY <1>1, <1>2, <2>1, RemovedIs
  <2>3. PICK sl2 : sl2 = [sl EXCEPT ![i] = s]
    OBVIOUS
  <2>4. /\ sl2 \in Seq(SlotType) /\ Len(sl2) = Len(sl) /\ DOMAIN sl2 = DOMAIN sl
        /\ \A j \in DOMAIN sl : sl2[j] = IF j = i THEN s ELSE sl[j]
    BY <1>5, <2>2, <2>3
  <2>5. slots' = sl2
    BY <1>2, <1>7, <2>1, <2>3
  <2>6. PICK r : r = FreeRequest(sl[i])
    OBVIOUS
  <2>7. r \in ReqType /\ r.op = "free" /\ r.fd = sl[i].fd
    BY <1>1, <1>2, <2>6 DEF FreeRequest, ReqType, SlotType
  <2>8. PICK q2 : q2 = Append(q, r)
    OBVIOUS
  <2>9. reqs' = q2 /\ q2 \in Seq(ReqType)
    BY <1>2, <1>7, <2>6, <2>7, <2>8
  <2>9a. PICK l \in Nat : l = Len(q)
    OBVIOUS
  <2>10. PICK o : o = [k \in 1 .. 1 |-> i]
    OBVIOUS
  <2>11. /\ o \in [1 .. 1 -> LiveSlots(sl)] /\ \A k \in 1 .. 1 : o[k] = i
         /\ \A k, m \in 1 .. 1 : o[k] = o[m] => k = m
    BY <1>1, <1>2, <2>10 DEF LiveSlots
  <2>12. AndThenFrees(q, l, q2, sl, 1, o)
    <3>1. /\ DOMAIN q = 1 .. l /\ Len(q) = l /\ DOMAIN q2 = 1 .. l + 1 /\ Len(q2) = l + 1
          /\ q2[l + 1] = r /\ \A k \in 1 .. l : q2[k] = q[k]
      BY <2>7, <2>8, <2>9a
    <3>2. \A k \in 1 .. 1 : k = 1
      OBVIOUS
    <3> QED
      BY <2>7, <2>11, <3>1, <3>2 DEF AndThenFrees
  <2>13. AreRemoved(sl, sl2, 1, o)
    <3>1. 1 \in 1 .. 1
      OBVIOUS
    <3> QED
      BY <2>2, <2>4, <2>11, <3>1 DEF AreRemoved, LiveSlots
  <2>14. InStep(openFds, q2, sl2)
    BY <1>3, <2>11, <2>12, <2>13, SlotsFreed
  <2>15. \A j \in DOMAIN sl2 : (sl2[j].rmid => Mapped(maps, j)) /\ (Mapped(maps, j) => sl2[j].valid)
    BY <1>4, <1>7, <2>2, <2>4 DEF WaitsForMaps
  <2>16. \A j \in DOMAIN slots : /\ j \in DOMAIN sl2
                                 /\ slots[j].valid /\ Mapped(maps, j) => sl2[j].gen = slots[j].gen
    BY <1>2, <1>7, <2>4 DEF WaitsForMaps
  <2> QED
    BY <1>1, <1>2, <2>4, <2>5, <2>9, <2>14, <2>15, <2>16, SlotsBecome
<1> QED
  BY <1>6, <1>7 DEF Rmid

\* A set of natural numbers has a least one.
LEMMA MinIs ==
  ASSUME NEW S \in SUBSET Nat, S # {}
  PROVE  Min(S) \in S
<1>1. PICK x \in S : \A y \in S : ~ (<<y, x>> \in OpToRel(<, Nat))
  BY NatLessThanWellFounded, WFMin
<1>2. OpToRel(<, Nat) = {ss \in Nat \X Nat : ss[1] < ss[2]}
  BY Zenon DEF OpToRel
<1>3. ASSUME NEW y \in S
      PROVE  x =< y
  <2>1. <<y, x>> \in Nat \X Nat
    OBVIOUS
  <2>2. ~ (y < x)
    BY <1>1, <1>2, <2>1
  <2> QED
    BY <2>2
<1> QED
  BY <1>3 DEF Min

\* As many descriptors as slots: one more is always to be had.
LEMMA FreshFd ==
  ASSUME HelperInv, reqs = <<>>
  PROVE  Min((1 .. MaxSlots + 1) \ openFds) \in Nat \ openFds
<1>1. MaxSlots \in Nat
  BY ShmAssumption
<1>2. ASSUME NEW fd \in 1 .. MaxSlots + 1
      PROVE  fd \in Nat
  BY <1>1
<1>3. PICK q : q = reqs
  OBVIOUS
<1>4. Len(q) = 0 /\ FreedIn(q, 0) = {}
  BY <1>3 DEF FreedIn
<1>5. openFds = {slots[i].fd : i \in LiveSlots(slots)}
  BY <1>3, <1>4 DEF HelperInv, InStep
<1>6. ASSUME \A fd \in 1 .. MaxSlots + 1 : fd \in openFds
      PROVE  FALSE
  <2>1. PICK f : f = [fd \in 1 .. MaxSlots + 1 |-> CHOOSE i \in LiveSlots(slots) : slots[i].fd = fd]
    OBVIOUS
  <2>2. ASSUME NEW fd \in 1 .. MaxSlots + 1
        PROVE  f[fd] \in LiveSlots(slots) /\ slots[f[fd]].fd = fd
    <3>1. \E i \in LiveSlots(slots) : slots[i].fd = fd
      BY <1>5, <1>6
    <3> QED
      BY <2>1, <3>1
  <2>3. \A i \in LiveSlots(slots) : i \in 1 .. MaxSlots
    BY SlotsAre DEF LiveSlots
  <2>4. f \in [1 .. MaxSlots + 1 -> 1 .. MaxSlots]
    BY <2>1, <2>2, <2>3
  <2>5. /\ IsFiniteSet(1 .. MaxSlots + 1) /\ IsFiniteSet(1 .. MaxSlots)
        /\ Cardinality(1 .. MaxSlots) < Cardinality(1 .. MaxSlots + 1)
    <3>1. /\ IsFiniteSet(1 .. MaxSlots + 1) /\ IsFiniteSet(1 .. MaxSlots)
          /\ Cardinality(1 .. MaxSlots) = IF 1 > MaxSlots THEN 0 ELSE MaxSlots - 1 + 1
          /\ Cardinality(1 .. MaxSlots + 1) = IF 1 > MaxSlots + 1 THEN 0 ELSE (MaxSlots + 1) - 1 + 1
      <4>1. 1 \in Int /\ MaxSlots \in Int /\ MaxSlots + 1 \in Int
        BY <1>1
      <4> QED
        BY <4>1, FS_Interval
    <3> QED
      BY <1>1, <3>1
  <2>6. PICK x, y \in 1 .. MaxSlots + 1 : x # y /\ f[x] = f[y]
    BY <2>4, <2>5, FS_PigeonHole
  <2> QED
    BY <2>2, <2>6
<1>7. (1 .. MaxSlots + 1) \ openFds # {}
  BY <1>6
<1>8. (1 .. MaxSlots + 1) \ openFds \in SUBSET Nat
  BY <1>2
<1>9. Min((1 .. MaxSlots + 1) \ openFds) \in (1 .. MaxSlots + 1) \ openFds
  BY <1>7, <1>8, MinIs
<1> QED
  BY <1>2, <1>9

LEMMA ShmgetStep ==
  ASSUME ShmInv, NEW t \in Tracees, NEW key \in Keys, Shmget(t, key)
  PROVE  ShmInv'
<1>1. reqs = <<>> /\ UNCHANGED <<tr, proc, maps, reqs, inbox>>
  BY DEF Shmget
<1>2. PICK fd : fd = Min((1 .. MaxSlots + 1) \ openFds)
  OBVIOUS
<1>3. fd \in Nat /\ fd \notin openFds
  BY <1>1, <1>2, FreshFd DEF ShmInv
<1>4. PICK sl \in Seq(SlotType) : sl = slots /\ Len(sl) <= MaxSlots
  BY DEF ShmInv, HelperInv
<1>5. PICK l \in Nat : l = Len(sl) /\ DOMAIN sl = 1 .. l
  OBVIOUS
<1>6. PICK q \in Seq(ReqType) : q = reqs /\ q = <<>>
  BY <1>1 DEF ShmInv, HelperInv
<1>7. InStep(openFds, q, sl) /\ \A j \in 1 .. l : (sl[j].rmid => Mapped(maps, j)) /\ (Mapped(maps, j) => sl[j].valid)
  BY <1>4, <1>5, <1>6 DEF ShmInv, HelperInv, RemovalsComplete
<1>8. InStep(openFds, <<>>, sl)
  BY <1>6, <1>7
<1>9. PICK s : s = [key |-> key, gen |-> 0, valid |-> TRUE, rmid |-> FALSE, fd |-> fd]
  OBVIOUS
<1>10. s \in SlotType /\ s.valid /\ s.fd = fd /\ ~s.rmid
  BY <1>3, <1>9 DEF SlotType
<1>11. ASSUME NEW i \in 1 .. l, ~sl[i].valid, openFds' = openFds \cup {fd},
              slots' = [slots EXCEPT ![i] = [key |-> key, gen |-> slots[i].gen, valid |-> TRUE, rmid |-> FALSE, fd |-> fd]]
       PROVE  ShmInv'
  <2>1. PICK e : e = [key |-> key, gen |-> sl[i].gen, valid |-> TRUE, rmid |-> FALSE, fd |-> fd]
    OBVIOUS
  <2>2. e \in SlotType /\ e.valid /\ e.fd = fd /\ ~e.rmid /\ e.gen = sl[i].gen
    <3>1. sl[i] \in SlotType
      BY <1>5
    <3>2. sl[i].gen \in Nat
      BY <3>1 DEF SlotType
    <3> QED
      BY <1>3, <2>1, <3>2 DEF SlotType
  <2>3. PICK sl2 : sl2 = [sl EXCEPT ![i] = e]
    OBVIOUS
  <2>4. /\ sl2 \in Seq(SlotType) /\ Len(sl2) = l /\ DOMAIN sl2 = 1 .. l
        /\ \A j \in 1 .. l : sl2[j] = IF j = i THEN e ELSE sl[j]
    BY <1>5, <2>2, <2>3, ExceptSeq
  <2>5. slots' = sl2
    BY <1>4, <1>11, <2>1, <2>3
  <2>6. InStep(openFds \cup {fd}, <<>>, sl2)
    <3>1. LiveSlots(sl2) = LiveSlots(sl) \cup {i} /\ i \notin LiveSlots(sl)
      BY <1>5, <1>11, <2>2, <2>4 DEF LiveSlots
    <3>2. sl2[i].fd = fd /\ \A j \in LiveSlots(sl) : sl2[j].fd = sl[j].fd
      BY <1>5, <1>11, <2>2, <2>4 DEF LiveSlots
    <3> QED
      BY <1>3, <1>8, <3>1, <3>2, SlotCreated
  <2>7. InStep(openFds \cup {fd}, q, sl2)
    BY <1>6, <2>6
  <2>8. \A j \in DOMAIN sl2 : (sl2[j].rmid => Mapped(maps, j)) /\ (Mapped(maps, j) => sl2[j].valid)
    BY <1>7, <2>2, <2>4
  <2>9. \A j \in DOMAIN slots : /\ j \in DOMAIN sl2
                                /\ slots[j].valid /\ Mapped(maps, j) => sl2[j].gen = slots[j].gen
    BY <1>4, <1>5, <2>2, <2>4
  <2>10. Len(sl2) <= MaxSlots
    BY <1>4, <1>5, <2>4
  <2> QED
    BY <1>1, <1>6, <1>11, <2>4, <2>5, <2>7, <2>8, <2>9, <2>10, SlotsBecome
\* A slot is appended, with a segment in it or without.
<1>12. ASSUME NEW e \in SlotType, ~e.rmid, l < MaxSlots, slots' = Append(slots, e),
              NEW open, openFds' = open,
              \/ e.valid /\ e.fd = fd /\ open = openFds \cup {fd}
              \/ ~e.valid /\ open = openFds /\ ~Mapped(maps, l + 1)
       PROVE  ShmInv'
  <2>1. PICK sl2 : sl2 = Append(sl, e)
    OBVIOUS
  <2>2. /\ sl2 \in Seq(SlotType) /\ Len(sl2) = l + 1 /\ DOMAIN sl2 = 1 .. l + 1
        /\ sl2[l + 1] = e /\ \A j \in 1 .. l : sl2[j] = sl[j]
    BY <1>5, <2>1
  <2>3. slots' = sl2
    BY <1>4, <1>12, <2>1
  <2>4. \A j \in 1 .. l + 1 : j \in 1 .. l \/ j = l + 1
    OBVIOUS
  <2>5. \A j \in 1 .. l : j \in 1 .. l + 1 /\ j # l + 1
    OBVIOUS
  <2>6. InStep(open, q, sl2)
    <3>1. CASE e.valid /\ e.fd = fd /\ open = openFds \cup {fd}
      <4>1. l + 1 \notin LiveSlots(sl) /\ l + 1 \in 1 .. l + 1
        BY <1>5 DEF LiveSlots
      <4>2. LiveSlots(sl2) = LiveSlots(sl) \cup {l + 1}
        <5>1. \A j : j \in LiveSlots(sl2) <=> j \in LiveSlots(sl) \/ j = l + 1
          BY <1>5, <2>2, <2>4, <2>5, <3>1, <4>1 DEF LiveSlots
        <5> QED
          BY <5>1
      <4>3. sl2[l + 1].fd = fd /\ \A j \in LiveSlots(sl) : sl2[j].fd = sl[j].fd
        BY <1>5, <2>2, <3>1 DEF LiveSlots
      <4>4. InStep(openFds \cup {fd}, <<>>, sl2)
        BY <1>3, <1>8, <4>1, <4>2, <4>3, SlotCreated
      <4> QED
        BY <1>6, <3>1, <4>4
    <3>2. CASE ~e.valid /\ open = openFds
      <4>1. \A j : j \in LiveSlots(sl2) <=> j \in LiveSlots(sl)
        BY <1>5, <2>2, <2>4, <2>5, <3>2 DEF LiveSlots
      <4>2. \A j \in LiveSlots(sl) : sl2[j].fd = sl[j].fd
        BY <1>5, <2>2 DEF LiveSlots
      <4> QED
        BY <1>7, <3>2, <4>1, <4>2, SameFds
    <3> QED
      BY <1>12, <3>1, <3>2
  <2>7. \A j \in DOMAIN sl2 : (sl2[j].rmid => Mapped(maps, j)) /\ (Mapped(maps, j) => sl2[j].valid)
    BY <1>7, <1>12, <2>2, <2>4
  <2>8. \A j \in DOMAIN slots : /\ j \in DOMAIN sl2
                                /\ slots[j].valid /\ Mapped(maps, j) => sl2[j].gen = slots[j].gen
    BY <1>4, <1>5, <2>2, <2>5
  <2>9. Len(sl2) <= MaxSlots
    BY <1>12, <2>2, ShmAssumption
  <2> QED
    BY <1>1, <1>6, <1>12, <2>2, <2>3, <2>6, <2>7, <2>8, <2>9, SlotsBecome
<1>13. PICK unused : unused = {i \in DOMAIN slots : ~slots[i].valid}
  OBVIOUS
<1>14. CASE unused # {} /\ openFds' = openFds \cup {fd}
            /\ slots' = [slots EXCEPT ![Min(unused)] = [key |-> key, gen |-> slots[Min(unused)].gen, valid |-> TRUE, rmid |-> FALSE, fd |-> fd]]
  <2>1. unused \in SUBSET Nat /\ \A i \in unused : i \in 1 .. l /\ ~sl[i].valid
    BY <1>4, <1>5, <1>13
  <2>2. PICK i \in 1 .. l : i = Min(unused) /\ ~sl[i].valid
    BY <1>14, <2>1, MinIs
  <2> QED
    BY <1>11, <1>14, <2>2
<1>15. CASE Len(slots) < MaxSlots /\ slots' = Append(slots, s) /\ openFds' = openFds \cup {fd}
  BY <1>4, <1>5, <1>10, <1>12, <1>15
<1>16. CASE Len(slots) < MaxSlots /\ UNCHANGED openFds
            /\ slots' = Append(slots, [key |-> key, gen |-> 0, valid |-> FALSE, rmid |-> FALSE, fd |-> 0])
  <2>1. PICK e : e = [key |-> key, gen |-> 0, valid |-> FALSE, rmid |-> FALSE, fd |-> 0]
    OBVIOUS
  <2>2. e \in SlotType /\ ~e.rmid /\ ~e.valid
    BY <2>1 DEF SlotType
  <2>3. ~Mapped(maps, l + 1)
    <3>1. l + 1 \in 1 .. MaxSlots /\ l + 1 \notin 1 .. l
      BY <1>4, <1>5, <1>16, ShmAssumption
    <3> QED
      BY <1>4, <1>5, <3>1 DEF ShmInv, HelperInv, NamesSlots
  <2> QED
    BY <1>4, <1>5, <1>12, <1>16, <2>1, <2>2, <2>3
<1> QED
  BY <1>2, <1>9, <1>13, <1>14, <1>15, <1>16 DEF Shmget

LEMMA ReapStep ==
  ASSUME ShmInv, NEW t \in Tracees, Reap(t)
  PROVE  ShmInv'
<1>1. /\ tr[t].at = "dead" /\ tr' = [tr EXCEPT ![t] = [Idle EXCEPT !.at = "gone"]]
      /\ inbox' = [inbox EXCEPT ![t] = Nothing] /\ UNCHANGED <<proc, openFds>>
      /\ Unmap(IF Sharing(t) = {t} THEN [maps EXCEPT ![proc[t]] = NoMaps] ELSE maps)
  BY DEF Reap
<1>2. proc[t] \in Tracees /\ maps \in MapsType
  BY DEF ShmInv, CallInv, HelperInv
<1>3. PICK M : M = IF Sharing(t) = {t} THEN [maps EXCEPT ![proc[t]] = NoMaps] ELSE maps
  OBVIOUS
<1>4. Unmap(M)
  BY <1>1, <1>3
<1>5. Fewer(M) /\ OnlyOf(proc[t], M)
  <2>1. CASE M = maps
    BY <1>2, <2>1, NoneGone
  <2>2. CASE M = [maps EXCEPT ![proc[t]] = NoMaps]
    BY <1>2, <2>2, AllGone
  <2> QED
    BY <1>3, <2>1, <2>2
<1>6. PICK T : T = [tr EXCEPT ![t] = [Idle EXCEPT !.at = "gone"]]
  OBVIOUS
<1>7. Keeps(T) /\ T[t].at = "gone"
  BY <1>6, Ends DEF ShmInv, CallInv, Idle
<1>8. Keeps(tr') /\ tr'[t].at \notin Naming
  BY <1>1, <1>6, <1>7 DEF Naming, CallStages
<1>9. inbox' \in [Tracees -> Nat \cup {Eof}]
  BY <1>1 DEF ShmInv, CallInv, Nothing
<1> QED
  BY <1>1, <1>4, <1>5, <1>8, <1>9, UnmapStep

LEMMA ShmExecStep ==
  ASSUME ShmInv, NEW t \in Tracees, ShmExec(t)
  PROVE  ShmInv'
<1>1. /\ tr[t].at = "guest" /\ UNCHANGED <<proc, openFds, inbox>>
      /\ Unmap([maps EXCEPT ![proc[t]] = NoMaps])
  BY DEF ShmExec, Guest
<1>2. /\ proc[t] \in Tracees /\ maps \in MapsType /\ inbox \in [Tracees -> Nat \cup {Eof}]
      /\ tr \in [Tracees -> CallRecord] /\ \A u \in Tracees : tr[u].at = "close" => tr[u].slot = 0
  BY DEF ShmInv, CallInv, HelperInv
<1>3. PICK M : M = [maps EXCEPT ![proc[t]] = NoMaps]
  OBVIOUS
<1>4. Unmap(M) /\ Fewer(M) /\ OnlyOf(proc[t], M)
  BY <1>1, <1>2, <1>3, AllGone
<1>5. Keeps(tr') /\ tr'[t].at = "guest"
  <2>1. CASE tr' = tr
    <3>1. Keeps(tr)
      BY NobodyMoves DEF ShmInv
    <3> QED
      BY <1>1, <2>1, <3>1
  <2>2. CASE tr' = [u \in Tracees |-> IF u \in Sharing(t) \ {t} THEN [tr[u] EXCEPT !.at = "dead"] ELSE tr[u]]
    <3>1. PICK S : S = [u \in Tracees |-> IF u \in Sharing(t) \ {t} THEN [tr[u] EXCEPT !.at = "dead"] ELSE tr[u]]
      OBVIOUS
    <3>2. ASSUME NEW u \in Tracees
          PROVE  /\ S[u] \in CallRecord
                 /\ S[u] = tr[u] \/ S[u].at = "dead"
                 /\ u = t => S[u] = tr[u]
      <4>1. PICK r : r = [tr[u] EXCEPT !.at = "dead"]
        OBVIOUS
      <4>2. r \in CallRecord /\ r.at = "dead"
        BY <1>2, <4>1 DEF CallRecord
      <4>3. S[u] = IF u \in Sharing(t) \ {t} THEN r ELSE tr[u]
        BY <3>1, <4>1
      <4> QED
        BY <1>2, <4>2, <4>3
    <3>3. S \in [Tracees -> CallRecord]
      BY <3>1, <3>2
    <3>4. Keeps(S)
      BY <1>2, <3>2, <3>3 DEF Keeps, Naming, CallStages
    <3> QED
      BY <1>1, <2>2, <3>1, <3>2, <3>4
  <2> QED
    BY <2>1, <2>2 DEF ShmExec
<1>6. "guest" \notin Naming
  BY DEF Naming, CallStages
<1>7. tr[t].at # "unborn" /\ inbox' \in [Tracees -> Nat \cup {Eof}]
  BY <1>1, <1>2
<1> QED
  BY <1>1, <1>4, <1>5, <1>6, <1>7, UnmapStep

LEMMA CloneStep ==
  ASSUME ShmInv, NEW t \in Tracees, NEW c \in Tracees, NEW thread \in BOOLEAN, ShmClone(t, c, thread)
  PROVE  ShmInv'
<1>1. /\ tr[t].at = "guest" /\ tr[c].at = "unborn" /\ (thread => Threads)
      /\ tr' = [tr EXCEPT ![c] = Idle] /\ UNCHANGED <<slots, reqs, openFds, inbox>>
      /\ proc' = [proc EXCEPT ![c] = IF thread THEN proc[t] ELSE c]
      /\ maps' = IF thread THEN maps ELSE [maps EXCEPT ![c] = maps[proc[t]]]
  BY DEF ShmClone, Guest, Inherits
<1>2. /\ tr \in [Tracees -> CallRecord] /\ proc \in [Tracees -> Tracees] /\ maps \in MapsType
      /\ \A u \in Tracees : tr[u].at = "unborn" => /\ maps[u] = NoMaps
                                                   /\ \A v \in Tracees : proc[v] = u => v = u
  BY DEF ShmInv, CallInv, HelperInv
<1>3. PICK S, P, M : /\ S = [tr EXCEPT ![c] = Idle]
                     /\ P = [proc EXCEPT ![c] = IF thread THEN proc[t] ELSE c]
                     /\ M = IF thread THEN maps ELSE [maps EXCEPT ![c] = maps[proc[t]]]
  OBVIOUS
<1>4. tr' = S /\ proc' = P /\ maps' = M
  BY <1>1, <1>3
<1>5. t # c /\ proc[t] # c /\ maps[c] = NoMaps
  <2>1. tr[t].at = "guest" /\ tr[c].at = "unborn"
    BY <1>1
  <2>2. t # c
    BY <2>1
  <2>3. maps[c] = NoMaps /\ \A v \in Tracees : proc[v] = c => v = c
    BY <1>2, <2>1
  <2> QED
    BY <2>2, <2>3
<1>6. S \in [Tracees -> CallRecord] /\ S[c] = Idle /\ \A u \in Tracees : u # c => S[u] = tr[u]
  <2>1. Idle \in CallRecord
    BY DEF Idle, CallRecord, CallStages, WStates, BusyStages
  <2> QED
    BY <1>2, <1>3, <2>1
<1>7. /\ P \in [Tracees -> Tracees] /\ P[c] = IF thread THEN proc[t] ELSE c
      /\ \A u \in Tracees : u # c => P[u] = proc[u]
  BY <1>2, <1>3
<1>8. /\ M \in MapsType /\ \A u \in Tracees : u # c => M[u] = maps[u]
      /\ M[c] = maps[c] \/ M[c] = maps[proc[t]]
  BY <1>2, <1>3 DEF MapsType
<1>9. ASSUME NEW i \in 1 .. MaxSlots
      PROVE  Mapped(M, i) <=> Mapped(maps, i)
  <2>1. ASSUME NEW k \in Kinds
        PROVE  ~(maps[c][i][k] > 0)
    BY <1>5 DEF NoMaps
  <2>2. Mapped(M, i) => Mapped(maps, i)
    <3>1. ASSUME NEW u \in Tracees, NEW k \in Kinds, M[u][i][k] > 0
          PROVE  Mapped(maps, i)
      <4>1. \E v \in Tracees : M[u] = maps[v]
        BY <1>2, <1>8
      <4> QED
        BY <3>1, <4>1 DEF Mapped
    <3> QED
      BY <3>1 DEF Mapped
  <2>3. Mapped(maps, i) => Mapped(M, i)
    <3>1. ASSUME NEW u \in Tracees, NEW k \in Kinds, maps[u][i][k] > 0
          PROVE  Mapped(M, i)
      <4>1. u # c
        BY <2>1, <3>1
      <4>2. M[u] = maps[u]
        BY <1>8, <4>1
      <4> QED
        BY <3>1, <4>2 DEF Mapped
    <3> QED
      BY <3>1 DEF Mapped
  <2> QED
    BY <2>2, <2>3
<1>10. HelperInv'
  <2>1. NamesSlots(M)
    BY <1>9 DEF NamesSlots, ShmInv, HelperInv
  <2>2. \A j \in DOMAIN slots : /\ Mapped(maps, j) => Mapped(M, j)
                                /\ Mapped(M, j) => Mapped(maps, j) \/ slots[j].valid
    BY <1>9, SlotsAre DEF ShmInv
  <2> QED
    BY <1>1, <1>4, <1>8, <2>1, <2>2, MapsGrow DEF ShmInv
<1>11. CallInv'
  <2>1. ASSUME NEW u \in Tracees, S[u].at = "unborn"
        PROVE  M[u] = NoMaps /\ \A v \in Tracees : P[v] = u => v = u
    <3>1. u # c /\ u # t /\ tr[u].at = "unborn"
      <4>1. tr[t].at = "guest" /\ Idle.at = "guest"
        BY <1>1 DEF Idle
      <4>2. u # c
        BY <1>6, <2>1, <4>1
      <4> QED
        BY <1>6, <2>1, <4>1, <4>2
    <3>2. maps[u] = NoMaps /\ \A v \in Tracees : proc[v] = u => v = u
      BY <1>2, <3>1
    <3> QED
      BY <1>7, <1>8, <3>1, <3>2
  <2>2. ASSUME NEW u \in Tracees
        PROVE  (S[u].at \in Naming => S[u].slot \in DOMAIN slots) /\ (S[u].at = "close" => S[u].slot = 0)
    <3>1. Idle.at = "guest" /\ "guest" \notin Naming
      BY DEF Idle, Naming, CallStages
    <3> QED
      BY <1>6, <3>1 DEF ShmInv, CallInv
  <2> QED
    BY <1>1, <1>4, <1>6, <1>7, <2>1, <2>2 DEF ShmInv, CallInv
<1>12. ASSUME ~Threads
       PROVE  /\ \A u \in Tracees : P[u] = u
              /\ \A u \in Tracees :
                   S[u].at \in Naming => /\ slots[S[u].slot].valid
                                         /\ slots[S[u].slot].gen = S[u].gen
                                         /\ M[u][S[u].slot]["pending"] > 0
  <2>1. \A u \in Tracees : P[u] = u
    <3>1. ~thread
      BY <1>1, <1>12
    <3>2. \A u \in Tracees : proc[u] = u
      BY <1>12 DEF ShmInv, AloneInv
    <3> QED
      BY <1>7, <3>1, <3>2
  <2>2. ASSUME NEW u \in Tracees, S[u].at \in Naming
        PROVE  S[u] = tr[u] /\ M[u] = maps[u]
    <3>1. Idle.at \notin Naming
      BY DEF Idle, Naming, CallStages
    <3> QED
      BY <1>6, <1>8, <2>2, <3>1
  <2> QED
    BY <1>12, <2>1, <2>2 DEF ShmInv, AloneInv
<1>13. AloneInv'
  BY <1>1, <1>4, <1>12 DEF AloneInv
<1> QED
  BY <1>10, <1>11, <1>13 DEF ShmInv

LEMMA HelperStep ==
  ASSUME ShmInv, Helper
  PROVE  ShmInv'
<1>1. PICK q \in Seq(ReqType) : q = reqs
  BY DEF ShmInv, HelperInv
<1>2. q # <<>> /\ reqs' = Tail(q) /\ UNCHANGED <<tr, proc, maps, slots>>
  BY <1>1 DEF Helper, HelperFree, HelperDistribute
<1>3. PICK open : open = IF Head(q).op = "free" THEN openFds \ {Head(q).fd} ELSE openFds
  OBVIOUS
<1>4. openFds' = open
  BY <1>1, <1>3 DEF Helper, HelperFree, HelperDistribute
<1>5. InStep(open, Tail(q), slots) /\ Tail(q) \in Seq(ReqType)
  BY <1>1, <1>2, <1>3, HeadServed DEF ShmInv, HelperInv
<1>6. RemovalsComplete' /\ NamesSlots(maps)'
  BY <1>2 DEF ShmInv, HelperInv, RemovalsComplete, NamesSlots, Mapped
<1>7. HelperInv'
  BY <1>2, <1>4, <1>5, <1>6 DEF ShmInv, HelperInv
<1>8. inbox' \in [Tracees -> Nat \cup {Eof}]
  <2>1. inbox \in [Tracees -> Nat \cup {Eof}]
    BY DEF ShmInv, CallInv
  <2>2. Head(q).fd \in Nat
    <3>1. Head(q) \in ReqType
      BY <1>2
    <3> QED
      BY <3>1 DEF ReqType
  <2> QED
    BY <1>1, <2>1, <2>2 DEF Helper, HelperFree, HelperDistribute
<1>9. CallInv' /\ AloneInv'
  BY <1>2, <1>8 DEF ShmInv, CallInv, AloneInv
<1> QED
  BY <1>7, <1>9 DEF ShmInv

--------------------------------------------------------------------------------
(* The theorems *)

LEMMA ShmInvInit == ShmInit => ShmInv
<1> SUFFICES ASSUME ShmInit PROVE ShmInv
  OBVIOUS
<1> USE DEF ShmInit
<1>1. slots \in Seq(SlotType) /\ Len(slots) <= MaxSlots /\ reqs \in Seq(ReqType) /\ DOMAIN slots = {}
  BY ShmAssumption
<1>2. NoMaps \in [1 .. MaxSlots -> [Kinds -> Nat]] /\ \A i \in 1 .. MaxSlots, k \in Kinds : ~(NoMaps[i][k] > 0)
  BY DEF NoMaps
<1>3. \A i \in 1 .. MaxSlots : ~Mapped(maps, i)
  BY <1>2 DEF Mapped
<1>4. PICK q, sl : q = <<>> /\ sl = <<>>
  OBVIOUS
<1>5. InStep({}, q, sl)
  <2>1. Len(q) = 0 /\ DOMAIN q = {} /\ FreedIn(q, 0) = {} /\ LiveSlots(sl) = {}
    BY <1>4 DEF FreedIn, LiveSlots
  <2> QED
    BY <2>1 DEF InStep
<1>6. HelperInv
  BY <1>1, <1>2, <1>3, <1>4, <1>5 DEF HelperInv, MapsType, RemovalsComplete, NamesSlots
<1>7. /\ Idle \in CallRecord /\ Unborn \in CallRecord
      /\ Idle.at = "guest" /\ Unborn.at = "unborn" /\ "guest" \notin Naming /\ "unborn" \notin Naming
  BY DEF Idle, Unborn, CallRecord, CallStages, WStates, BusyStages, Naming
<1>8. CallInv
  BY <1>7 DEF CallInv, Nothing
<1>9. AloneInv
  BY <1>7 DEF AloneInv
<1> QED
  BY <1>6, <1>8, <1>9 DEF ShmInv

LEMMA ShmInvNext == ShmInv /\ [ShmNext]_shmVars => ShmInv'
<1> SUFFICES ASSUME ShmInv, [ShmNext]_shmVars PROVE ShmInv'
  OBVIOUS
<1>1. CASE UNCHANGED shmVars
  BY <1>1 DEF shmVars, ShmInv, HelperInv, RemovalsComplete, NamesSlots, Mapped, CallInv, AloneInv
<1>2. CASE Helper
  BY <1>2, HelperStep
<1>3. ASSUME NEW t \in Tracees, Progress(t)
      PROVE  ShmInv'
  BY <1>3, AfterSocketStep, ConnectStep, ConnectRefusedStep, AfterConnectStep, AfterRecvmsgStep,
     AfterMmapStep, AfterCloseStep, WaitStep, ReapStep DEF Progress
<1>4. ASSUME NEW t \in Tracees, NEW key \in Keys, Shmget(t, key)
      PROVE  ShmInv'
  BY <1>4, ShmgetStep
<1>5. ASSUME NEW t \in Tracees, NEW i \in 1 .. MaxSlots, Rmid(t, i)
      PROVE  ShmInv'
  BY <1>5, RmidStep
<1>6. ASSUME NEW t \in Tracees, NEW i \in 1 .. MaxSlots, NEW kind \in Kinds, Shmdt(t, i, kind)
      PROVE  ShmInv'
  BY <1>6, ShmdtStep
<1>7. ASSUME NEW t \in Tracees, NEW i \in 1 .. MaxSlots, NEW path, Shmat(t, path, i)
      PROVE  ShmInv'
  BY <1>7, ShmatStep
<1>8. ASSUME NEW t \in Tracees, NEW c \in Tracees, NEW thread \in BOOLEAN, ShmClone(t, c, thread)
      PROVE  ShmInv'
  BY <1>8, CloneStep
<1>9. ASSUME NEW t \in Tracees, ShmExec(t) \/ Signal(t) \/ Kill(t)
      PROVE  ShmInv'
  BY <1>9, ShmExecStep, WaitStep, KillStep
<1> QED
  BY <1>1, <1>2, <1>3, <1>4, <1>5, <1>6, <1>7, <1>8, <1>9 DEF ShmNext

(***************************************************************************)
(* The helper has open what PRoot thinks it has, although PRoot waits for  *)
(* none of its requests but those of shmget (sysvipc_shm_send_helper_request),*)
(* and no removal of a segment is lost or early                            *)
(* (sysvipc_shm_memmap_destructor, sysvipc_shmctl).                        *)
(***************************************************************************)
THEOREM HelperAlwaysInStep == ShmSpec => [](RemovalsComplete /\ HelperInStep)
<1>1. ShmInv => RemovalsComplete /\ HelperInStep
  BY HelperInStepIs DEF ShmInv, HelperInv
<1> QED
  BY <1>1, ShmInvInit, ShmInvNext, PTL DEF ShmSpec

(***************************************************************************)
(* What PRoot knows of the segments is true when no two tracees share a    *)
(* process: the slot that a shmat looked up once still holds its segment   *)
(* at each of its stops (sysvipc_shmat_chain).  With threads, a sibling's  *)
(* shmdt(0) or execve takes the pending mapping away.                      *)
(***************************************************************************)
THEOREM SegmentsAlwaysKept == ~Threads => (ShmSpec => []SegmentsKept)
<1>1. ~Threads /\ ShmInv => SegmentsKept
  <2> SUFFICES ASSUME ~Threads, ShmInv PROVE SegmentsKept
    OBVIOUS
  <2>1. RemovalsComplete /\ HelperInStep
    BY HelperInStepIs DEF ShmInv, HelperInv
  <2>2. SegmentStays
    <3> SUFFICES ASSUME NEW t \in Tracees, InShmat(t), tr[t].slot # 0
                 PROVE  slots[tr[t].slot].valid /\ slots[tr[t].slot].gen = tr[t].gen /\ ~NoPending(t)
      BY DEF SegmentStays
    <3>1. tr[t].at \in Naming
      BY DEF InShmat, Naming, ShmInv, CallInv
    <3>2. proc[t] = t /\ slots[tr[t].slot].valid /\ slots[tr[t].slot].gen = tr[t].gen
          /\ maps[t][tr[t].slot]["pending"] > 0
      BY <3>1 DEF ShmInv, AloneInv
    <3>3. ~(0 > 0)
      OBVIOUS
    <3> QED
      BY <3>2, <3>3 DEF NoPending
  <2> QED
    BY <2>1, <2>2 DEF SegmentsKept
<1> SUFFICES ASSUME ~Threads PROVE ShmSpec => []SegmentsKept
  OBVIOUS
<1>2. ShmInv => SegmentsKept
  BY <1>1
<1> QED
  BY <1>2, ShmInvInit, ShmInvNext, PTL DEF ShmSpec

\* Without threads nobody takes away what a call relies on.
LEMMA NothingFails ==
  ASSUME ShmInv, ~Threads, NEW t \in Tracees, tr[t].at \in Naming, NEW needs \in BOOLEAN
  PROVE  ~Fails(t, needs)
<1>1. proc[t] = t /\ slots[tr[t].slot].valid /\ maps[t][tr[t].slot]["pending"] > 0
  BY DEF ShmInv, AloneInv
<1>2. ~(0 > 0)
  OBVIOUS
<1> QED
  BY <1>1, <1>2 DEF Fails, NoPending

LEMMA NoCrashNext == ASSUME ShmInv, ~Threads, [ShmNext]_shmVars PROVE crashed' = crashed
<1>1. CASE UNCHANGED shmVars
  BY <1>1 DEF shmVars
<1>2. CASE Helper
  BY <1>2 DEF Helper, HelperFree, HelperDistribute
<1>3. ASSUME NEW t \in Tracees, Progress(t)
      PROVE  crashed' = crashed
  <2>1. CASE tr[t].at \in Naming
    <3>1. ~Fails(t, TRUE) /\ ~Fails(t, FALSE)
      BY <2>1, NothingFails
    <3> QED
      BY <1>3, <3>1 DEF Progress, AfterSocket, Connect, ConnectRefused, AfterConnect, AfterRecvmsg, AfterMmap,
         AfterClose, EnterPpoll, PpollEnds, AfterPpoll, Reap, Registered, GivesUp, Goes
  <2>2. CASE tr[t].at \notin Naming
    BY <1>3, <2>2 DEF Progress, AfterSocket, Connect, ConnectRefused, AfterConnect, AfterRecvmsg, AfterMmap,
       AfterClose, EnterPpoll, PpollEnds, AfterPpoll, Reap, Naming, CallStages
  <2> QED
    BY <2>1, <2>2
<1>4. ASSUME NEW t \in Tracees,
             \/ \E key \in Keys : Shmget(t, key)
             \/ \E i \in 1 .. MaxSlots : \/ Rmid(t, i)
                                         \/ \E kind \in Kinds : Shmdt(t, i, kind)
                                         \/ \E path \in EntryPaths : Shmat(t, path, i)
             \/ \E c \in Tracees, thread \in BOOLEAN : ShmClone(t, c, thread)
             \/ ShmExec(t) \/ Signal(t) \/ Kill(t)
      PROVE  crashed' = crashed
  BY <1>4 DEF Shmget, Rmid, Shmdt, Shmat, ShmClone, ShmExec, Signal, Kill, Goes
<1> QED
  BY <1>1, <1>2, <1>3, <1>4 DEF ShmNext

(***************************************************************************)
(* No assert() of sysvipc_shmat_chain fails when no two tracees share a    *)
(* process: assert(shm->valid) and assert(!"No pending mapping found").    *)
(***************************************************************************)
THEOREM AssertsHold == ~Threads => (ShmSpec => []ChainAsserts)
<1> SUFFICES ASSUME ~Threads PROVE ShmSpec => []ChainAsserts
  OBVIOUS
<1>1. ShmInit => ChainAsserts
  BY DEF ShmInit, ChainAsserts
<1>2. ShmInv /\ ChainAsserts /\ [ShmNext]_shmVars => ChainAsserts'
  BY NoCrashNext DEF ChainAsserts
<1> QED
  BY <1>1, <1>2, ShmInvInit, ShmInvNext, PTL DEF ShmSpec

--------------------------------------------------------------------------------
(* The handlers of calls *)

\* The name a call is about is its first, and it is followed unless the kernel keeps it.
NamedAsKernel(call, flags, names) ==
    \E n \in names : /\ \A m \in names : n.reg <= m.reg
                     /\ n.followed = ~KernelKeeps(call, flags)

LEMMA OneName ==
  ASSUME NEW call, NEW flags, NEW reg \in Nat, NEW dir, NEW followed \in BOOLEAN,
         followed <=> ~KernelKeeps(call, flags)
  PROVE  NamedAsKernel(call, flags, {Name(reg, dir, followed)})
BY DEF NamedAsKernel, Name

LEMMA FirstName ==
  ASSUME NEW call, NEW flags, NEW first, NEW second, first.reg \in Nat, first.reg <= second.reg,
         first.followed = ~KernelKeeps(call, flags)
  PROVE  NamedAsKernel(call, flags, {first, second})
BY DEF NamedAsKernel

\* Calls whose name is always followed: in every list but these the kernel does not keep it.
LEMMA FollowedNames ==
  ASSUME NEW call \in (FirstFollowed \cup AtFollowed) \ Deviating, NEW flags
  PROVE  NamedAsKernel(call, flags, NamesWhich(call, flags))
<1>1. ~KernelKeeps(call, flags)
  BY DEF KernelKeeps, FirstFollowed, AtFollowed, Deviating, Opens
<1>2. CASE call \in FirstFollowed
  <2>1. NamesWhich(call, flags) = {Name(1, 0, TRUE)}
    BY <1>2 DEF NamesWhich, FirstFollowed, FirstKept, AtByFlag, AtFollowed, AtKept, Opens
  <2>3. NamedAsKernel(call, flags, {Name(1, 0, TRUE)})
    BY <1>1, OneName
  <2> QED
    BY <2>1, <2>3
<1>3. CASE call \in AtFollowed
  <2>1. NamesWhich(call, flags) = {Name(2, 1, TRUE)}
    BY <1>3 DEF NamesWhich, FirstFollowed, FirstKept, AtByFlag, AtFollowed, AtKept, Opens
  <2>3. NamedAsKernel(call, flags, {Name(2, 1, TRUE)})
    BY <1>1, OneName
  <2> QED
    BY <2>1, <2>3
<1> QED
  BY <1>2, <1>3

\* Calls whose name is never followed.
LEMMA KeptNames ==
  ASSUME NEW call \in FirstKept \cup AtKept, NEW flags
  PROVE  NamedAsKernel(call, flags, NamesWhich(call, flags))
<1>1. KernelKeeps(call, flags)
  BY DEF KernelKeeps, FirstKept, AtKept
<1>2. CASE call \in FirstKept
  <2>1. NamesWhich(call, flags) = {Name(1, 0, FALSE)}
    BY <1>2 DEF NamesWhich, FirstFollowed, FirstKept, AtByFlag, AtFollowed, AtKept, Opens
  <2>3. NamedAsKernel(call, flags, {Name(1, 0, FALSE)})
    BY <1>1, OneName
  <2> QED
    BY <2>1, <2>3
<1>3. CASE call \in AtKept
  <2>1. NamesWhich(call, flags) = {Name(2, 1, FALSE)}
    BY <1>3 DEF NamesWhich, FirstFollowed, FirstKept, AtByFlag, AtFollowed, AtKept, Opens
  <2>3. NamedAsKernel(call, flags, {Name(2, 1, FALSE)})
    BY <1>1, OneName
  <2> QED
    BY <2>1, <2>3
<1> QED
  BY <1>2, <1>3

\* Calls whose flags tell.
LEMMA FlaggedNames ==
  ASSUME NEW call \in (AtByFlag \cup Opens \cup {"inotify_add_watch", "statx"}) \ Deviating, NEW flags
  PROVE  NamedAsKernel(call, flags, NamesWhich(call, flags))
<1>1. CASE call \in AtByFlag
  <2>1. NamesWhich(call, flags) = AtFlagNames(flags)
    BY <1>1 DEF NamesWhich, FirstFollowed, FirstKept, AtByFlag, AtFollowed, AtKept, Opens
  <2>2. KernelKeeps(call, flags) <=> "AT_SYMLINK_NOFOLLOW" \in flags
    BY <1>1 DEF KernelKeeps, AtByFlag, Opens, Deviating
  <2>3. NamedAsKernel(call, flags, AtFlagNames(flags))
    BY <2>2, OneName DEF AtFlagNames
  <2> QED
    BY <2>1, <2>3
<1>2. CASE call \in Opens
  <2>1. NamesWhich(call, flags) = OpenNames(call, flags)
    BY <1>2 DEF NamesWhich, FirstFollowed, FirstKept, AtByFlag, AtFollowed, AtKept, Opens
  <2>2. KernelKeeps(call, flags) <=> OpenKeeps(flags)
    BY <1>2 DEF KernelKeeps, OpenKeeps, Opens
  <2>3. NamedAsKernel(call, flags, OpenNames(call, flags))
    BY <2>2, OneName DEF OpenNames
  <2> QED
    BY <2>1, <2>3
<1>3. CASE call = "inotify_add_watch"
  <2>1. NamesWhich(call, flags) = InotifyNames(flags)
    BY <1>3 DEF NamesWhich, FirstFollowed, FirstKept, AtByFlag, AtFollowed, AtKept, Opens
  <2>2. KernelKeeps(call, flags) <=> "IN_DONT_FOLLOW" \in flags
    BY <1>3 DEF KernelKeeps, Opens
  <2>3. NamedAsKernel(call, flags, InotifyNames(flags))
    BY <2>2, OneName DEF InotifyNames
  <2> QED
    BY <2>1, <2>3
<1>4. CASE call = "statx"
  <2>1. NamesWhich(call, flags) = StatxNames(flags)
    BY <1>4 DEF NamesWhich, FirstFollowed, FirstKept, AtByFlag, AtFollowed, AtKept, Opens
  <2>2. KernelKeeps(call, flags) <=> "AT_SYMLINK_NOFOLLOW" \in flags
    BY <1>4 DEF KernelKeeps, Opens
  <2>3. NamedAsKernel(call, flags, StatxNames(flags))
    BY <2>2, OneName DEF StatxNames
  <2> QED
    BY <2>1, <2>3
<1> QED
  BY <1>1, <1>2, <1>3, <1>4

\* Calls with two names, and the symbolic links, of whose first argument PRoot takes no name.
LEMMA TwoNames ==
  ASSUME NEW call \in {"linkat", "link", "rename", "renameat", "renameat2", "symlink", "symlinkat"}, NEW flags
  PROVE  NamedAsKernel(call, flags, NamesWhich(call, flags))
<1>1. CASE call = "linkat"
  <2>1. NamesWhich(call, flags) = LinkatNames(flags)
    BY <1>1 DEF NamesWhich, FirstFollowed, FirstKept, AtByFlag, AtFollowed, AtKept, Opens
  <2>2. KernelKeeps(call, flags) <=> "AT_SYMLINK_FOLLOW" \notin flags
    BY <1>1 DEF KernelKeeps, Opens
  <2>3. NamedAsKernel(call, flags, LinkatNames(flags))
    <3> DEFINE first == Name(2, 1, "AT_SYMLINK_FOLLOW" \in flags)
               second == Name(4, 3, FALSE)
    <3>1. first.reg = 2 /\ second.reg = 4 /\ first.followed = ~KernelKeeps(call, flags)
      BY <2>2 DEF Name
    <3>2. LinkatNames(flags) = {first, second}
      BY DEF LinkatNames
    <3> HIDE DEF first, second
    <3> QED
      BY <3>1, <3>2, FirstName
  <2> QED
    BY <2>1, <2>3
<1>2. CASE call \in {"link", "rename", "renameat", "renameat2"}
  <2>1. NamesWhich(call, flags) = RenameNames(call)
    BY <1>2 DEF NamesWhich, FirstFollowed, FirstKept, AtByFlag, AtFollowed, AtKept, Opens
  <2>2. KernelKeeps(call, flags)
    BY <1>2 DEF KernelKeeps
  <2>3. CASE call \in {"link", "rename"}
    <3> DEFINE first == Name(1, 0, FALSE)
               second == Name(2, 0, FALSE)
    <3>1. RenameNames(call) = {first, second}
      BY <2>3 DEF RenameNames
    <3>2. first.reg = 1 /\ second.reg = 2 /\ first.followed = ~KernelKeeps(call, flags)
      BY <2>2 DEF Name
    <3> HIDE DEF first, second
    <3>3. NamedAsKernel(call, flags, {first, second})
      BY <3>2, FirstName
    <3> QED
      BY <2>1, <3>1, <3>3
  <2>4. CASE call \notin {"link", "rename"}
    <3> DEFINE first == Name(2, 1, FALSE)
               second == Name(4, 3, FALSE)
    <3>1. RenameNames(call) = {first, second}
      BY <2>4 DEF RenameNames
    <3>2. first.reg = 2 /\ second.reg = 4 /\ first.followed = ~KernelKeeps(call, flags)
      BY <2>2 DEF Name
    <3> HIDE DEF first, second
    <3>3. NamedAsKernel(call, flags, {first, second})
      BY <3>2, FirstName
    <3> QED
      BY <2>1, <3>1, <3>3
  <2> QED
    BY <2>3, <2>4
<1>3. CASE call \in {"symlink", "symlinkat"}
  <2>1. NamesWhich(call, flags) = SymlinkNames(call)
    BY <1>3 DEF NamesWhich, FirstFollowed, FirstKept, AtByFlag, AtFollowed, AtKept, Opens
  <2>2. KernelKeeps(call, flags)
    BY <1>3 DEF KernelKeeps
  <2> QED
    BY <1>3, <2>1, <2>2, OneName DEF SymlinkNames
<1> QED
  BY <1>1, <1>2, <1>3

\* What is known of a call is its names and whether its end is seen, answered and patched or not.
SeenAs(call, flags, wants) ==
    /\ last'.call = call /\ last'.flags = flags /\ last'.exit = StopsAtExit(call, wants)
    /\ last'.names = IF StopsAtEntry(call) THEN NamesWhich(call, flags) ELSE {}

\* A call that was seen is named as the kernel names it, and its end is seen where it must be.
LEMMA SeenIsRight ==
  ASSUME NEW call, NEW flags, NEW wants, SeenAs(call, flags, wants)
  PROVE  FollowsAsKernel' /\ EndsSeen'
<1>1. last'.call = call /\ last'.flags = flags /\ last'.exit = StopsAtExit(call, wants)
  BY DEF SeenAs
<1>2. FollowsAsKernel'
  <2> SUFFICES ASSUME call \in PathCalls \ Deviating
               PROVE  NamedAsKernel(call, flags, last'.names)
    BY <1>1 DEF FollowsAsKernel, NamedAsKernel
  <2>1. last'.names = NamesWhich(call, flags)
    BY DEF SeenAs, StopsAtEntry, Filtered
  <2>2. NamedAsKernel(call, flags, NamesWhich(call, flags))
    BY FollowedNames, KeptNames, FlaggedNames, TwoNames DEF PathCalls
  <2> QED
    BY <2>1, <2>2
<1>3. EndsSeen'
  <2>1. ExitHandled \subseteq SysexitFlagged
    BY DEF ExitHandled, SysexitFlagged, Voided
  <2>2. ExitHandled \subseteq Filtered
    BY DEF ExitHandled, Filtered, PathCalls, FirstFollowed, FirstKept, AtKept, OtherCalls, Voided
  <2> QED
    BY <1>1, <2>1, <2>2 DEF EndsSeen, StopsAtExit
<1> QED
  BY <1>2, <1>3

\* What PRoot knows of no_new_privs is a truth value, as what the guest asked is.
HandlerInv == HandledAsAsked /\ asked \in BOOLEAN

LEMMA HandlerStepInv == HandlerInv /\ [HandlerNext]_handlerVars => HandlerInv'
<1> SUFFICES ASSUME HandlerInv, [HandlerNext]_handlerVars PROVE HandlerInv'
  OBVIOUS
<1>1. noNewPrivs = asked /\ asked \in BOOLEAN
  BY DEF HandlerInv, HandledAsAsked, PrivsAsAsked
<1>2. ASSUME NEW call, NEW flags, NEW wants, SeenAs(call, flags, wants), UNCHANGED <<noNewPrivs, asked>>
      PROVE  HandlerInv'
  <2>1. FollowsAsKernel' /\ EndsSeen'
    BY <1>2, SeenIsRight
  <2> QED
    BY <1>1, <1>2, <2>1 DEF HandlerInv, HandledAsAsked, PrivsAsAsked
<1>3. ASSUME NEW call, NEW flags, NEW wants, last' = Seen(call, flags, wants)
      PROVE  SeenAs(call, flags, wants)
  BY <1>3 DEF Seen, SeenAs
<1>4. ASSUME NEW call, NEW flags, NEW wants, last' = Seen(call, flags, wants),
             UNCHANGED <<noNewPrivs, asked>>
      PROVE  HandlerInv'
  BY <1>2, <1>3, <1>4
<1>5. CASE \E call \in PathCalls : \E flags \in SUBSET FlagsOf(call) : PathCall(call, flags)
  BY <1>4, <1>5 DEF PathCall
<1>6. CASE \E call \in (OtherCalls \ {"close", "prctl"}) \cup Voided : OtherCall(call)
  BY <1>4, <1>6 DEF OtherCall
<1>7. CASE UnfilteredCall
  BY <1>4, <1>7 DEF UnfilteredCall
<1>8. CASE \E call \in Opens, fd \in TraceeFds, what \in {"auxv", "file"} : OpenCall(call, fd, what)
  <2>1. PICK call \in Opens, fd \in TraceeFds, what \in {"auxv", "file"} : OpenCall(call, fd, what)
    BY <1>8
  <2>2. last' = Seen(call, {}, what = "auxv") /\ UNCHANGED <<noNewPrivs, asked>> /\ (what = "auxv") \in BOOLEAN
    BY <2>1 DEF OpenCall
  <2> QED
    BY <1>4, <2>2
<1>9. CASE \E fd \in TraceeFds : Read(fd) \/ CloseCall(fd)
  <2>1. PICK fd \in TraceeFds : Read(fd) \/ CloseCall(fd)
    BY <1>9
  <2>2. CASE Read(fd)
    <3>1. SeenAs("read", {}, FALSE)
      BY <2>2 DEF Read, Seen, SeenAs
    <3> QED
      BY <1>2, <2>2, <3>1 DEF Read
  <2>3. CASE CloseCall(fd)
    BY <1>4, <2>3 DEF CloseCall
  <2> QED
    BY <2>1, <2>2, <2>3
<1>10. CASE \E accepted \in BOOLEAN : SetNoNewPrivs(accepted)
  <2>1. PICK accepted \in BOOLEAN : SetNoNewPrivs(accepted)
    BY <1>10
  <2> DEFINE seen == Seen("prctl", {}, WantsEnd("PR_SET_NO_NEW_PRIVS"))
  <2>2. last' = seen /\ WantsEnd("PR_SET_NO_NEW_PRIVS") = TRUE
    BY <2>1 DEF SetNoNewPrivs, WantsEnd
  <2>3. FollowsAsKernel' /\ EndsSeen'
    BY <1>3, <2>2, SeenIsRight
  <2>4. seen.exit
    BY DEF Seen, StopsAtExit, WantsEnd, Filtered, OtherCalls
  <2>5. noNewPrivs' = asked' /\ asked' \in BOOLEAN
    BY <1>1, <2>1, <2>4 DEF SetNoNewPrivs
  <2> QED
    BY <2>3, <2>5 DEF HandlerInv, HandledAsAsked, PrivsAsAsked
<1>11. CASE GetNoNewPrivs
  <2>1. SeenAs("prctl", {}, FALSE)
    BY <1>11 DEF GetNoNewPrivs, Seen, SeenAs
  <2> QED
    BY <1>2, <1>11, <2>1 DEF GetNoNewPrivs
<1>12. CASE UNCHANGED handlerVars
  BY <1>12 DEF handlerVars, HandlerInv, HandledAsAsked, FollowsAsKernel, EndsSeen, PrivsAsAsked
<1> QED
  BY <1>5, <1>6, <1>7, <1>8, <1>9, <1>10, <1>11, <1>12 DEF HandlerNext

LEMMA HandlerInitInv == HandlerInit => HandlerInv
<1> SUFFICES ASSUME HandlerInit PROVE HandlerInv
  OBVIOUS
<1>1. last.call = "execve" /\ last.exit
  BY DEF HandlerInit
<1>2. "execve" \notin PathCalls
  BY DEF PathCalls, FirstFollowed, FirstKept, AtByFlag, AtFollowed, AtKept, Opens
<1> QED
  BY <1>1, <1>2 DEF HandlerInit, HandlerInv, HandledAsAsked, FollowsAsKernel, EndsSeen, PrivsAsAsked

(***************************************************************************)
(* translate_syscall_enter and translate_syscall_exit: for every call in   *)
(* the handlers' lists with any flags, for any descriptors and whichever   *)
(* way the tracee was restarted, a name is followed where the kernel       *)
(* follows it (but for the Deviating calls), the end of a call that has    *)
(* work left is seen, and no_new_privs is what the guest asked.            *)
(***************************************************************************)
THEOREM CallsHandledAsAsked == HandlerSpec => []HandledAsAsked
<1>1. HandlerInit => HandlerInv
  BY HandlerInitInv
<1>2. HandlerInv /\ [HandlerNext]_handlerVars => HandlerInv'
  BY HandlerStepInv
<1>3. HandlerInv => HandledAsAsked
  BY DEF HandlerInv
<1> QED
  BY <1>1, <1>2, <1>3, PTL DEF HandlerSpec
================================================================================

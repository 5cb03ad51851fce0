----------------------------- MODULE ProcessProofs -----------------------------
(***************************************************************************)
(* What PRoot keeps of a process, for any number of processes: its entry   *)
(* in the list, the program it runs, its heap, the modes of the files it   *)
(* uses as root, its fake netlink sockets and its ids.                     *)
(***************************************************************************)
EXTENDS TraceeLifecycle, Execve, Heap, FakeModes, FakeNetlink, FakeCreds, FiniteSetTheorems,
        WellFoundedInduction, TLAPS

-------------------------------------------------------------------------------
(* Execve *)

ExecTypeOK ==
    /\ stage \in [ExecTracees -> {"unborn", "running", "pending", "loading", "dead"}]
    /\ program \in [ExecTracees -> Programs \cup {NoProgram}]
    /\ exe \in [ExecTracees -> Programs \cup {NoProgram}]
    /\ newExe \in [ExecTracees -> Programs \cup {NoProgram}]
    /\ loadInfo \in [ExecTracees -> Programs \cup {NoProgram}]
    /\ traced \in [ExecTracees -> BOOLEAN] /\ ignoring \in [ExecTracees -> BOOLEAN]
    /\ script \in [ExecTracees -> {"START", "START_TRACED"}]
    /\ refused \in [ExecTracees -> BOOLEAN]

\* The name is kept until the kernel has executed the new program ...
ExeKept ==
    \A t \in ExecTracees :
        stage[t] \in {"running", "pending", "loading"} /\ program[t] \notin Unnamed => exe[t] = program[t]

\* ... whose name is the one that will be committed.
NewExeKnown ==
    \A t \in ExecTracees : stage[t] = "pending" =>
        /\ loadInfo[t] \in Programs
        /\ newExe[t] = IF loadInfo[t] \in Unnamed THEN NoProgram ELSE loadInfo[t]

\* A ptracer that came while a loader ran without one is shown all the calls, and nothing is
\* known of a ptracer before the fork.
MaskKnown ==
    \A t \in ExecTracees :
        /\ stage[t] = "loading" /\ script[t] = "START" /\ traced[t] => ~ignoring[t]
        /\ stage[t] = "unborn" => ~ignoring[t]

\* The inductive invariant.
ExecInv == ExecTypeOK /\ ExeKept /\ NewExeKnown /\ MaskKnown /\ CallsShown

LEMMA ExecInitInv == ExecInit => ExecInv
BY DEF ExecInit, ExecInv, ExecTypeOK, ExeKept, NewExeKnown, MaskKnown, CallsShown

\* What PRoot prepares leaves the name of the program that runs alone.
LEMMA EnterKeepsInv ==
  ASSUME ExecInv, NEW t \in ExecTracees, NEW p \in Programs,
         EnterMissing(t, p) \/ EnterBroken(t, p) \/ EnterExecve(t, p)
  PROVE  ExecInv'
<1> USE ProgramKinds DEF ExecInv, Remembered
<1>1. CASE EnterMissing(t, p)
  BY <1>1 DEF EnterMissing, execVars, ExecTypeOK, ExeKept, NewExeKnown, MaskKnown, CallsShown
<1>2. CASE EnterBroken(t, p)
  <2>1. ExecTypeOK'
    BY <1>2 DEF EnterBroken, ExecTypeOK
  <2>2. ExeKept' /\ NewExeKnown'
    BY <1>2 DEF EnterBroken, ExecTypeOK, ExeKept, NewExeKnown
  <2>3. MaskKnown' /\ CallsShown'
    BY <1>2 DEF EnterBroken, MaskKnown, CallsShown
  <2> QED
    BY <2>1, <2>2, <2>3
<1>3. CASE EnterExecve(t, p)
  <2>1. ExecTypeOK'
    BY <1>3 DEF EnterExecve, ExecTypeOK
  <2>2. ExeKept' /\ NewExeKnown'
    BY <1>3 DEF EnterExecve, ExecTypeOK, ExeKept, NewExeKnown
  <2>3. MaskKnown' /\ CallsShown'
    BY <1>3 DEF EnterExecve, ExecTypeOK, MaskKnown, CallsShown
  <2> QED
    BY <2>1, <2>2, <2>3
<1> QED
  BY <1>1, <1>2, <1>3

\* The kernel's answer commits the new name, or leaves the old one.
LEMMA AnswerKeepsInv ==
  ASSUME ExecInv, NEW t \in ExecTracees, Refused(t) \/ Executed(t)
  PROVE  ExecInv'
<1> USE ProgramKinds DEF ExecInv
<1>1. CASE Refused(t)
  <2>1. ExecTypeOK' /\ ExeKept' /\ NewExeKnown'
    BY <1>1 DEF Refused, ExecTypeOK, ExeKept, NewExeKnown
  <2>2. MaskKnown' /\ CallsShown'
    BY <1>1 DEF Refused, ExecTypeOK, MaskKnown, CallsShown
  <2> QED
    BY <2>1, <2>2
<1>2. CASE Executed(t)
  <2>1. ExecTypeOK'
    BY <1>2 DEF Executed, ExecTypeOK
  <2>2. ExeKept' /\ NewExeKnown'
    BY <1>2 DEF Executed, ExecTypeOK, ExeKept, NewExeKnown
  <2>3. MaskKnown' /\ CallsShown'
    BY <1>2 DEF Executed, ExecTypeOK, MaskKnown, CallsShown
  <2> QED
    BY <2>1, <2>2, <2>3
<1> QED
  BY <1>1, <1>2

\* The two ends of a loader.
LEMMA LoaderKeepsInv ==
  ASSUME ExecInv, NEW t \in ExecTracees, Started(t) \/ Notified(t)
  PROVE  ExecInv'
<1> USE DEF ExecInv, AllShown
<1>1. CASE Started(t)
  BY <1>1 DEF Started, ExecTypeOK, ExeKept, NewExeKnown, MaskKnown, CallsShown
<1>2. CASE Notified(t)
  <2>1. ExecTypeOK' /\ ExeKept' /\ NewExeKnown'
    BY <1>2 DEF Notified, ExecTypeOK, ExeKept, NewExeKnown
  <2>2. MaskKnown' /\ CallsShown'
    BY <1>2 DEF Notified, ExecTypeOK, MaskKnown, CallsShown
  <2> QED
    BY <2>1, <2>2
<1> QED
  BY <1>1, <1>2

\* The heap, forks and ptracers.
LEMMA LifeKeepsInv ==
  ASSUME ExecInv, NEW t \in ExecTracees,
         \/ Brk(t) \/ TracerAttaches(t) \/ TracerLeaves(t)
         \/ \E kid \in ExecTracees, follows \in BOOLEAN : ExecFork(t, kid, follows)
  PROVE  ExecInv'
<1> USE DEF ExecInv
<1>1. CASE Brk(t)
  BY <1>1 DEF Brk, ExecTypeOK, ExeKept, NewExeKnown, MaskKnown, CallsShown
<1>2. CASE TracerAttaches(t)
  BY <1>2 DEF TracerAttaches, ExecTypeOK, ExeKept, NewExeKnown, MaskKnown, CallsShown
<1>3. CASE TracerLeaves(t)
  BY <1>3 DEF TracerLeaves, ExecTypeOK, ExeKept, NewExeKnown, MaskKnown, CallsShown
<1>4. ASSUME NEW kid \in ExecTracees, NEW follows \in BOOLEAN, ExecFork(t, kid, follows)
      PROVE  ExecInv'
  <2>1. ExecTypeOK'
    BY <1>4 DEF ExecFork, ExecTypeOK
  <2>2. ExeKept' /\ NewExeKnown'
    BY <1>4 DEF ExecFork, ExecTypeOK, ExeKept, NewExeKnown
  <2>3. MaskKnown' /\ CallsShown'
    BY <1>4 DEF ExecFork, ExecTypeOK, MaskKnown, CallsShown
  <2> QED
    BY <2>1, <2>2, <2>3
<1> QED
  BY <1>1, <1>2, <1>3, <1>4

LEMMA ExecStepInv == ExecInv /\ [ExecNext]_execVars => ExecInv'
<1> SUFFICES ASSUME ExecInv, [ExecNext]_execVars
             PROVE  ExecInv'
  OBVIOUS
<1>1. CASE UNCHANGED execVars
  BY <1>1 DEF execVars, ExecInv, ExecTypeOK, ExeKept, NewExeKnown, MaskKnown, CallsShown
<1>2. CASE ExecNext
  BY <1>2, EnterKeepsInv, AnswerKeepsInv, LoaderKeepsInv, LifeKeepsInv DEF ExecNext
<1> QED
  BY <1>1, <1>2

(***************************************************************************)
(* "Execve happened; commit the new /proc/self/exe" (execve/exit.c:489)    *)
(* and "Syscalls can now be reported to its ptracer" (execve/enter.c:606): *)
(* for any programs and tracees, whichever calls fail or are refused,      *)
(* /proc/self/exe is the program that runs, and a ptracer is shown its     *)
(* calls unless an execve was refused under it.                            *)
(***************************************************************************)
THEOREM ProgramAlwaysKnown == ExecSpec => []ProgramKnown
<1>1. ExecInv => ProgramKnown
  BY DEF ExecInv, ExeKept, ProgramKnown, ExeIsProgram
<1> QED
  BY <1>1, ExecInitInv, ExecStepInv, PTL DEF ExecSpec

-------------------------------------------------------------------------------
(* The heap *)

\* What \div computes.
LEMMA DivBounds ==
  ASSUME NEW n \in Nat, NEW d \in Nat \ {0}
  PROVE  n \div d \in Nat /\ (n \div d) * d <= n /\ n < (n \div d) * d + d
OBVIOUS

LEMMA DivUnique ==
  ASSUME NEW n \in Nat, NEW d \in Nat \ {0}, NEW q \in Nat, q * d <= n, n < q * d + d
  PROVE  n \div d = q
OBVIOUS

LEMMA Distributed ==
  ASSUME NEW a \in Nat, NEW b \in Nat, NEW d \in Nat \ {0}
  PROVE  (a + b) * d = a * d + b * d /\ a * d \in Nat /\ b * d \in Nat
OBVIOUS

LEMMA Multiple ==
  ASSUME NEW b \in Nat, NEW d \in Nat \ {0}, b % d = 0
  PROVE  b = (b \div d) * d
OBVIOUS

LEMMA PageUpNat == ASSUME NEW n \in Nat PROVE PageUp(n) \in Nat
<1>1. (n + PAGE - 1) \div PAGE \in Nat
  BY HeapAssumption, DivBounds
<1> QED
  BY <1>1, HeapAssumption, Distributed DEF PageUp

\* Rounding up to a page from an address that is one.
LEMMA PageUpAfter ==
  ASSUME NEW start \in Nat, start % PAGE = 0, NEW n \in Nat
  PROVE  PageUp(start + n) = start + PageUp(n)
<1> DEFINE b == start \div PAGE
           q == (n + PAGE - 1) \div PAGE
<1>1. b \in Nat /\ start = b * PAGE
  BY HeapAssumption, DivBounds, Multiple
<1>2. q \in Nat /\ q * PAGE <= n + PAGE - 1 /\ n + PAGE - 1 < q * PAGE + PAGE
  BY HeapAssumption, DivBounds
<1> HIDE DEF b, q
<1>3. (b + q) * PAGE = start + q * PAGE /\ b + q \in Nat /\ q * PAGE \in Nat
  BY <1>1, <1>2, HeapAssumption, Distributed
<1>4. (b + q) * PAGE <= start + n + PAGE - 1 /\ start + n + PAGE - 1 < (b + q) * PAGE + PAGE
  BY <1>2, <1>3, HeapAssumption
<1>5. (start + n + PAGE - 1) \div PAGE = b + q
  BY <1>3, <1>4, HeapAssumption, DivUnique
<1> QED
  BY <1>3, <1>5 DEF PageUp, q

LEMMA PageUpPage == PageUp(PAGE) = PAGE
<1>1. (PAGE + PAGE - 1) \div PAGE = 1
  BY HeapAssumption, DivUnique
<1> QED
  BY <1>1, HeapAssumption DEF PageUp

HeapTypeOK ==
    /\ mm \in [HeapTracees -> {0} \cup Numbers] /\ hp \in [HeapTracees -> {0} \cup Numbers]
    /\ heap \in [Numbers -> [base : Nat, size : Nat, disabled : BOOLEAN]]
    /\ memory \in [Numbers -> [lo : Nat, hi : Nat, wall : Nat]]
    /\ suspended \subseteq HeapTracees

\* A tracee has a heap record, the record of those it shares its memory with.
SharedAlike ==
    /\ \A t \in HeapTracees : mm[t] = 0 <=> hp[t] = 0
    /\ \A t, u \in Live : mm[t] = mm[u] <=> hp[t] = hp[u]

\* The heap of a record is the mapping of a memory, but for its first page.
Fits(h, m) ==
    \/ h.base = 0 /\ m.hi = 0
    \/ h.base = m.lo + PAGE /\ m.lo % PAGE = 0 /\ m.hi = PageUp(Break(h))

HeapsFit == \A t \in Live : Fits(heap[hp[t]], memory[mm[t]])

\* The inductive invariant.
HeapInv == HeapTypeOK /\ SharedAlike /\ HeapsFit

\* There is a memory for the first tracee.
LEMMA NumbersOne == 1 \in Numbers /\ 0 \notin Numbers
<1>1. Cardinality(HeapTracees) \in Nat /\ Cardinality(HeapTracees) # 0
  BY HeapAssumption, FS_CardinalityType, FS_EmptySet
<1> QED
  BY <1>1 DEF Numbers

LEMMA HeapInitInv == HeapInit => HeapInv
BY HeapAssumption, NumbersOne
DEF HeapInit, HeapInv, HeapTypeOK, SharedAlike, HeapsFit, Fits, Live, NoHeap, NewMemory

\* A call of tracee t that leaves its record and its memory fitting.
LEMMA DoneKeepsInv ==
  ASSUME HeapInv, NEW t \in Live,
         NEW h \in [base : Nat, size : Nat, disabled : BOOLEAN],
         NEW m \in [lo : Nat, hi : Nat, wall : Nat],
         Fits(h, m), HeapDone(t, h, m)
  PROVE  HeapInv'
<1>1. hp[t] \in Numbers /\ mm[t] \in Numbers /\ t \in HeapTracees
  BY DEF HeapInv, HeapTypeOK, SharedAlike, Live
<1>2. HeapTypeOK'
  BY <1>1 DEF HeapInv, HeapTypeOK, HeapDone
<1>3. SharedAlike' /\ Live' = Live
  BY DEF HeapInv, SharedAlike, HeapDone, Live
<1>4. \A u \in Live : Fits(heap'[hp[u]], memory'[mm[u]])
  <2> TAKE u \in Live
  <2>1. CASE mm[u] = mm[t]
    BY <1>1, <2>1 DEF HeapInv, HeapTypeOK, SharedAlike, HeapDone
  <2>2. CASE mm[u] # mm[t]
    BY <1>1, <2>2 DEF HeapInv, HeapTypeOK, SharedAlike, HeapsFit, HeapDone
  <2> QED
    BY <2>1, <2>2
<1> QED
  BY <1>2, <1>3, <1>4 DEF HeapInv, HeapsFit, HeapDone

\* The first brk(2) maps a page, or nothing.
LEMMA MmapMapsPage ==
  ASSUME NEW m \in [lo : Nat, hi : Nat, wall : Nat], NEW area \in Mmap(m, BssEnd)
  PROVE  \/ area = m
         \/ /\ area \in [lo : Nat, hi : Nat, wall : Nat]
            /\ area.lo % PAGE = 0 /\ area.hi = area.lo + PAGE
<1>1. CASE BssEnd + PAGE <= m.wall
  <2>1. area = [m EXCEPT !.lo = BssEnd, !.hi = BssEnd + PAGE]
    BY <1>1 DEF Mmap
  <2>2. PICK end \in Nat : end = BssEnd + PAGE
    BY HeapAssumption
  <2>3. area = [m EXCEPT !.lo = BssEnd, !.hi = end] /\ BssEnd \in Nat
    BY <2>1, <2>2, HeapAssumption
  <2>4. area \in [lo : Nat, hi : Nat, wall : Nat] /\ area.lo = BssEnd /\ area.hi = end
    BY <2>3
  <2> QED
    BY <2>2, <2>4, HeapAssumption
<1>2. CASE ~ (BssEnd + PAGE <= m.wall)
  BY <1>2, HeapAssumption DEF Mmap, Addresses
<1> QED
  BY <1>1, <1>2

LEMMA FirstBrkKeepsInv ==
  ASSUME HeapInv, NEW t \in Live, FirstBrk(t)
  PROVE  HeapInv'
<1> DEFINE h == heap[hp[t]]
           m == memory[mm[t]]
<1>1. /\ h \in [base : Nat, size : Nat, disabled : BOOLEAN]
      /\ m \in [lo : Nat, hi : Nat, wall : Nat]
      /\ Fits(h, m) /\ h.base = 0 /\ m.hi = 0
  BY HeapAssumption DEF HeapInv, HeapTypeOK, SharedAlike, HeapsFit, Fits, Live, FirstBrk
<1>2. PICK area \in Mmap(m, BssEnd) : HeapDone(t, Placed(h, m, area), area)
  BY DEF FirstBrk
<1> HIDE DEF h, m
<1>3. CASE area = m
  BY <1>1, <1>2, <1>3, DoneKeepsInv DEF Placed
<1>4. CASE area # m
  <2> DEFINE placed == Placed(h, m, area)
  <2>1. /\ area \in [lo : Nat, hi : Nat, wall : Nat]
        /\ area.lo % PAGE = 0 /\ area.hi = area.lo + PAGE
    BY <1>1, <1>2, <1>4, MmapMapsPage
  <2>2. PageUp(area.lo + PAGE) = area.lo + PAGE
    BY <2>1, PageUpAfter, PageUpPage, HeapAssumption
  <2>3. placed = [h EXCEPT !.base = area.lo + PAGE, !.size = 0]
    BY <1>4 DEF Placed
  <2>4. /\ placed \in [base : Nat, size : Nat, disabled : BOOLEAN]
        /\ placed.base = area.lo + PAGE /\ placed.size = 0
    BY <1>1, <2>1, <2>3, HeapAssumption
  <2>5. Break(placed) = area.lo + PAGE
    BY <2>1, <2>4, HeapAssumption DEF Break
  <2>6. Fits(placed, area)
    BY <2>1, <2>2, <2>4, <2>5 DEF Fits
  <2> HIDE DEF placed
  <2>7. HeapDone(t, placed, area)
    BY <1>2 DEF placed
  <2> QED
    BY <2>1, <2>4, <2>6, <2>7, DoneKeepsInv
<1> QED
  BY <1>3, <1>4

\* Later ones move the break to an address the kernel grants, or leave it.
LEMMA LaterBrkKeepsInv ==
  ASSUME HeapInv, NEW t \in Live, NEW address \in Nat, LowBrk(t, address) \/ ResizeBrk(t, address)
  PROVE  HeapInv'
<1> DEFINE h == heap[hp[t]]
           m == memory[mm[t]]
<1>1. /\ h \in [base : Nat, size : Nat, disabled : BOOLEAN]
      /\ m \in [lo : Nat, hi : Nat, wall : Nat]
      /\ Fits(h, m)
  BY DEF HeapInv, HeapTypeOK, SharedAlike, HeapsFit, Live
<1>2. CASE LowBrk(t, address)
  BY <1>1, <1>2, DoneKeepsInv DEF LowBrk
<1>3. CASE ResizeBrk(t, address)
  <2> DEFINE new == address - h.base + PAGE
             granted == Resizable(m, h.base - PAGE, h.size + PAGE, new)
             resized == Resized(h, new - PAGE, granted)
             remapped == Mremap(m, h.base - PAGE, h.size + PAGE, new)
  <2>1. /\ h.base = m.lo + PAGE /\ m.lo % PAGE = 0 /\ h.base <= address
        /\ HeapDone(t, resized, remapped)
    BY <1>1, <1>3 DEF ResizeBrk, Fits
  <2>2. h.base - PAGE = m.lo /\ new = address - m.lo /\ new \in Nat /\ new - PAGE = address - h.base
    BY <1>1, <2>1, HeapAssumption
  <2> HIDE DEF h, m, new
  <2>3. CASE granted
    <3>1. resized = [h EXCEPT !.size = new - PAGE] /\ remapped = [m EXCEPT !.hi = m.lo + PageUp(new)]
      BY <2>2, <2>3 DEF Resized, Mremap
    <3>2. m.lo + PageUp(new) = PageUp(address) /\ m.lo + PageUp(new) \in Nat
      <4>1. PICK start \in Nat : start = m.lo /\ start % PAGE = 0
        BY <1>1, <2>1
      <4>2. PageUp(start + new) = start + PageUp(new) /\ PageUp(new) \in Nat
        BY <2>2, <4>1, PageUpAfter, PageUpNat
      <4>3. start + new = address
        BY <2>2, <4>1
      <4> QED
        BY <4>1, <4>2, <4>3
    <3>3. new - PAGE \in Nat /\ h.base + (new - PAGE) = address
      BY <1>1, <2>1, <2>2, HeapAssumption
    <3>4. Fits(resized, remapped)
      BY <1>1, <2>1, <3>1, <3>2, <3>3 DEF Fits, Break
    <3> HIDE DEF resized, remapped
    <3> QED
      BY <1>1, <2>1, <3>1, <3>2, <3>3, <3>4, DoneKeepsInv
  <2>4. CASE ~granted
    BY <1>1, <2>1, <2>4, DoneKeepsInv DEF Resized, Mremap
  <2> QED
    BY <2>3, <2>4
<1> QED
  BY <1>2, <1>3

\* A heap left to the kernel, and other mappings.
LEMMA OthersKeepInv ==
  ASSUME HeapInv, NEW t \in Live, NEW granted \in BOOLEAN, NEW address \in Nat,
         SuspiciousBrk(t, granted) \/ OtherMapping(t, address)
  PROVE  HeapInv'
<1>1. hp[t] \in Numbers /\ mm[t] \in Numbers
  BY DEF HeapInv, HeapTypeOK, SharedAlike, Live
<1>2. CASE SuspiciousBrk(t, granted)
  BY <1>1, <1>2 DEF SuspiciousBrk, HeapInv, HeapTypeOK, SharedAlike, HeapsFit, Fits, Live, Break
<1>3. CASE OtherMapping(t, address)
  BY <1>1, <1>3 DEF OtherMapping, HeapInv, HeapTypeOK, SharedAlike, HeapsFit, Fits, Live
<1> QED
  BY <1>2, <1>3

\* clone(2) shares both or copies both.
LEMMA CloneKeepsHeapInv ==
  ASSUME HeapInv, NEW t \in Live, NEW kid \in HeapTracees, NEW shared \in BOOLEAN,
         HeapClone(t, kid, shared)
  PROVE  HeapInv'
<1>1. /\ hp[t] \in Numbers /\ mm[t] \in Numbers /\ t \in HeapTracees
      /\ mm[kid] = 0 /\ hp[kid] = 0 /\ kid # t /\ 0 \notin Numbers
  BY NumbersOne DEF HeapInv, HeapTypeOK, SharedAlike, Live, HeapClone
<1>2. CASE shared
  <2>1. /\ mm' = [mm EXCEPT ![kid] = mm[t]] /\ hp' = [hp EXCEPT ![kid] = hp[t]]
        /\ suspended' = suspended \cup {t} /\ UNCHANGED <<heap, memory>>
    BY <1>2 DEF HeapClone
  <2>2. Live' = Live \cup {kid} /\ HeapTypeOK'
    BY <1>1, <2>1 DEF Live, HeapInv, HeapTypeOK
  <2>3. SharedAlike'
    BY <1>1, <2>1, <2>2 DEF HeapInv, HeapTypeOK, SharedAlike, Live
  <2>4. HeapsFit'
    BY <1>1, <2>1, <2>2 DEF HeapInv, HeapTypeOK, HeapsFit, Live
  <2> QED
    BY <2>2, <2>3, <2>4 DEF HeapInv
<1>3. CASE ~shared
  <2>1. PICK n \in UnusedIn(mm), k \in UnusedIn(hp) :
          /\ mm' = [mm EXCEPT ![kid] = n]
          /\ hp' = [hp EXCEPT ![kid] = k]
          /\ heap' = [heap EXCEPT ![k] = heap[hp[t]]]
          /\ memory' = [memory EXCEPT ![n] = memory[mm[t]]]
          /\ UNCHANGED suspended
    BY <1>3 DEF HeapClone
  <2>2. n \in Numbers /\ k \in Numbers /\ \A u \in HeapTracees : mm[u] # n /\ hp[u] # k
    BY DEF UnusedIn
  <2>3. HeapTypeOK'
    BY <1>1, <2>1, <2>2 DEF HeapInv, HeapTypeOK
  <2>4. Live' = Live \cup {kid}
    BY <1>1, <2>1, <2>2 DEF Live, HeapInv, HeapTypeOK
  <2>5. SharedAlike'
    BY <1>1, <2>1, <2>2, <2>4 DEF HeapInv, HeapTypeOK, SharedAlike, Live
  <2>6. HeapsFit'
    BY <1>1, <2>1, <2>2, <2>4 DEF HeapInv, HeapTypeOK, HeapsFit, Live
  <2> QED
    BY <2>3, <2>5, <2>6 DEF HeapInv
<1> QED
  BY <1>2, <1>3

\* execve gives a memory without heap and a record that says so.
LEMMA ExecveKeepsHeapInv ==
  ASSUME HeapInv, NEW t \in Live, HeapExecve(t)
  PROVE  HeapInv'
<1>1. hp[t] \in Numbers /\ mm[t] \in Numbers /\ t \in HeapTracees /\ 0 \notin Numbers
  BY NumbersOne DEF HeapInv, HeapTypeOK, SharedAlike, Live
<1>2. PICK n \in Numbers : /\ \A u \in Others(t) : mm[u] # n
                           /\ mm' = [mm EXCEPT ![t] = n]
                           /\ memory' = [memory EXCEPT ![n] = NewMemory]
  BY <1>1 DEF HeapExecve, UnusedIn, Others
<1>3. PICK k \in Numbers : /\ \A u \in Others(t) : hp[u] # k
                           /\ hp' = [hp EXCEPT ![t] = k]
                           /\ heap' = [heap EXCEPT ![k] = NoHeap]
  BY <1>1 DEF HeapExecve, HeapIsShared, UnusedIn, Others
<1>4. HeapTypeOK'
  BY <1>1, <1>2, <1>3, HeapAssumption DEF HeapInv, HeapTypeOK, HeapExecve, NoHeap, NewMemory
<1>5. Live' = Live
  BY <1>1, <1>2 DEF Live, HeapInv, HeapTypeOK
<1>6. SharedAlike'
  BY <1>1, <1>2, <1>3, <1>5 DEF HeapInv, HeapTypeOK, SharedAlike, Live, Others
<1>7. HeapsFit'
  <2> SUFFICES ASSUME NEW u \in Live
               PROVE  Fits(heap'[hp'[u]], memory'[mm'[u]])
    BY <1>5 DEF HeapsFit
  <2>1. CASE u = t
    BY <1>1, <1>2, <1>3, <2>1 DEF HeapInv, HeapTypeOK, Fits, NoHeap, NewMemory
  <2>2. CASE u # t
    BY <1>1, <1>2, <1>3, <2>2 DEF HeapInv, HeapTypeOK, HeapsFit, Others, Live
  <2> QED
    BY <2>1, <2>2
<1> QED
  BY <1>4, <1>6, <1>7 DEF HeapInv

LEMMA ExitKeepsHeapInv ==
  ASSUME HeapInv, NEW t \in Live, HeapExit(t)
  PROVE  HeapInv'
BY DEF HeapExit, HeapInv, HeapTypeOK, SharedAlike, HeapsFit, Live

LEMMA HeapStepInv == HeapInv /\ [HeapNext]_heapVars => HeapInv'
<1> SUFFICES ASSUME HeapInv, [HeapNext]_heapVars
             PROVE  HeapInv'
  OBVIOUS
<1>1. CASE UNCHANGED heapVars
  BY <1>1 DEF heapVars, HeapInv, HeapTypeOK, SharedAlike, HeapsFit, Live
<1>2. CASE HeapNext
  <2>1. PICK t \in RunningTracees :
        \/ FirstBrk(t)
        \/ \E address \in Addresses :
              LowBrk(t, address) \/ ResizeBrk(t, address) \/ OtherMapping(t, address)
        \/ \E granted \in BOOLEAN : SuspiciousBrk(t, granted)
        \/ \E kid \in HeapTracees, shared \in BOOLEAN : HeapClone(t, kid, shared)
        \/ HeapExecve(t)
        \/ HeapExit(t)
    BY <1>2 DEF HeapNext
  <2>2. t \in Live /\ Addresses \subseteq Nat
    BY HeapAssumption DEF RunningTracees, Addresses
  <2> QED
    BY <2>1, <2>2, FirstBrkKeepsInv, LaterBrkKeepsInv, OthersKeepInv, CloneKeepsHeapInv,
       ExecveKeepsHeapInv, ExitKeepsHeapInv
<1> QED
  BY <1>1, <1>2

(***************************************************************************)
(* translate_brk_enter, translate_brk_exit, new_child and                  *)
(* translate_execve_exit keep one record for one memory: for any page size *)
(* and any tracees that fork, share their memory or leave it by execve,    *)
(* the heap each was told it has is mapped, up to its page and no further. *)
(***************************************************************************)
THEOREM HeapAlwaysMapped == HeapSpec => []HeapMapped
<1>1. HeapInv => HeapMapped
  BY HeapAssumption DEF HeapInv, HeapTypeOK, SharedAlike, HeapsFit, Fits, HeapMapped, Live
<1> QED
  BY <1>1, HeapInitInv, HeapStepInv, PTL DEF HeapSpec

-------------------------------------------------------------------------------
(* The modes of files *)

LEMMA MinOfNats ==
  ASSUME NEW S \in SUBSET Nat, S # {}
  PROVE  Min(S) \in S /\ \A y \in S : Min(S) <= y
<1>1. PICK x \in S : \A y \in S : ~ (<<y, x>> \in OpToRel(<, Nat))
  BY NatLessThanWellFounded, WFMin
<1>2. OpToRel(<, Nat) = {ss \in Nat \X Nat : ss[1] < ss[2]}
  BY Zenon DEF OpToRel
<1>3. ASSUME NEW y \in S
      PROVE  x <= y
  <2>1. <<y, x>> \in Nat \X Nat
    OBVIOUS
  <2>2. ~ (y < x)
    BY <1>1, <1>2, <2>1
  <2> QED
    BY <2>2
<1> QED
  BY <1>3 DEF Min

ModeEntry == [node : Nodes, mode : Modes]

ModeTypeOK ==
    /\ mode \in [Nodes -> Modes] /\ given \in [Nodes -> Modes]
    /\ collector \in [ModeTracees -> Seq(ModeEntry)]
    /\ doing \in [ModeTracees -> ModeCalls \cup {NoModeCall}]
    /\ denied \in BOOLEAN /\ meddled \in BOOLEAN

\* A collector has at most one entry of a node.
OnceEach(kept) == \A i, j \in DOMAIN kept : kept[i].node = kept[j].node => i = j

Holds(u, n) == Entries(collector[u], n) # {}

\* No node is in the collectors of two tracees ...
Alone == \A n \in Nodes : \A u, v \in ModeTracees : Holds(u, n) /\ Holds(v, n) => u = v

\* ... and nobody else uses those of a call.
CallAlone ==
    \A u \in ModeTracees : doing[u] # NoModeCall => ~ NodeBusy(Dir, u) /\ ~ NodeBusy(doing[u].file, u)

\* A node in no collector has the mode a program gave, ...
Untouched == \A n \in Nodes : (\A u \in ModeTracees : ~ Holds(u, n)) => mode[n] = given[n]

\* ... one in a collector will get it back, or gets the one that a chmod(2) on its way gives.
ToCome(u, n) == IF doing[u].name = "chmod" /\ doing[u].file = n THEN doing[u].to ELSE given[n]

EntriesRight ==
    \A u \in ModeTracees : \A i \in DOMAIN collector[u] :
        collector[u][i].mode = ToCome(u, collector[u][i].node)

\* The nodes of a call are accessible until it has run.
Opened ==
    \A u \in ModeTracees : doing[u] # NoModeCall =>
        mode[Dir] = "open" /\ (doing[u].name = "access" => mode[doing[u].file] = "open")

\* The inductive invariant.
ModeInv ==
    /\ ModeTypeOK
    /\ \A u \in ModeTracees : OnceEach(collector[u])
    /\ ~ meddled => ~ denied /\ Alone /\ CallAlone /\ Untouched /\ EntriesRight /\ Opened

\* Flushing a collector gives each of its nodes its mode back, and leaves the others.
LEMMA RestoredModes ==
  ASSUME NEW modes \in [Nodes -> Modes], NEW kept \in Seq(ModeEntry), OnceEach(kept)
  PROVE  /\ Restored(modes, kept) \in [Nodes -> Modes]
         /\ \A i \in DOMAIN kept : Restored(modes, kept)[kept[i].node] = kept[i].mode
         /\ \A n \in Nodes : Entries(kept, n) = {} => Restored(modes, kept)[n] = modes[n]
<1>1. ASSUME NEW n \in Nodes, Entries(kept, n) # {}
      PROVE  /\ Min(Entries(kept, n)) \in DOMAIN kept
             /\ kept[Min(Entries(kept, n))] \in ModeEntry
             /\ kept[Min(Entries(kept, n))].node = n
  <2>1. Entries(kept, n) \in SUBSET Nat
    BY DEF Entries
  <2> QED
    BY <1>1, <2>1, MinOfNats DEF Entries
<1>2. ASSUME NEW i \in DOMAIN kept
      PROVE  Restored(modes, kept)[kept[i].node] = kept[i].mode
  <2>1. kept[i].node \in Nodes /\ i \in Entries(kept, kept[i].node)
    <3>1. kept[i] \in ModeEntry
      OBVIOUS
    <3> QED
      BY <3>1 DEF ModeEntry, Entries
  <2>2. Min(Entries(kept, kept[i].node)) = i
    BY <1>1, <2>1 DEF OnceEach
  <2> QED
    BY <2>1, <2>2 DEF Restored
<1>3. Restored(modes, kept) \in [Nodes -> Modes]
  <2>1. ASSUME NEW n \in Nodes
        PROVE  (IF Entries(kept, n) = {} THEN modes[n] ELSE kept[Min(Entries(kept, n))].mode) \in Modes
    BY <1>1 DEF ModeEntry
  <2> QED
    BY <2>1 DEF Restored
<1> QED
  BY <1>2, <1>3 DEF Restored

LEMMA ModeInitInv == ModeInit => ModeInv
<1> SUFFICES ASSUME ModeInit
             PROVE  ModeInv
  OBVIOUS
<1>1. ModeTypeOK
  <2>1. collector \in [ModeTracees -> Seq(ModeEntry)]
    <3>1. << >> \in Seq(ModeEntry)
      OBVIOUS
    <3> QED
      BY <3>1 DEF ModeInit
  <2>2. mode \in [Nodes -> Modes] /\ given \in [Nodes -> Modes]
    BY DEF ModeInit
  <2>3. doing \in [ModeTracees -> ModeCalls \cup {NoModeCall}] /\ denied \in BOOLEAN /\ meddled \in BOOLEAN
    BY DEF ModeInit
  <2> QED
    BY <2>1, <2>2, <2>3 DEF ModeTypeOK
<1>2. \A u \in ModeTracees : collector[u] = << >> /\ OnceEach(collector[u]) /\ DOMAIN collector[u] = {}
  BY DEF ModeInit, OnceEach
<1>3. \A u \in ModeTracees, n \in Nodes : ~ Holds(u, n)
  BY <1>2 DEF Holds, Entries
<1>4. Alone /\ CallAlone /\ Untouched /\ EntriesRight /\ Opened
  BY <1>2, <1>3 DEF ModeInit, Alone, CallAlone, Untouched, EntriesRight, Opened
<1> QED
  BY <1>1, <1>2, <1>4 DEF ModeInv, ModeInit

LEMMA EntryAppended ==
  ASSUME NEW kept \in Seq(ModeEntry), NEW e \in ModeEntry, OnceEach(kept), Entries(kept, e.node) = {}
  PROVE  /\ Append(kept, e) \in Seq(ModeEntry) /\ OnceEach(Append(kept, e))
         /\ \A i \in DOMAIN Append(kept, e) :
              Append(kept, e)[i] = e \/ (i \in DOMAIN kept /\ Append(kept, e)[i] = kept[i])
         /\ \A n \in Nodes : Entries(Append(kept, e), n) = {} <=> n # e.node /\ Entries(kept, n) = {}
<1> DEFINE longer == Append(kept, e)
<1>1. /\ longer \in Seq(ModeEntry) /\ DOMAIN longer = 1 .. Len(kept) + 1 /\ DOMAIN kept = 1 .. Len(kept)
      /\ longer[Len(kept) + 1] = e /\ \A i \in DOMAIN kept : longer[i] = kept[i]
      /\ Len(kept) \in Nat
  OBVIOUS
<1> HIDE DEF longer
<1>2. \A i \in DOMAIN longer : (i = Len(kept) + 1 /\ longer[i] = e) \/ (i \in DOMAIN kept /\ longer[i] = kept[i])
  <2> TAKE i \in DOMAIN longer
  <2>1. i = Len(kept) + 1 \/ i \in DOMAIN kept
    BY <1>1
  <2> QED
    BY <1>1, <2>1
<1>3. \A i \in DOMAIN kept : kept[i].node # e.node
  BY DEF Entries
<1>4. OnceEach(longer)
  BY <1>2, <1>3 DEF OnceEach
<1>5. ASSUME NEW n \in Nodes
      PROVE  Entries(longer, n) = {} <=> n # e.node /\ Entries(kept, n) = {}
  <2>1. Entries(longer, n) = {} <=> \A i \in DOMAIN longer : longer[i].node # n
    BY DEF Entries
  <2>2. Entries(kept, n) = {} <=> \A i \in DOMAIN kept : kept[i].node # n
    BY DEF Entries
  <2>3. DOMAIN kept \subseteq DOMAIN longer /\ Len(kept) + 1 \in DOMAIN longer
    BY <1>1
  <2> QED
    BY <1>1, <1>2, <2>1, <2>2, <2>3
<1> QED
  BY <1>1, <1>2, <1>4, <1>5 DEF longer

\* What the entry of a call makes of one component of the path: it is accessible then, but the last
\* one for stat(2); if that changed its mode, the collector has what it shall be.
Overridden(s, call, node, on) ==
    /\ on.mode \in [Nodes -> Modes] /\ on.kept \in Seq(ModeEntry) /\ OnceEach(on.kept)
    /\ on.mode[node] = "open" \/ (node = call.file /\ call.name = "stat")
    /\ \A n \in Nodes \ {node} :
         on.mode[n] = s.mode[n] /\ (Entries(on.kept, n) = {} <=> Entries(s.kept, n) = {})
    /\ Entries(on.kept, node) = {} => on.mode[node] = s.mode[node]
    /\ \A i \in DOMAIN on.kept :
         \/ i \in DOMAIN s.kept /\ on.kept[i] = s.kept[i]
         \/ on.kept[i] = Kept(call, node) /\ s.mode[node] = "shut"

LEMMA OverrideOnce ==
  ASSUME NEW s, s.mode \in [Nodes -> Modes], s.kept \in Seq(ModeEntry), OnceEach(s.kept),
         NEW call \in ModeCalls, NEW node \in Nodes, Entries(s.kept, node) = {}
  PROVE  Overridden(s, call, node, Override(s, call, node))
<1> DEFINE on == Override(s, call, node)
<1> USE DEF Overridden
<1>1. CASE s.mode[node] = "open" \/ (node = call.file /\ call.name = "stat")
  <2>1. on = s
    BY <1>1 DEF Override
  <2> HIDE DEF on
  <2>2. on.mode[node] = "open" \/ (node = call.file /\ call.name = "stat")
    BY <1>1, <2>1
  <2>3. on.mode \in [Nodes -> Modes] /\ on.kept \in Seq(ModeEntry) /\ OnceEach(on.kept)
    BY <2>1
  <2>4. on.mode = s.mode /\ on.kept = s.kept
    BY <2>1
  <2> QED
    BY <2>2, <2>3, <2>4 DEF on
<1>2. CASE ~ (s.mode[node] = "open" \/ (node = call.file /\ call.name = "stat"))
  <2> DEFINE e == Kept(call, node)
  <2>1. on = [mode |-> [s.mode EXCEPT ![node] = "open"], kept |-> Append(s.kept, e)]
    BY <1>2 DEF Override
  <2>2. on.mode = [s.mode EXCEPT ![node] = "open"] /\ on.kept = Append(s.kept, e)
    BY <2>1
  <2>3. e \in ModeEntry /\ e.node = node
    BY DEF Kept, ModeEntry, ModeCalls, Modes
  <2> HIDE DEF e, on
  <2>4. on.mode \in [Nodes -> Modes] /\ on.mode[node] = "open" /\ \A n \in Nodes \ {node} : on.mode[n] = s.mode[n]
    BY <2>2 DEF Modes
  <2>5. /\ on.kept \in Seq(ModeEntry) /\ OnceEach(on.kept)
        /\ \A n \in Nodes : Entries(on.kept, n) = {} <=> n # node /\ Entries(s.kept, n) = {}
        /\ \A i \in DOMAIN on.kept :
              on.kept[i] = e \/ (i \in DOMAIN s.kept /\ on.kept[i] = s.kept[i])
    <3>1. Entries(s.kept, e.node) = {}
      BY <2>3
    <3> QED
      BY <2>2, <2>3, <3>1, EntryAppended
  <2> QED
    BY <1>2, <2>4, <2>5 DEF e, on, Modes
<1> QED
  BY <1>1, <1>2

LEMMA KeptMode ==
  ASSUME NEW call, NEW node, NEW e, e = Kept(call, node)
  PROVE  /\ e.node = node
         /\ node # call.file \/ call.name # "chmod" => e.mode = "shut"
         /\ node = call.file /\ call.name = "chmod" => e.mode = call.to
BY DEF Kept

\* What it makes of the two components of the path of a call.
Prepared(modes, call, on) ==
    /\ on.mode \in [Nodes -> Modes] /\ on.kept \in Seq(ModeEntry) /\ OnceEach(on.kept)
    /\ on.mode[Dir] = "open" /\ (call.name # "stat" => on.mode[call.file] = "open")
    /\ \A n \in Nodes : Entries(on.kept, n) = {} => on.mode[n] = modes[n]
    /\ \A i \in DOMAIN on.kept :
         /\ on.kept[i].node \in {Dir, call.file}
         /\ on.kept[i].mode = IF call.name = "chmod" /\ call.file = on.kept[i].node
                              THEN call.to ELSE modes[on.kept[i].node]

LEMMA OverrideTwice ==
  ASSUME NEW modes \in [Nodes -> Modes], NEW call \in ModeCalls, NEW on,
         on = Override(Override([mode |-> modes, kept |-> << >>], call, Dir), call, call.file)
  PROVE  Prepared(modes, call, on)
<1> DEFINE none == [mode |-> modes, kept |-> << >>]
           first == Override(none, call, Dir)
<1>1. call.file \in Nodes /\ Dir \in Nodes /\ call.file # Dir
  BY ModeAssumption DEF ModeCalls, Nodes
<1>2. none.mode = modes /\ none.kept \in Seq(ModeEntry) /\ DOMAIN none.kept = {} /\ OnceEach(none.kept)
  BY DEF OnceEach
<1>3. \A n \in Nodes : Entries(none.kept, n) = {}
  BY <1>2 DEF Entries
<1> HIDE DEF none, first
<1>4. /\ first.mode \in [Nodes -> Modes] /\ first.kept \in Seq(ModeEntry) /\ OnceEach(first.kept)
      /\ first.mode[Dir] = "open"
      /\ \A n \in Nodes \ {Dir} : first.mode[n] = modes[n] /\ Entries(first.kept, n) = {}
      /\ Entries(first.kept, Dir) = {} => first.mode[Dir] = modes[Dir]
      /\ \A i \in DOMAIN first.kept : first.kept[i] = Kept(call, Dir) /\ modes[Dir] = "shut"
  <2>1. first = Override(none, call, Dir)
    BY DEF first
  <2>2. none.mode \in [Nodes -> Modes] /\ Entries(none.kept, Dir) = {}
    BY <1>1, <1>2, <1>3
  <2>3. Overridden(none, call, Dir, first)
    BY <1>1, <1>2, <2>1, <2>2, OverrideOnce
  <2> QED
    BY <1>1, <1>2, <1>3, <2>3 DEF Overridden
<1>5. on = Override(first, call, call.file)
  BY DEF none, first
<1>6. /\ on.mode \in [Nodes -> Modes] /\ on.kept \in Seq(ModeEntry) /\ OnceEach(on.kept)
      /\ on.mode[call.file] = "open" \/ call.name = "stat"
      /\ \A n \in Nodes \ {call.file} :
           on.mode[n] = first.mode[n] /\ (Entries(on.kept, n) = {} <=> Entries(first.kept, n) = {})
      /\ Entries(on.kept, call.file) = {} => on.mode[call.file] = first.mode[call.file]
      /\ \A i \in DOMAIN on.kept :
           \/ i \in DOMAIN first.kept /\ on.kept[i] = first.kept[i]
           \/ on.kept[i] = Kept(call, call.file) /\ first.mode[call.file] = "shut"
  <2>1. first.mode \in [Nodes -> Modes] /\ Entries(first.kept, call.file) = {}
    BY <1>1, <1>4
  <2>2. Overridden(first, call, call.file, on)
    BY <1>1, <1>4, <1>5, <2>1, OverrideOnce
  <2> QED
    BY <2>2 DEF Overridden
<1>7. \A i \in DOMAIN on.kept :
        \/ on.kept[i] = Kept(call, Dir) /\ modes[Dir] = "shut"
        \/ on.kept[i] = Kept(call, call.file) /\ modes[call.file] = "shut"
  BY <1>1, <1>4, <1>6
<1>8. ASSUME NEW i \in DOMAIN on.kept
      PROVE  /\ on.kept[i].node \in {Dir, call.file}
             /\ on.kept[i].mode = IF call.name = "chmod" /\ call.file = on.kept[i].node
                                  THEN call.to ELSE modes[on.kept[i].node]
  <2>1. CASE on.kept[i] = Kept(call, Dir) /\ modes[Dir] = "shut"
    <3>1. on.kept[i].node = Dir /\ on.kept[i].mode = "shut"
      BY <1>1, <2>1, KeptMode
    <3> QED
      BY <1>1, <3>1, <2>1
  <2>2. CASE on.kept[i] = Kept(call, call.file) /\ modes[call.file] = "shut"
    <3>1. on.kept[i].node = call.file /\ on.kept[i].mode = IF call.name = "chmod" THEN call.to ELSE "shut"
      BY <2>2, KeptMode
    <3> QED
      BY <2>2, <3>1
  <2> QED
    BY <1>7, <2>1, <2>2
<1> QED
  BY <1>1, <1>4, <1>6, <1>8 DEF Prepared

\* A flushed collector leaves the modes the programs gave.
LEMMA FlushedModes ==
  ASSUME ModeInv, NEW t \in ModeTracees
  PROVE  /\ Restored(mode, collector[t]) \in [Nodes -> Modes]
         /\ \A n \in Nodes : ~ Holds(t, n) => Restored(mode, collector[t])[n] = mode[n]
         /\ ~ meddled /\ doing[t] = NoModeCall =>
              \A n \in Nodes : (\A u \in ModeTracees \ {t} : ~ Holds(u, n)) =>
                                 Restored(mode, collector[t])[n] = given[n]
<1> DEFINE restored == Restored(mode, collector[t])
<1>1. /\ mode \in [Nodes -> Modes] /\ collector[t] \in Seq(ModeEntry) /\ OnceEach(collector[t])
  BY DEF ModeInv, ModeTypeOK
<1>2. /\ restored \in [Nodes -> Modes]
      /\ \A i \in DOMAIN collector[t] : restored[collector[t][i].node] = collector[t][i].mode
      /\ \A n \in Nodes : Entries(collector[t], n) = {} => restored[n] = mode[n]
  BY <1>1, RestoredModes
<1> HIDE DEF restored
<1>3. ASSUME ~ meddled, doing[t] = NoModeCall, NEW n \in Nodes,
             \A u \in ModeTracees \ {t} : ~ Holds(u, n)
      PROVE  restored[n] = given[n]
  <2>1. CASE ~ Holds(t, n)
    BY <1>2, <1>3, <2>1 DEF ModeInv, Untouched, Holds
  <2>2. CASE Holds(t, n)
    <3>1. PICK i \in DOMAIN collector[t] : collector[t][i].node = n
      BY <2>2 DEF Holds, Entries
    <3>2. collector[t][i].mode = given[n]
      BY <1>3, <3>1 DEF ModeInv, EntriesRight, ToCome, NoModeCall
    <3> QED
      BY <1>2, <3>1, <3>2
  <2> QED
    BY <2>1, <2>2
<1> QED
  BY <1>2, <1>3 DEF Holds, restored

LEMMA EnterKeepsModeInv ==
  ASSUME ModeInv, NEW t \in ModeTracees, NEW call \in ModeCalls, EnterCall(t, call)
  PROVE  ModeInv'
<1> DEFINE fresh == Restored(mode, collector[t])
           on == Override(Override([mode |-> fresh, kept |-> << >>], call, Dir), call, call.file)
<1>1. /\ fresh \in [Nodes -> Modes]
      /\ ~ meddled => \A n \in Nodes : (\A u \in ModeTracees \ {t} : ~ Holds(u, n)) => fresh[n] = given[n]
  BY FlushedModes DEF EnterCall
<1>2. /\ mode' = on.mode /\ collector' = [collector EXCEPT ![t] = on.kept]
      /\ doing[t] = NoModeCall /\ doing' = [doing EXCEPT ![t] = call]
      /\ meddled' = (meddled \/ NodeBusy(Dir, t) \/ NodeBusy(call.file, t))
      /\ UNCHANGED <<given, denied>>
  BY DEF EnterCall
<1> HIDE DEF fresh
<1>3. Prepared(fresh, call, on)
  <2>1. on = Override(Override([mode |-> fresh, kept |-> << >>], call, Dir), call, call.file)
    OBVIOUS
  <2> HIDE DEF on
  <2> QED
    BY <1>1, <2>1, OverrideTwice
<1> USE DEF Prepared
<1> HIDE DEF on
<1>4. /\ collector'[t] = on.kept /\ doing'[t] = call
      /\ \A u \in ModeTracees \ {t} : collector'[u] = collector[u] /\ doing'[u] = doing[u]
  BY <1>2 DEF ModeInv, ModeTypeOK
<1>5. ModeTypeOK'
  <2>1. collector' \in [ModeTracees -> Seq(ModeEntry)] /\ mode' \in [Nodes -> Modes]
    BY <1>2, <1>3 DEF ModeInv, ModeTypeOK
  <2>2. doing' \in [ModeTracees -> ModeCalls \cup {NoModeCall}]
    BY <1>2 DEF ModeInv, ModeTypeOK
  <2>3. denied' \in BOOLEAN /\ meddled' \in BOOLEAN /\ given' \in [Nodes -> Modes]
    BY <1>2 DEF ModeInv, ModeTypeOK
  <2> QED
    BY <2>1, <2>2, <2>3 DEF ModeTypeOK
<1>6. \A u \in ModeTracees : OnceEach(collector'[u])
  BY <1>3, <1>4 DEF ModeInv
<1>7. ASSUME ~ meddled'
      PROVE  ~ denied' /\ Alone' /\ CallAlone' /\ Untouched' /\ EntriesRight' /\ Opened'
  <2>1. /\ ~ meddled /\ ~ denied /\ Alone /\ CallAlone /\ Untouched /\ EntriesRight /\ Opened
        /\ ~ NodeBusy(Dir, t) /\ ~ NodeBusy(call.file, t)
    BY <1>2, <1>7 DEF ModeInv
  <2>2. Dir \in Nodes /\ call.file \in Nodes
    BY DEF Nodes, ModeCalls
  <2>3. \A u \in ModeTracees \ {t} :
          doing[u] = NoModeCall /\ ~ Holds(u, Dir) /\ ~ Holds(u, call.file)
    BY <2>1 DEF NodeBusy, Holds
  <2>4. /\ \A u \in ModeTracees \ {t} : \A n \in Nodes : Holds(u, n)' <=> Holds(u, n)
        /\ \A n \in Nodes : Holds(t, n)' => n \in {Dir, call.file}
        /\ \A n \in Nodes : Holds(t, n)' <=> Entries(on.kept, n) # {}
    BY <1>3, <1>4 DEF Holds, Entries
  <2>5. Alone'
    BY <2>1, <2>3, <2>4 DEF Alone
  <2>6. CallAlone'
    <3> SUFFICES ASSUME NEW u \in ModeTracees, doing'[u] # NoModeCall
                 PROVE  ~ NodeBusy(Dir, u)' /\ ~ NodeBusy(doing[u].file, u)'
      BY DEF CallAlone
    <3>1. u = t
      BY <1>4, <2>3
    <3> QED
      BY <1>4, <2>3, <3>1 DEF NodeBusy, Holds
  <2>7. Untouched'
    BY <1>1, <1>2, <1>3, <2>1, <2>4 DEF Untouched
  <2>8. EntriesRight'
    <3> SUFFICES ASSUME NEW u \in ModeTracees, NEW i \in DOMAIN collector'[u]
                 PROVE  collector'[u][i].mode = ToCome(u, collector[u][i].node)'
      BY DEF EntriesRight
    <3>1. CASE u = t
      <4>1. fresh[Dir] = given[Dir] /\ fresh[call.file] = given[call.file]
        BY <1>1, <2>1, <2>2, <2>3
      <4> QED
        BY <1>2, <1>3, <1>4, <3>1, <4>1 DEF ToCome
    <3>2. CASE u # t
      BY <1>2, <1>4, <2>1, <3>2 DEF EntriesRight, ToCome
    <3> QED
      BY <3>1, <3>2
  <2>9. Opened'
    BY <1>2, <1>3, <1>4, <2>3 DEF Opened
  <2> QED
    BY <1>2, <2>1, <2>5, <2>6, <2>7, <2>8, <2>9
<1> QED
  BY <1>5, <1>6, <1>7 DEF ModeInv

\* The call finds its nodes open; one that changes a mode gives its collector's entry that mode.
LEMMA RunKeepsModeInv ==
  ASSUME ModeInv, NEW t \in ModeTracees, Run(t)
  PROVE  ModeInv'
<1> DEFINE call == doing[t]
<1>1. call \in ModeCalls /\ call # NoModeCall /\ call.file \in Nodes /\ call.to \in Modes /\ Dir \in Nodes
      /\ call.file # Dir
  BY ModeAssumption DEF Run, ModeInv, ModeTypeOK, ModeCalls, Nodes
<1>2. doing' = [doing EXCEPT ![t] = NoModeCall] /\ UNCHANGED <<collector, meddled>>
  BY DEF Run
<1>3. /\ doing'[t] = NoModeCall
      /\ \A u \in ModeTracees \ {t} : doing'[u] = doing[u]
  BY <1>2 DEF ModeInv, ModeTypeOK
<1>4. \/ denied' /\ UNCHANGED <<mode, given>>
      \/ /\ call.name = "chmod"
         /\ mode' = [mode EXCEPT ![call.file] = call.to] /\ given' = [given EXCEPT ![call.file] = call.to]
      \/ call.name # "chmod" /\ UNCHANGED <<mode, given>>
  BY <1>1 DEF Run, ModeInv, ModeTypeOK
<1>5. ModeTypeOK'
  <2>1. mode' \in [Nodes -> Modes] /\ given' \in [Nodes -> Modes]
    BY <1>1, <1>4 DEF ModeInv, ModeTypeOK
  <2>2. denied' \in BOOLEAN
    BY DEF Run
  <2>3. doing' \in [ModeTracees -> ModeCalls \cup {NoModeCall}]
    BY <1>2 DEF ModeInv, ModeTypeOK
  <2> QED
    BY <1>2, <2>1, <2>2, <2>3 DEF ModeInv, ModeTypeOK
<1>6. ASSUME ~ meddled'
      PROVE  ~ denied' /\ Alone' /\ CallAlone' /\ Untouched' /\ EntriesRight' /\ Opened'
  <2>1. /\ ~ meddled /\ ~ denied /\ Alone /\ CallAlone /\ Untouched /\ EntriesRight /\ Opened
        /\ ~ NodeBusy(Dir, t) /\ ~ NodeBusy(call.file, t)
    BY <1>1, <1>2, <1>6 DEF ModeInv, CallAlone
  <2>2. \A u \in ModeTracees \ {t} :
          doing[u] = NoModeCall /\ ~ Holds(u, Dir) /\ ~ Holds(u, call.file)
    BY <2>1 DEF NodeBusy, Holds
  <2>3. ~ denied'
    BY <1>1, <2>1 DEF Run, Opened
  <2>4. \/ /\ call.name = "chmod"
           /\ mode' = [mode EXCEPT ![call.file] = call.to] /\ given' = [given EXCEPT ![call.file] = call.to]
        \/ call.name # "chmod" /\ UNCHANGED <<mode, given>>
    BY <1>4, <2>3
  <2>5. \A u \in ModeTracees, n \in Nodes : Holds(u, n)' <=> Holds(u, n)
    BY <1>2 DEF Holds
  <2>6. \A u \in ModeTracees : doing'[u] = NoModeCall
    BY <1>3, <2>2
  <2>7. Alone' /\ CallAlone' /\ Opened'
    BY <2>1, <2>5, <2>6 DEF Alone, CallAlone, Opened
  <2>8. Untouched'
    BY <1>1, <2>1, <2>4, <2>5 DEF Untouched, ModeInv, ModeTypeOK
  <2>9. EntriesRight'
    <3> SUFFICES ASSUME NEW u \in ModeTracees, NEW i \in DOMAIN collector[u]
                 PROVE  collector[u][i].mode = given'[collector[u][i].node]
      BY <1>2, <2>6 DEF EntriesRight, ToCome, NoModeCall
    <3>1. collector[u][i].node \in Nodes
      <4>1. collector[u][i] \in ModeEntry
        BY DEF ModeInv, ModeTypeOK
      <4> QED
        BY <4>1 DEF ModeEntry
    <3>2. collector[u][i].mode = ToCome(u, collector[u][i].node)
      BY <2>1 DEF EntriesRight
    <3>3. CASE u = t
      BY <1>1, <2>4, <3>1, <3>2, <3>3 DEF ToCome, ModeInv, ModeTypeOK
    <3>4. CASE u # t
      <4>1. collector[u][i].mode = given[collector[u][i].node]
        BY <2>2, <3>2, <3>4 DEF ToCome, NoModeCall
      <4>2. collector[u][i].node # call.file
        BY <2>2, <3>4 DEF Holds, Entries
      <4> QED
        BY <1>1, <2>4, <3>1, <4>1, <4>2 DEF ModeInv, ModeTypeOK
    <3> QED
      BY <3>3, <3>4
  <2> QED
    BY <2>3, <2>7, <2>8, <2>9
<1> QED
  BY <1>2, <1>5, <1>6 DEF ModeInv

\* A collector is flushed when its tracee stops, and all are lost when PRoot dies.
LEMMA FlushKeepsModeInv ==
  ASSUME ModeInv, NEW t \in ModeTracees, Flush(t)
  PROVE  ModeInv'
<1> DEFINE fresh == Restored(mode, collector[t])
<1>1. /\ fresh \in [Nodes -> Modes]
      /\ \A n \in Nodes : ~ Holds(t, n) => fresh[n] = mode[n]
      /\ ~ meddled /\ doing[t] = NoModeCall =>
           \A n \in Nodes : (\A u \in ModeTracees \ {t} : ~ Holds(u, n)) => fresh[n] = given[n]
  BY FlushedModes
<1>2. /\ mode' = fresh /\ collector' = [collector EXCEPT ![t] = << >>]
      /\ meddled' = (meddled \/ doing[t] # NoModeCall)
      /\ UNCHANGED <<doing, given, denied>>
  BY DEF Flush
<1> HIDE DEF fresh
<1>3. /\ collector'[t] = << >> /\ \A u \in ModeTracees \ {t} : collector'[u] = collector[u]
      /\ collector' \in [ModeTracees -> Seq(ModeEntry)]
  BY <1>2 DEF ModeInv, ModeTypeOK
<1>4. ModeTypeOK'
  BY <1>1, <1>2, <1>3 DEF ModeInv, ModeTypeOK
<1>5. \A u \in ModeTracees : OnceEach(collector'[u])
  BY <1>3 DEF ModeInv, OnceEach
<1>6. ASSUME ~ meddled'
      PROVE  ~ denied' /\ Alone' /\ CallAlone' /\ Untouched' /\ EntriesRight' /\ Opened'
  <2>1. /\ ~ meddled /\ ~ denied /\ Alone /\ CallAlone /\ Untouched /\ EntriesRight /\ Opened
        /\ doing[t] = NoModeCall
    BY <1>2, <1>6 DEF ModeInv
  <2>2. /\ \A u \in ModeTracees \ {t} : \A n \in Nodes : Holds(u, n)' <=> Holds(u, n)
        /\ \A n \in Nodes : ~ Holds(t, n)'
    BY <1>3 DEF Holds, Entries
  <2>3. Alone'
    BY <2>1, <2>2 DEF Alone
  <2>4. CallAlone'
    <3>1. \A u \in ModeTracees, n \in Nodes : NodeBusy(n, u)' => NodeBusy(n, u)
      BY <1>2, <2>2 DEF NodeBusy, Holds
    <3>2. \A u \in ModeTracees : doing[u] # NoModeCall => doing[u].file \in Nodes
      BY DEF ModeInv, ModeTypeOK, ModeCalls, Nodes
    <3> QED
      BY <1>2, <2>1, <3>1, <3>2 DEF CallAlone, Nodes
  <2>5. Untouched'
    BY <1>1, <1>2, <2>1, <2>2 DEF Untouched
  <2>6. EntriesRight'
    BY <1>2, <1>3, <2>1 DEF EntriesRight, ToCome
  <2>7. Opened'
    <3> SUFFICES ASSUME NEW u \in ModeTracees, doing[u] # NoModeCall
                 PROVE  mode'[Dir] = mode[Dir] /\ mode'[doing[u].file] = mode[doing[u].file]
      BY <1>2, <2>1 DEF Opened
    <3>1. Dir \in Nodes /\ doing[u].file \in Nodes
      BY DEF ModeInv, ModeTypeOK, ModeCalls, Nodes
    <3>2. ~ Holds(t, Dir) /\ ~ Holds(t, doing[u].file)
      BY <2>1 DEF CallAlone, NodeBusy, Holds
    <3> QED
      BY <1>1, <1>2, <3>1, <3>2
  <2> QED
    BY <1>2, <2>1, <2>3, <2>4, <2>5, <2>6, <2>7
<1> QED
  BY <1>4, <1>5, <1>6 DEF ModeInv

LEMMA DieKeepsModeInv ==
  ASSUME ModeInv, Die
  PROVE  ModeInv'
<1>1. /\ collector' = [t \in ModeTracees |-> << >>] /\ doing' = [t \in ModeTracees |-> NoModeCall]
      /\ meddled' = (meddled \/ \E t \in ModeTracees : collector[t] # << >>)
      /\ UNCHANGED <<mode, given, denied>>
  BY DEF Die
<1>2. ModeTypeOK'
  <2>1. collector' \in [ModeTracees -> Seq(ModeEntry)] /\ doing' \in [ModeTracees -> ModeCalls \cup {NoModeCall}]
    BY <1>1
  <2>2. meddled' \in BOOLEAN
    BY <1>1
  <2> QED
    BY <1>1, <2>1, <2>2 DEF ModeInv, ModeTypeOK
<1>3. \A u \in ModeTracees : collector'[u] = << >> /\ OnceEach(collector'[u]) /\ DOMAIN collector'[u] = {}
  BY <1>1 DEF OnceEach
<1>4. \A u \in ModeTracees, n \in Nodes : ~ Holds(u, n)'
  BY <1>3 DEF Holds, Entries
<1>5. ASSUME ~ meddled'
      PROVE  ~ denied' /\ Alone' /\ CallAlone' /\ Untouched' /\ EntriesRight' /\ Opened'
  <2>1. \A u \in ModeTracees : collector[u] = << >>
    BY <1>1, <1>5
  <2>2. \A u \in ModeTracees, n \in Nodes : ~ Holds(u, n)
    BY <2>1 DEF Holds, Entries
  <2>3. Untouched'
    BY <1>1, <1>5, <2>2 DEF ModeInv, Untouched
  <2>4. Alone' /\ CallAlone' /\ EntriesRight' /\ Opened'
    BY <1>1, <1>3, <1>4 DEF Alone, CallAlone, EntriesRight, Opened
  <2> QED
    BY <1>1, <1>5, <2>3, <2>4 DEF ModeInv
<1> QED
  BY <1>2, <1>3, <1>5 DEF ModeInv

LEMMA ModeStepInv == ModeInv /\ [ModeNext]_modeVars => ModeInv'
<1> SUFFICES ASSUME ModeInv, [ModeNext]_modeVars
             PROVE  ModeInv'
  OBVIOUS
<1>1. CASE UNCHANGED modeVars
  BY <1>1 DEF modeVars, ModeInv, ModeTypeOK, Alone, CallAlone, NodeBusy, Untouched, Holds, EntriesRight,
              ToCome, Opened
<1>2. CASE ModeNext
  BY <1>2, EnterKeepsModeInv, RunKeepsModeInv, FlushKeepsModeInv, DieKeepsModeInv DEF ModeNext, ModeStep
<1> QED
  BY <1>1, <1>2

(***************************************************************************)
(* "Force permissions of @path to "rwx" [...] in order to simulate         *)
(* CAP_DAC_OVERRIDE.  The original permissions are restored through talloc *)
(* destructors" (fake_id0.c:396): whatever calls any number of tracees     *)
(* make as root, in whatever order, none is denied and, once no collector  *)
(* holds a mode, every node has the last one a program gave - as long as   *)
(* two calls do not overlap on a node and no collector is flushed during   *)
(* its call.                                                               *)
(***************************************************************************)
THEOREM ModesAlwaysComeBack == ModeSpec => []ModesComeBack
<1>1. ModeInv => ModesComeBack
  <2> SUFFICES ASSUME ModeInv, ~ meddled, \A t \in ModeTracees : collector[t] = << >>
               PROVE  mode = given
    BY DEF ModeInv, ModesComeBack
  <2>1. \A u \in ModeTracees, n \in Nodes : ~ Holds(u, n)
    BY DEF Holds, Entries
  <2>2. \A n \in Nodes : mode[n] = given[n]
    BY <2>1 DEF ModeInv, Untouched
  <2> QED
    BY <2>2 DEF ModeInv, ModeTypeOK
<1> QED
  BY <1>1, ModeInitInv, ModeStepInv, PTL DEF ModeSpec

-------------------------------------------------------------------------------
(* The fake netlink sockets *)

NetFiles == [kind : {"none", "unix", "file"}, cloexec : BOOLEAN]

NetTypeOK ==
    /\ tableOf \in [NetTracees -> NetTracees \cup {NoTable}]
    /\ table \in [NetTracees -> [NetFds -> NetFiles]]
    /\ fakeFds \in [NetTracees -> Seq(NetFds)]
    /\ pending \in [NetTracees -> [on : BOOLEAN, cloexec : BOOLEAN]]
    /\ unseen \in BOOLEAN

\* A descriptor is noted at most once, so that close(2) forgets it.
Once(fds) == \A i, j \in DOMAIN fds : fds[i] = fds[j] => i = j

\* Nothing is noted for a tracee that is not born, and nobody has its table.
NewbornEmpty ==
    \A u \in NetTracees : ~ Born(u) => fakeFds[u] = << >> /\ \A v \in NetTracees : tableOf[v] # u

\* What is noted is a substitute.
Substitutes == \A u \in NetTracees : \A fd \in NetFds : IsFake(u, fd) => TableOf(u)[fd].kind = "unix"

\* The inductive invariant.
NetInv ==
    /\ NetTypeOK
    /\ \A u \in NetTracees : Once(fakeFds[u])
    /\ NewbornEmpty
    /\ ~ unseen => Substitutes

\* The descriptor the kernel gives is free.
LEMMA LowestFree ==
  ASSUME NetInv, NEW t \in NetTracees, Lowest(t) >= 0
  PROVE  Lowest(t) \in NetFds /\ TableOf(t)[Lowest(t)] = NoFile
<1> DEFINE free == {fd \in NetFds : TableOf(t)[fd] = NoFile}
<1>1. free \in SUBSET Nat
  BY NetAssumption
<1>2. free # {}
  BY DEF Lowest
<1>3. Lowest(t) = Min(free)
  BY <1>2 DEF Lowest
<1>4. Min(free) \in free
  BY <1>1, <1>2, MinOfNats
<1> QED
  BY <1>3, <1>4

\* What is noted once a descriptor is.
LEMMA NotedFds ==
  ASSUME NetInv, NEW t \in NetTracees, NEW fd \in NetFds \cup {-1}
  PROVE  /\ Noted(t, fd) \in Seq(NetFds) /\ Once(Noted(t, fd))
         /\ \A i \in DOMAIN Noted(t, fd) : IsFake(t, Noted(t, fd)[i]) \/ (fd >= 0 /\ Noted(t, fd)[i] = fd)
<1>1. fakeFds[t] \in Seq(NetFds) /\ Once(fakeFds[t])
  BY DEF NetInv, NetTypeOK
<1>2. CASE Noted(t, fd) = fakeFds[t]
  BY <1>1, <1>2 DEF IsFake
<1>3. CASE Noted(t, fd) = Append(fakeFds[t], fd) /\ fd >= 0 /\ ~ IsFake(t, fd)
  <2> DEFINE fds == fakeFds[t]
             more == Append(fds, fd)
  <2>1. /\ fd \in NetFds /\ fds \in Seq(NetFds)
        /\ \A i \in DOMAIN fds : fds[i] # fd
    BY <1>1, <1>3, NetAssumption DEF IsFake
  <2> HIDE DEF fds
  <2>2. /\ more \in Seq(NetFds) /\ DOMAIN more = 1 .. Len(fds) + 1 /\ DOMAIN fds = 1 .. Len(fds)
        /\ more[Len(fds) + 1] = fd /\ Len(fds) \in Nat
        /\ \A i \in DOMAIN fds : more[i] = fds[i]
    BY <2>1
  <2> HIDE DEF more
  <2>3. \A i \in DOMAIN more : (i = Len(fds) + 1 /\ more[i] = fd) \/ (i \in DOMAIN fds /\ more[i] = fds[i])
    <3> TAKE i \in DOMAIN more
    <3>1. i = Len(fds) + 1 \/ i \in DOMAIN fds
      BY <2>2
    <3> QED
      BY <2>2, <3>1
  <2>4. Once(fds)
    BY <1>1 DEF fds
  <2>5. Once(more)
    BY <2>1, <2>3, <2>4 DEF Once
  <2>6. Noted(t, fd) = more
    BY <1>3 DEF more, fds
  <2> QED
    BY <1>3, <2>2, <2>3, <2>5, <2>6 DEF IsFake, fds
<1> QED
  BY <1>2, <1>3 DEF Noted

\* What is noted once one is closed.
LEMMA UnmarkedFds ==
  ASSUME NetInv, NEW t \in NetTracees, NEW fd \in NetFds
  PROVE  /\ Unmarked(t, fd) \in Seq(NetFds) /\ Once(Unmarked(t, fd))
         /\ \A i \in DOMAIN Unmarked(t, fd) : IsFake(t, Unmarked(t, fd)[i]) /\ Unmarked(t, fd)[i] # fd
<1>1. fakeFds[t] \in Seq(NetFds) /\ Once(fakeFds[t])
  BY DEF NetInv, NetTypeOK
<1>2. CASE ~ IsFake(t, fd)
  BY <1>1, <1>2 DEF Unmarked, IsFake
<1>3. CASE IsFake(t, fd)
  <2> DEFINE fds == fakeFds[t]
             at == Min({k \in DOMAIN fds : fds[k] = fd})
             less == Front([fds EXCEPT ![at] = Last(fds)])
  <2>1. at \in DOMAIN fds /\ fds[at] = fd
    <3>1. {k \in DOMAIN fds : fds[k] = fd} \in SUBSET Nat
      BY <1>1
    <3>2. {k \in DOMAIN fds : fds[k] = fd} # {}
      BY <1>3 DEF IsFake
    <3> QED
      BY <3>1, <3>2, MinOfNats
  <2>2. Unmarked(t, fd) = less
    BY <1>3 DEF Unmarked
  <2>3. fds \in Seq(NetFds) /\ Once(fds)
    BY <1>1
  <2> HIDE DEF at
  <2>4. Len(fds) \in Nat \ {0} /\ DOMAIN fds = 1 .. Len(fds)
    BY <2>1, <2>3
  <2> DEFINE moved == [fds EXCEPT ![at] = Last(fds)]
  <2>5. /\ moved \in Seq(NetFds) /\ Len(moved) = Len(fds)
        /\ \A i \in DOMAIN fds : moved[i] = IF i = at THEN fds[Len(fds)] ELSE fds[i]
    BY <2>1, <2>3, <2>4 DEF Last
  <2> HIDE DEF fds, moved
  <2>6. /\ less \in Seq(NetFds) /\ Len(less) = Len(fds) - 1 /\ DOMAIN less = 1 .. Len(fds) - 1
        /\ \A i \in 1 .. Len(fds) - 1 : less[i] = moved[i]
    <3>1. less = SubSeq(moved, 1, Len(moved) - 1)
      BY DEF Front, moved
    <3> HIDE DEF less
    <3> QED
      BY <2>4, <2>5, <3>1
  <2> HIDE DEF less
  <2>7. /\ less \in Seq(NetFds) /\ DOMAIN less = 1 .. Len(fds) - 1 /\ Len(fds) \in DOMAIN fds
        /\ \A i \in 1 .. Len(fds) - 1 : i \in DOMAIN fds /\ less[i] = IF i = at THEN fds[Len(fds)] ELSE fds[i]
    BY <2>4, <2>5, <2>6
  <2>8. Once(less)
    BY <2>3, <2>4, <2>7 DEF Once
  <2>9. \A i \in DOMAIN less : (\E k \in DOMAIN fds : fds[k] = less[i]) /\ less[i] # fd
    BY <2>1, <2>3, <2>4, <2>7 DEF Once
  <2> QED
    BY <2>2, <2>7, <2>8, <2>9 DEF IsFake, fds
<1> QED
  BY <1>2, <1>3

\* A change of one descriptor is seen by those who share its table.
LEMMA FileSet ==
  ASSUME NetInv, NEW t \in NetTracees, Born(t), NEW fd \in NetFds, NEW file \in NetFiles, SetFile(t, fd, file)
  PROVE  /\ table' \in [NetTracees -> [NetFds -> NetFiles]]
         /\ \A u \in NetTracees : Born(u) =>
              \A f \in NetFds : table'[tableOf[u]][f] =
                IF tableOf[u] = tableOf[t] /\ f = fd THEN file ELSE TableOf(u)[f]
<1>1. /\ tableOf[t] \in NetTracees /\ table \in [NetTracees -> [NetFds -> NetFiles]]
      /\ \A u \in NetTracees : Born(u) => tableOf[u] \in NetTracees
  BY NetAssumption DEF NetInv, NetTypeOK, Born
<1>2. table' = [table EXCEPT ![tableOf[t]] = [table[tableOf[t]] EXCEPT ![fd] = file]]
  BY DEF SetFile
<1> QED
  BY <1>1, <1>2 DEF TableOf

LEMMA NewFilesTyped ==
  /\ NoFile \in NetFiles /\ NoFile.kind = "none"
  /\ [kind |-> "file", cloexec |-> FALSE] \in NetFiles
  /\ \A cloexec \in BOOLEAN : /\ [kind |-> "unix", cloexec |-> cloexec] \in NetFiles
                              /\ [kind |-> "unix", cloexec |-> cloexec].kind = "unix"
BY DEF NoFile, NetFiles

\* What the born know of their descriptors, where a tracee notes others than before.
LEMMA NotesTyped ==
  ASSUME NetInv, NEW t \in NetTracees, Born(t), NEW fds \in Seq(NetFds), Once(fds),
         fakeFds' = [fakeFds EXCEPT ![t] = fds], tableOf' = tableOf
  PROVE  /\ fakeFds' \in [NetTracees -> Seq(NetFds)]
         /\ \A u \in NetTracees : Once(fakeFds'[u])
         /\ NewbornEmpty'
<1>1. fakeFds \in [NetTracees -> Seq(NetFds)]
  BY DEF NetInv, NetTypeOK
<1> QED
  BY <1>1 DEF NetInv, NewbornEmpty, Born

\* socket(2)
LEMMA SocketKeepsInv ==
  ASSUME NetInv, NEW t \in NetTracees, NEW cloexec \in BOOLEAN, SocketEnter(t, cloexec) \/ SocketExit(t)
  PROVE  NetInv'
<1>1. CASE SocketEnter(t, cloexec)
  <2>1. pending' \in [NetTracees -> [on : BOOLEAN, cloexec : BOOLEAN]]
    BY <1>1 DEF SocketEnter, NetInv, NetTypeOK
  <2> QED
    BY <1>1, <2>1 DEF SocketEnter, NetInv, NetTypeOK, NewbornEmpty, Substitutes, Born, TableOf, IsFake
<1>2. CASE SocketExit(t)
  <2> DEFINE fd == Lowest(t)
             file == [kind |-> "unix", cloexec |-> pending[t].cloexec]
  <2>1. /\ Born(t) /\ fakeFds' = [fakeFds EXCEPT ![t] = Noted(t, fd)]
        /\ (fd < 0 /\ table' = table) \/ (~ (fd < 0) /\ SetFile(t, fd, file))
        /\ pending' = [pending EXCEPT ![t] = NoSocket] /\ tableOf' = tableOf /\ unseen' = unseen
    BY <1>2 DEF SocketExit
  <2>2. file \in NetFiles /\ file.kind = "unix"
    BY NewFilesTyped DEF NetInv, NetTypeOK
  <2> HIDE DEF file
  <2>3. fd = -1 \/ (fd \in NetFds /\ fd \in Nat /\ TableOf(t)[fd] = NoFile)
    <3>1. CASE {f \in NetFds : TableOf(t)[f] = NoFile} = {}
      BY <3>1 DEF Lowest
    <3>2. CASE {f \in NetFds : TableOf(t)[f] = NoFile} # {}
      <4> DEFINE free == {f \in NetFds : TableOf(t)[f] = NoFile}
      <4>1. free \in SUBSET Nat
        BY NetAssumption
      <4>2. Min(free) \in free
        BY <3>2, <4>1, MinOfNats
      <4> QED
        BY <3>2, <4>2, NetAssumption DEF Lowest
    <3> QED
      BY <3>1, <3>2
  <2> HIDE DEF fd
  <2>4. /\ Noted(t, fd) \in Seq(NetFds) /\ Once(Noted(t, fd))
        /\ \A i \in DOMAIN Noted(t, fd) : IsFake(t, Noted(t, fd)[i]) \/ (fd >= 0 /\ Noted(t, fd)[i] = fd)
    BY <2>3, NotedFds
  <2>5. /\ fakeFds' \in [NetTracees -> Seq(NetFds)]
        /\ \A u \in NetTracees : Once(fakeFds'[u])
        /\ NewbornEmpty'
    BY <2>1, <2>4, NotesTyped
  <2>6. pending' \in [NetTracees -> [on : BOOLEAN, cloexec : BOOLEAN]]
    BY <2>1 DEF NoSocket, NetInv, NetTypeOK
  <2>7. CASE fd = -1
    <3>1. table' = table
      BY <2>1, <2>7
    <3>2. fakeFds' = fakeFds
      BY <2>1, <2>7 DEF Noted, NetInv, NetTypeOK
    <3> QED
      BY <2>1, <2>5, <2>6, <3>1, <3>2 DEF NetInv, NetTypeOK, Substitutes, TableOf, IsFake
  <2>8. CASE fd \in NetFds /\ fd \in Nat
    <3>1. Born(t) /\ SetFile(t, fd, file) /\ fd \in NetFds
      BY <2>1, <2>8
    <3>2. /\ table' \in [NetTracees -> [NetFds -> NetFiles]]
          /\ \A u \in NetTracees : Born(u) =>
               \A f \in NetFds : table'[tableOf[u]][f] =
                 IF tableOf[u] = tableOf[t] /\ f = fd THEN file ELSE TableOf(u)[f]
      BY <2>2, <3>1, FileSet
    <3>3. \A u \in NetTracees, f \in NetFds : IsFake(u, f)' => IsFake(u, f) \/ (u = t /\ f = fd)
      BY <2>1, <2>4 DEF IsFake, NetInv, NetTypeOK
    <3>4. \A u \in NetTracees, f \in NetFds : IsFake(u, f) => Born(u)
      BY DEF NetInv, NewbornEmpty, IsFake
    <3>5. ~ unseen => Substitutes'
      BY <2>1, <2>2, <3>2, <3>3, <3>4 DEF NetInv, Substitutes, TableOf
    <3> QED
      BY <2>1, <2>5, <2>6, <3>2, <3>5 DEF NetInv, NetTypeOK
  <2> QED
    BY <2>3, <2>7, <2>8
<1> QED
  BY <1>1, <1>2

\* The calls that make another file or close one.
LEMMA FileKeepsInv ==
  ASSUME NetInv, NEW t \in NetTracees, NEW fd \in NetFds, OpenOther(t) \/ NetClose(t, fd)
  PROVE  NetInv'
<1>1. \A u \in NetTracees, f \in NetFds : IsFake(u, f) => Born(u)
  BY DEF NetInv, NewbornEmpty, IsFake
<1>2. CASE OpenOther(t)
  <2>1. Lowest(t) \in NetFds /\ TableOf(t)[Lowest(t)] = NoFile
    BY <1>2, LowestFree DEF OpenOther
  <2>2. /\ Born(t) /\ SetFile(t, Lowest(t), [kind |-> "file", cloexec |-> FALSE])
        /\ UNCHANGED <<tableOf, fakeFds, pending, unseen>>
    BY <1>2 DEF OpenOther, NotInSocket
  <2>3. /\ table' \in [NetTracees -> [NetFds -> NetFiles]]
        /\ \A u \in NetTracees : Born(u) =>
             \A f \in NetFds : table'[tableOf[u]][f] =
               IF tableOf[u] = tableOf[t] /\ f = Lowest(t) THEN [kind |-> "file", cloexec |-> FALSE]
               ELSE TableOf(u)[f]
    BY <2>1, <2>2, FileSet, NewFilesTyped
  <2>4. ~ unseen => \A u \in NetTracees : tableOf[u] = tableOf[t] => ~ IsFake(u, Lowest(t))
    BY <2>1, NewFilesTyped DEF NetInv, Substitutes, TableOf
  <2>5. ~ unseen => Substitutes'
    BY <1>1, <2>2, <2>3, <2>4 DEF NetInv, Substitutes, TableOf, IsFake
  <2> QED
    BY <2>2, <2>3, <2>5 DEF NetInv, NetTypeOK, NewbornEmpty, Born
<1>3. CASE NetClose(t, fd)
  <2>1. /\ Born(t) /\ SetFile(t, fd, NoFile) /\ fakeFds' = [fakeFds EXCEPT ![t] = Unmarked(t, fd)]
        /\ unseen' = (unseen \/ \E u \in NetTracees \ {t} : tableOf[u] = tableOf[t] /\ IsFake(u, fd))
        /\ UNCHANGED <<tableOf, pending>>
    BY <1>3 DEF NetClose, NotInSocket
  <2>2. /\ Unmarked(t, fd) \in Seq(NetFds) /\ Once(Unmarked(t, fd))
        /\ \A i \in DOMAIN Unmarked(t, fd) : IsFake(t, Unmarked(t, fd)[i]) /\ Unmarked(t, fd)[i] # fd
    BY UnmarkedFds
  <2>3. /\ fakeFds' \in [NetTracees -> Seq(NetFds)]
        /\ \A u \in NetTracees : Once(fakeFds'[u])
        /\ NewbornEmpty'
    BY <2>1, <2>2, NotesTyped
  <2>4. /\ table' \in [NetTracees -> [NetFds -> NetFiles]]
        /\ \A u \in NetTracees : Born(u) =>
             \A f \in NetFds : table'[tableOf[u]][f] =
               IF tableOf[u] = tableOf[t] /\ f = fd THEN NoFile ELSE TableOf(u)[f]
    BY <2>1, FileSet, NewFilesTyped
  <2>5. \A u \in NetTracees, f \in NetFds : IsFake(u, f)' => IsFake(u, f) /\ (u = t => f # fd)
    BY <2>1, <2>2 DEF IsFake, NetInv, NetTypeOK
  <2>6. ~ unseen' => Substitutes'
    <3> SUFFICES ASSUME ~ unseen', NEW u \in NetTracees, NEW f \in NetFds, IsFake(u, f)'
                 PROVE  table'[tableOf[u]][f].kind = "unix"
      BY <2>1 DEF Substitutes, TableOf
    <3>1. ~ unseen /\ IsFake(u, f) /\ Born(u) /\ (u = t => f # fd)
      BY <1>1, <2>1, <2>5
    <3>2. TableOf(u)[f].kind = "unix"
      BY <3>1 DEF NetInv, Substitutes
    <3>3. ~ (tableOf[u] = tableOf[t] /\ f = fd)
      BY <2>1, <3>1
    <3> QED
      BY <2>4, <3>1, <3>2, <3>3
  <2>7. unseen' \in BOOLEAN
    BY <2>1
  <2> QED
    BY <2>1, <2>3, <2>4, <2>6, <2>7 DEF NetInv, NetTypeOK
<1> QED
  BY <1>2, <1>3

\* What PRoot does not see.
LEMMA UnseenKeepsInv ==
  ASSUME NetInv, NEW t \in NetTracees,
         \/ \E old, new \in NetFds : Dup2(t, old, new)
         \/ \E fd \in NetFds : CloseRange(t, fd)
         \/ NetExecve(t)
  PROVE  NetInv'
<1>1. Born(t) /\ unseen' = TRUE /\ UNCHANGED <<tableOf, fakeFds, pending>>
  BY DEF Dup2, CloseRange, NetExecve, NotInSocket
<1>2. tableOf[t] \in NetTracees /\ table \in [NetTracees -> [NetFds -> NetFiles]]
  BY <1>1, NetAssumption DEF NetInv, NetTypeOK, Born
<1>3. table' \in [NetTracees -> [NetFds -> NetFiles]]
  <2>1. ASSUME NEW old \in NetFds, NEW new \in NetFds, Dup2(t, old, new)
        PROVE  table' \in [NetTracees -> [NetFds -> NetFiles]]
    <3>1. TableOf(t)[old] \in NetFiles
      BY <1>2 DEF TableOf
    <3>2. [TableOf(t)[old] EXCEPT !.cloexec = FALSE] \in NetFiles
      BY <3>1 DEF NetFiles
    <3> QED
      BY <1>1, <2>1, <3>2, FileSet DEF Dup2
  <2>2. ASSUME NEW fd \in NetFds, CloseRange(t, fd)
        PROVE  table' \in [NetTracees -> [NetFds -> NetFiles]]
    <3>1. [f \in NetFds |-> IF f >= fd THEN NoFile ELSE table[tableOf[t]][f]] \in [NetFds -> NetFiles]
      BY <1>2, NewFilesTyped
    <3> QED
      BY <1>2, <2>2, <3>1 DEF CloseRange
  <2>3. CASE NetExecve(t)
    <3>1. [f \in NetFds |-> IF table[tableOf[t]][f].cloexec THEN NoFile ELSE table[tableOf[t]][f]]
             \in [NetFds -> NetFiles]
      BY <1>2, NewFilesTyped
    <3> QED
      BY <1>2, <2>3, <3>1 DEF NetExecve
  <2> QED
    BY <2>1, <2>2, <2>3
<1> QED
  BY <1>1, <1>3 DEF NetInv, NetTypeOK, NewbornEmpty, Born

\* A thread has the table of its process, and a process a copy.
LEMMA NetCloneKeepsInv ==
  ASSUME NetInv, NEW t \in NetTracees, NEW kid \in NetTracees, NEW thread \in BOOLEAN,
         NetClone(t, kid, thread)
  PROVE  NetInv'
<1>1. PICK id \in {tableOf[t], kid} :
        /\ tableOf' = [tableOf EXCEPT ![kid] = id]
        /\ table' = [table EXCEPT ![id] = TableOf(t)]
  BY DEF NetClone
<1>2. /\ Born(t) /\ ~ Born(kid) /\ tableOf[t] \in NetTracees /\ TableOf(t) \in [NetFds -> NetFiles]
      /\ UNCHANGED <<fakeFds, pending, unseen>>
  BY NetAssumption DEF NetClone, NotInSocket, NetInv, NetTypeOK, Born, TableOf
<1>3. fakeFds[kid] = << >> /\ \A u \in NetTracees : tableOf[u] # kid
  BY <1>2 DEF NetInv, NewbornEmpty
<1>4. NetTypeOK'
  <2>1. tableOf' \in [NetTracees -> NetTracees \cup {NoTable}] /\ table' \in [NetTracees -> [NetFds -> NetFiles]]
    BY <1>1, <1>2 DEF NetInv, NetTypeOK
  <2> QED
    BY <1>2, <2>1 DEF NetInv, NetTypeOK
<1>5. \A u \in NetTracees \ {kid} : tableOf'[u] = tableOf[u] /\ (Born(u) => TableOf(u)' = TableOf(u))
  <2> TAKE u \in NetTracees \ {kid}
  <2>1. tableOf'[u] = tableOf[u] /\ (Born(u) => tableOf[u] \in NetTracees)
    BY <1>1, NetAssumption DEF NetInv, NetTypeOK, Born
  <2>2. CASE id = kid
    BY <1>1, <1>3, <2>1, <2>2 DEF TableOf, NetInv, NetTypeOK
  <2>3. CASE id = tableOf[t]
    BY <1>1, <1>2, <2>1, <2>3 DEF TableOf, NetInv, NetTypeOK
  <2> QED
    BY <2>1, <2>2, <2>3
<1>6. tableOf'[kid] = id /\ id \in NetTracees /\ Born(kid)'
  BY <1>1, <1>2, NetAssumption DEF NetInv, NetTypeOK, Born
<1>7. NewbornEmpty'
  <2> SUFFICES ASSUME NEW u \in NetTracees, ~ Born(u)'
               PROVE  fakeFds[u] = << >> /\ \A v \in NetTracees : tableOf'[v] # u
    BY <1>2 DEF NewbornEmpty
  <2>1. u # kid /\ ~ Born(u)
    BY <1>5, <1>6 DEF Born
  <2>2. fakeFds[u] = << >> /\ \A v \in NetTracees : tableOf[v] # u
    BY <2>1 DEF NetInv, NewbornEmpty
  <2> QED
    BY <1>5, <1>6, <2>1, <2>2
<1>8. ~ unseen => Substitutes'
  <2>1. \A u \in NetTracees, f \in NetFds : IsFake(u, f) => Born(u) /\ u # kid
    BY <1>2, <1>3 DEF NetInv, NewbornEmpty, IsFake
  <2> QED
    BY <1>2, <1>5, <2>1 DEF NetInv, Substitutes, IsFake
<1> QED
  BY <1>2, <1>4, <1>7, <1>8 DEF NetInv

LEMMA NetInitInv == NetInit => NetInv
<1> SUFFICES ASSUME NetInit
             PROVE  NetInv
  OBVIOUS
<1>1. \A u \in NetTracees : fakeFds[u] = << >> /\ Once(fakeFds[u]) /\ \A fd \in NetFds : ~ IsFake(u, fd)
  BY DEF NetInit, Once, IsFake
<1>2. tableOf \in [NetTracees -> NetTracees \cup {NoTable}]
  BY DEF NetInit
<1>3. table \in [NetTracees -> [NetFds -> NetFiles]]
  <2>1. [fd \in NetFds |-> NoFile] \in [NetFds -> NetFiles]
    BY NewFilesTyped
  <2> QED
    BY <2>1 DEF NetInit
<1>4. fakeFds \in [NetTracees -> Seq(NetFds)]
  <2>1. << >> \in Seq(NetFds)
    OBVIOUS
  <2> QED
    BY <2>1 DEF NetInit
<1>5. pending \in [NetTracees -> [on : BOOLEAN, cloexec : BOOLEAN]] /\ unseen \in BOOLEAN
  <2>1. NoSocket \in [on : BOOLEAN, cloexec : BOOLEAN]
    BY DEF NoSocket
  <2> QED
    BY <2>1 DEF NetInit
<1>6. NewbornEmpty
  BY <1>1, NetAssumption DEF NetInit, NewbornEmpty, Born
<1> QED
  BY <1>1, <1>2, <1>3, <1>4, <1>5, <1>6 DEF NetInv, NetTypeOK, Substitutes

LEMMA NetStepInv == NetInv /\ [NetNext]_netVars => NetInv'
<1> SUFFICES ASSUME NetInv, [NetNext]_netVars
             PROVE  NetInv'
  OBVIOUS
<1>1. CASE UNCHANGED <<tableOf, table, fakeFds, pending, unseen>>
  BY <1>1 DEF NetInv, NetTypeOK, NewbornEmpty, Substitutes, Born, TableOf, IsFake
<1>2. ASSUME NEW t \in NetTracees, NetStep(t)
      PROVE  NetInv'
  <2>1. \/ UNCHANGED <<tableOf, table, fakeFds, pending, unseen>>
        \/ \E cloexec \in BOOLEAN : SocketEnter(t, cloexec)
        \/ SocketExit(t)
        \/ OpenOther(t)
        \/ \E fd \in NetFds : NetClose(t, fd) \/ CloseRange(t, fd)
        \/ \E old, new \in NetFds : Dup2(t, old, new)
        \/ NetExecve(t)
        \/ \E kid \in NetTracees, thread \in BOOLEAN : NetClone(t, kid, thread)
    BY <1>2 DEF NetStep, SendRequest, Recv
  <2>2. CASE OpenOther(t) \/ \E fd \in NetFds : NetClose(t, fd)
    <3>1. OpenOther(t) => Lowest(t) \in NetFds
      BY LowestFree DEF OpenOther
    <3> QED
      BY <2>2, <3>1, FileKeepsInv
  <2> QED
    BY <1>1, <2>1, <2>2, SocketKeepsInv, UnseenKeepsInv, NetCloneKeepsInv
<1> QED
  BY <1>1, <1>2 DEF NetNext, netVars

(***************************************************************************)
(* "Drop the fd from the fake-AF_NETLINK tracking set, otherwise its       *)
(* number could be reused for an unrelated file" (syscall/enter.c:2358):   *)
(* for any number of tracees, descriptors and notes, PRoot answers calls   *)
(* on its substitutes only, as long as no descriptor ended unseen.         *)
(***************************************************************************)
THEOREM NetlinkNeverHijacks == NetSpec => []NeverHijacks
<1>1. NetInv => NeverHijacks
  BY DEF NetInv, NetTypeOK, Substitutes, NeverHijacks, OnlySubstitutes, IsFake
<1> QED
  BY <1>1, NetInitInv, NetStepInv, PTL DEF NetSpec

-------------------------------------------------------------------------------
(* The ids of fake_id0 *)

IdRecord == [r : UserIds, e : UserIds, s : UserIds, fs : UserIds]
CredRecord == [u : IdRecord, g : IdRecord, caps : BOOLEAN, keep : BOOLEAN]

\* The ids of one type are changed and the rest is kept.
LEMMA IdsReplaced ==
  ASSUME NEW c \in CredRecord, NEW type \in Types, NEW ids \in IdRecord
  PROVE  LET new == [c EXCEPT ![type] = ids]
         IN  /\ new \in CredRecord /\ new[type] = ids
             /\ new.caps = c.caps /\ new.keep = c.keep
             /\ new.u = IF type = "u" THEN ids ELSE c.u
<1>1. CASE type = "u"
  BY <1>1 DEF CredRecord, Types
<1>2. CASE type = "g"
  BY <1>2 DEF CredRecord, Types
<1> QED
  BY <1>1, <1>2 DEF Types

LEMMA IdsTyped == ASSUME NEW c \in CredRecord, NEW type \in Types PROVE c[type] \in IdRecord
<1>1. CASE type = "u"
  BY <1>1 DEF CredRecord
<1>2. CASE type = "g"
  BY <1>2 DEF CredRecord
<1> QED
  BY <1>1, <1>2 DEF Types

\* Dropping the capabilities leaves the ids alone.
LEMMA DroppedCaps ==
  ASSUME NEW old \in CredRecord, NEW new \in CredRecord
  PROVE  LET c == MaybeDropCaps(old, new)
         IN  /\ c \in CredRecord /\ c.u = new.u /\ c.g = new.g /\ c.keep = new.keep
             /\ c.caps => new.caps
             /\ \A type \in Types : c[type] = new[type]
<1> DEFINE c == MaybeDropCaps(old, new)
<1>1. c \in CredRecord /\ c.u = new.u /\ c.g = new.g /\ c.keep = new.keep /\ (c.caps => new.caps)
  BY DEF MaybeDropCaps, CredRecord
<1>2. c["u"] = new["u"] /\ c["g"] = new["g"]
  BY DEF MaybeDropCaps, CredRecord
<1> QED
  BY <1>1, <1>2 DEF Types

\* One call of setuid(2) and its relatives: its answer, and what it leaves.
Answered(c, call, ids) ==
    LET answer == Answer(c, call)
    IN  /\ ids \in IdRecord /\ answer.result = "OK"
        /\ answer.config \in CredRecord /\ answer.config.keep = c.keep
        /\ answer.config[call.type] = ids
        /\ answer.config.u = IF call.type = "u" THEN ids ELSE c.u
        /\ answer.config.caps => c.caps

LEMMA ChangedIds ==
  ASSUME NEW c \in CredRecord, NEW call \in CredCalls, NEW ids \in IdRecord,
         Answer(c, call) = Changed(c, [c EXCEPT ![call.type] = ids])
  PROVE  Answered(c, call, ids)
<1> DEFINE new == [c EXCEPT ![call.type] = ids]
<1>1. call.type \in Types
  BY DEF CredCalls
<1>2. /\ new \in CredRecord /\ new[call.type] = ids /\ new.caps = c.caps /\ new.keep = c.keep
      /\ new.u = IF call.type = "u" THEN ids ELSE c.u
  BY <1>1, IdsReplaced
<1> HIDE DEF new
<1>3. /\ MaybeDropCaps(c, new) \in CredRecord /\ MaybeDropCaps(c, new).u = new.u
      /\ MaybeDropCaps(c, new).keep = new.keep /\ (MaybeDropCaps(c, new).caps => new.caps)
      /\ MaybeDropCaps(c, new)[call.type] = new[call.type]
  BY <1>1, <1>2, DroppedCaps
<1>4. Answer(c, call).config = MaybeDropCaps(c, new) /\ Answer(c, call).result = "OK"
  BY DEF Changed, new
<1> QED
  BY <1>2, <1>3, <1>4 DEF Answered

\* A call fake_id0 refuses changes nothing.
RefusedIds(c, call) == Answer(c, call) = Eperm(c)

\* Setting the real and the saved id, then the two others, sets all four.
LEMMA AllIdsSet ==
  ASSUME NEW old \in IdRecord, NEW id \in UserIds
  PROVE  [[old EXCEPT !.r = id, !.s = id] EXCEPT !.e = id, !.fs = id] = Same(id)
<1> DEFINE mid == [old EXCEPT !.r = id, !.s = id]
<1>1. mid \in IdRecord /\ mid.r = id /\ mid.s = id
  BY DEF IdRecord
<1> HIDE DEF mid
<1> DEFINE new == [mid EXCEPT !.e = id, !.fs = id]
<1>2. new \in IdRecord /\ new.r = id /\ new.s = id /\ new.e = id /\ new.fs = id
  BY <1>1 DEF IdRecord
<1>3. Same(id) \in IdRecord /\ Same(id).r = id /\ Same(id).s = id /\ Same(id).e = id /\ Same(id).fs = id
  BY DEF IdRecord, Same
<1> HIDE DEF new
<1>4. new = Same(id)
  BY <1>2, <1>3 DEF IdRecord
<1> QED
  BY <1>4 DEF mid, new

LEMMA SetIds ==
  ASSUME NEW c \in CredRecord, NEW call \in CredCalls, call.name = "set"
  PROVE  LET old == c[call.type]
         IN  \/ /\ Privileged(c)
                /\ Answered(c, call, Same(call.e))
             \/ /\ ~ Privileged(c) /\ call.e \in KnownIds(old)
                /\ Answered(c, call, [old EXCEPT !.e = call.e, !.fs = call.e])
             \/ /\ ~ Privileged(c) /\ call.e \notin KnownIds(old)
                /\ RefusedIds(c, call)
<1> DEFINE old == c[call.type]
<1>1. call.type \in Types /\ call.e \in UserIds /\ old \in IdRecord
  BY IdsTyped DEF CredCalls
<1>2. Answer(c, call) = Setxid(c, call.type, call.e)
  BY DEF Answer
<1>3. CASE Privileged(c)
  <2>1. [[old EXCEPT !.r = call.e, !.s = call.e] EXCEPT !.e = call.e, !.fs = call.e] = Same(call.e)
    BY <1>1, AllIdsSet
  <2>2. Answer(c, call) = Changed(c, [c EXCEPT ![call.type] = Same(call.e)])
    BY <1>2, <1>3, <2>1 DEF Setxid
  <2>3. Same(call.e) \in IdRecord
    BY <1>1 DEF Same, IdRecord
  <2> QED
    BY <1>3, <2>2, <2>3, ChangedIds
<1>4. CASE ~ Privileged(c) /\ call.e \in KnownIds(old)
  <2>1. Answer(c, call) = Changed(c, [c EXCEPT ![call.type] = [old EXCEPT !.e = call.e, !.fs = call.e]])
    BY <1>2, <1>4 DEF Setxid
  <2>2. [old EXCEPT !.e = call.e, !.fs = call.e] \in IdRecord
    BY <1>1 DEF IdRecord
  <2> QED
    BY <1>4, <2>1, <2>2, ChangedIds
<1>5. CASE ~ Privileged(c) /\ call.e \notin KnownIds(old)
  BY <1>2, <1>5 DEF Setxid, RefusedIds
<1> QED
  BY <1>3, <1>4, <1>5

LEMMA SetreIds ==
  ASSUME NEW c \in CredRecord, NEW call \in CredCalls, call.name = "setre"
  PROVE  LET old == c[call.type]
         IN  IF AllowedRexid(c, call.type, call.r, call.e)
             THEN Answered(c, call, [r |-> Or(call.r, old.r), e |-> Or(call.e, old.e),
                                     s |-> SavedRexid(old, call.r, call.e), fs |-> Or(call.e, old.fs)])
             ELSE RefusedIds(c, call)
<1> DEFINE old == c[call.type]
           new == [r |-> Or(call.r, old.r), e |-> Or(call.e, old.e),
                   s |-> SavedRexid(old, call.r, call.e), fs |-> Or(call.e, old.fs)]
<1>1. call.type \in Types /\ call.r \in Args /\ call.e \in Args /\ old \in IdRecord
  BY IdsTyped, CredAssumption DEF CredCalls, Args
<1>2. Answer(c, call) = Setrexid(c, call.type, call.r, call.e)
  BY DEF Answer
<1>3. new \in IdRecord
  BY <1>1 DEF IdRecord, Or, SavedRexid, Args
<1>4. CASE AllowedRexid(c, call.type, call.r, call.e)
  <2>1. Answer(c, call) = Changed(c, [c EXCEPT ![call.type] = new])
    BY <1>2, <1>4 DEF Setrexid
  <2> HIDE DEF new
  <2>2. Answered(c, call, new)
    BY <1>3, <2>1, ChangedIds
  <2> QED
    BY <1>4, <2>2 DEF new
<1>5. CASE ~ AllowedRexid(c, call.type, call.r, call.e)
  BY <1>2, <1>5 DEF Setrexid, RefusedIds
<1> QED
  BY <1>4, <1>5

LEMMA SetresIds ==
  ASSUME NEW c \in CredRecord, NEW call \in CredCalls, call.name = "setres"
  PROVE  LET old == c[call.type]
         IN  IF Privileged(c) \/ {call.r, call.e, call.s} \subseteq KnownIds(old) \cup {Unset}
             THEN Answered(c, call, [r |-> Or(call.r, old.r), e |-> Or(call.e, old.e),
                                     s |-> Or(call.s, old.s), fs |-> Or(call.e, old.fs)])
             ELSE RefusedIds(c, call)
<1> DEFINE old == c[call.type]
           new == [r |-> Or(call.r, old.r), e |-> Or(call.e, old.e),
                   s |-> Or(call.s, old.s), fs |-> Or(call.e, old.fs)]
           may == Privileged(c) \/ {call.r, call.e, call.s} \subseteq KnownIds(old) \cup {Unset}
<1>1. call.type \in Types /\ call.r \in Args /\ call.e \in Args /\ call.s \in Args /\ old \in IdRecord
  BY IdsTyped DEF CredCalls, Args
<1>2. Answer(c, call) = Setresxid(c, call.type, call.r, call.e, call.s)
  BY DEF Answer
<1>3. new \in IdRecord
  BY <1>1 DEF IdRecord, Or, Args
<1>4. CASE may
  <2>1. Answer(c, call) = Changed(c, [c EXCEPT ![call.type] = new])
    BY <1>2, <1>4 DEF Setresxid
  <2> HIDE DEF new
  <2>2. Answered(c, call, new)
    BY <1>3, <2>1, ChangedIds
  <2> QED
    BY <1>4, <2>2 DEF new
<1>5. CASE ~ may
  BY <1>2, <1>5 DEF Setresxid, RefusedIds
<1> QED
  BY <1>4, <1>5

LEMMA SetfsIds ==
  ASSUME NEW c \in CredRecord, NEW call \in CredCalls, call.name = "setfs"
  PROVE  LET old == c[call.type]
         IN  \/ /\ Privileged(c) \/ call.e \in KnownIds(old) \cup {old.fs}
                /\ Answered(c, call, [old EXCEPT !.fs = call.e])
             \/ Answered(c, call, old) /\ Answer(c, call).config = c
<1> DEFINE old == c[call.type]
           new == [c EXCEPT ![call.type] = [old EXCEPT !.fs = call.e]]
<1>1. call.type \in Types /\ call.e \in UserIds /\ old \in IdRecord
  BY IdsTyped DEF CredCalls
<1>2. Answer(c, call) = Setfsxid(c, call.type, call.e)
  BY DEF Answer
<1>3. CASE Privileged(c) \/ call.e \in KnownIds(old) \cup {old.fs}
  <2>1. [c EXCEPT ![call.type].fs = call.e] = new
    OBVIOUS
  <2>2. Answer(c, call) = [config |-> new, result |-> "OK"]
    BY <1>2, <1>3, <2>1 DEF Setfsxid
  <2>3. [old EXCEPT !.fs = call.e] \in IdRecord
    BY <1>1 DEF IdRecord
  <2>4. /\ new \in CredRecord /\ new[call.type] = [old EXCEPT !.fs = call.e] /\ new.caps = c.caps
        /\ new.keep = c.keep /\ new.u = IF call.type = "u" THEN [old EXCEPT !.fs = call.e] ELSE c.u
    BY <1>1, <2>3, IdsReplaced
  <2> HIDE DEF new
  <2>5. Answered(c, call, [old EXCEPT !.fs = call.e])
    BY <2>2, <2>3, <2>4 DEF Answered
  <2> QED
    BY <1>3, <2>5
<1>4. CASE ~ (Privileged(c) \/ call.e \in KnownIds(old) \cup {old.fs})
  <2>1. Answer(c, call) = [config |-> c, result |-> "OK"]
    BY <1>2, <1>4 DEF Setfsxid
  <2>2. c.u = IF call.type = "u" THEN old ELSE c.u
    BY DEF CredRecord
  <2> QED
    BY <1>1, <2>1, <2>2 DEF Answered
<1> QED
  BY <1>3, <1>4

\* KernelAgrees of one call.
Agrees(c, call) ==
    LET answer == Answer(c, call)
        old == c[call.type]
        ids == answer.config[call.type]
        k   == KernelIds(c, call)
        ok  == answer.result = "OK"
        own == call.name = "set" /\ call.e = old.e
    IN  /\ ok /\ ids # old =>
             /\ KernelAllows(c, call) \/ own
             /\ ids.r = k.r /\ ids.e = k.e
             /\ ids.s = k.s \/ SetsRealAlone(call)
             /\ ids.fs = k.fs \/ call.e = Unset
        /\ ~ ok => \/ ~ KernelAllows(c, call)
                   \/ call.name = "setre" /\ Unset \notin {call.r, call.e}

\* An id is never the unset one.
LEMMA IdsAreSet == ASSUME NEW id \in UserIds PROVE id # Unset
BY CredAssumption DEF Unset

LEMMA RefusedResult ==
  ASSUME NEW c, NEW call, RefusedIds(c, call)
  PROVE  Answer(c, call).result # "OK" /\ Answer(c, call).config = c
BY DEF RefusedIds, Eperm

LEMMA SetAgrees ==
  ASSUME NEW c \in CredRecord, NEW call \in CredCalls, call.name = "set"
  PROVE  Agrees(c, call)
<1> DEFINE old == c[call.type]
<1>1. call.e \in UserIds /\ call.e # Unset /\ old \in IdRecord
  BY IdsTyped, IdsAreSet DEF CredCalls
<1>2. CASE Privileged(c) /\ Answered(c, call, Same(call.e))
  <2>1. KernelIds(c, call) = Same(call.e)
    BY <1>1, <1>2 DEF KernelIds, Or
  <2>2. KernelAllows(c, call)
    BY <1>2 DEF KernelAllows
  <2> QED
    BY <1>2, <2>1, <2>2 DEF Agrees, Answered
<1>3. CASE /\ ~ Privileged(c) /\ call.e \in KnownIds(old)
           /\ Answered(c, call, [old EXCEPT !.e = call.e, !.fs = call.e])
  <2>1. KernelIds(c, call) = [old EXCEPT !.e = call.e, !.fs = call.e]
    BY <1>1, <1>3 DEF KernelIds, Or
  <2>2. KernelAllows(c, call) \/ call.e = old.e
    BY <1>3 DEF KernelAllows, KnownIds
  <2> QED
    BY <1>3, <2>1, <2>2 DEF Agrees, Answered
<1>4. CASE ~ Privileged(c) /\ call.e \notin KnownIds(old) /\ RefusedIds(c, call)
  <2>1. ~ KernelAllows(c, call)
    BY <1>4 DEF KernelAllows, KnownIds
  <2> QED
    BY <1>4, <2>1, RefusedResult DEF Agrees
<1> QED
  BY <1>2, <1>3, <1>4, SetIds

LEMMA SetreAgrees ==
  ASSUME NEW c \in CredRecord, NEW call \in CredCalls, call.name = "setre"
  PROVE  Agrees(c, call)
<1> DEFINE old == c[call.type]
           new == [r |-> Or(call.r, old.r), e |-> Or(call.e, old.e),
                   s |-> SavedRexid(old, call.r, call.e), fs |-> Or(call.e, old.fs)]
<1>1. old \in IdRecord
  BY IdsTyped DEF CredCalls
<1>2. old.r # Unset /\ old.e # Unset /\ old.s # Unset
  BY <1>1, IdsAreSet DEF IdRecord
<1>3. CASE AllowedRexid(c, call.type, call.r, call.e)
  <2>1. Answered(c, call, new)
    BY <1>3, SetreIds
  <2>2. KernelAllows(c, call)
    BY <1>3 DEF AllowedRexid, KernelAllows, KnownIds
  <2>3. LET k == KernelIds(c, call)
        IN  /\ new.r = k.r /\ new.e = k.e
            /\ new.s = k.s \/ SetsRealAlone(call)
            /\ new.fs = k.fs \/ call.e = Unset
    <3>1. KernelIds(c, call) = [r |-> Or(call.r, old.r), e |-> Or(call.e, old.e), fs |-> Or(call.e, old.e),
                                s |-> IF call.r # Unset \/ (call.e # Unset /\ call.e # old.r)
                                      THEN Or(call.e, old.e) ELSE old.s]
      BY DEF KernelIds
    <3> QED
      BY <3>1 DEF Or, SavedRexid, SetsRealAlone
  <2> HIDE DEF new
  <2> QED
    BY <2>1, <2>2, <2>3 DEF Agrees, Answered
<1>4. CASE ~ AllowedRexid(c, call.type, call.r, call.e)
  <2>1. RefusedIds(c, call)
    BY <1>4, SetreIds
  <2>2. ~ KernelAllows(c, call) \/ Unset \notin {call.r, call.e}
    BY <1>4 DEF AllowedRexid, KernelAllows, KnownIds
  <2> QED
    BY <2>1, <2>2, RefusedResult DEF Agrees
<1> QED
  BY <1>3, <1>4

LEMMA SetresAgrees ==
  ASSUME NEW c \in CredRecord, NEW call \in CredCalls, call.name = "setres"
  PROVE  Agrees(c, call)
<1> DEFINE old == c[call.type]
           new == [r |-> Or(call.r, old.r), e |-> Or(call.e, old.e),
                   s |-> Or(call.s, old.s), fs |-> Or(call.e, old.fs)]
           may == Privileged(c) \/ {call.r, call.e, call.s} \subseteq KnownIds(old) \cup {Unset}
<1>1. KernelAllows(c, call) <=> may
  BY DEF KernelAllows
<1>2. CASE may
  <2>1. Answered(c, call, new)
    BY <1>2, SetresIds
  <2>2. KernelIds(c, call) = [r |-> Or(call.r, old.r), e |-> Or(call.e, old.e), fs |-> Or(call.e, old.e),
                              s |-> Or(call.s, old.s)]
    BY DEF KernelIds
  <2>3. LET k == KernelIds(c, call)
        IN  new.r = k.r /\ new.e = k.e /\ new.s = k.s /\ (new.fs = k.fs \/ call.e = Unset)
    BY <2>2 DEF Or
  <2> HIDE DEF new
  <2> QED
    BY <1>1, <1>2, <2>1, <2>3 DEF Agrees, Answered
<1>3. CASE ~ may
  <2>1. RefusedIds(c, call)
    BY <1>3, SetresIds
  <2> QED
    BY <1>1, <1>3, <2>1, RefusedResult DEF Agrees
<1> QED
  BY <1>2, <1>3

LEMMA SetfsAgrees ==
  ASSUME NEW c \in CredRecord, NEW call \in CredCalls, call.name = "setfs"
  PROVE  Agrees(c, call)
<1> DEFINE old == c[call.type]
<1>1. old \in IdRecord
  BY IdsTyped DEF CredCalls
<1>2. CASE /\ Privileged(c) \/ call.e \in KnownIds(old) \cup {old.fs}
           /\ Answered(c, call, [old EXCEPT !.fs = call.e])
  <2>1. KernelAllows(c, call)
    BY <1>2 DEF KernelAllows
  <2>2. KernelIds(c, call) = [old EXCEPT !.fs = call.e]
    BY DEF KernelIds
  <2> QED
    BY <1>2, <2>1, <2>2 DEF Agrees, Answered
<1>3. CASE Answered(c, call, old)
  BY <1>3 DEF Agrees, Answered
<1> QED
  BY <1>2, <1>3, SetfsIds

LEMMA NamesOfCalls == ASSUME NEW call \in CredCalls PROVE call.name \in {"set", "setre", "setres", "setfs"}
BY DEF CredCalls

LEMMA EveryCallAgrees == ASSUME config \in CredRecord PROVE KernelAgrees
<1>1. \A call \in CredCalls : Agrees(config, call)
  BY SetAgrees, SetreAgrees, SetresAgrees, SetfsAgrees, NamesOfCalls
<1> QED
  BY <1>1 DEF KernelAgrees, Agrees

\* The ids a program has stay ids, whatever it calls.
LEMMA CredStepTyped == config \in CredRecord /\ [CredNext]_credVars => config' \in CredRecord
<1> SUFFICES ASSUME config \in CredRecord, [CredNext]_credVars PROVE config' \in CredRecord
  OBVIOUS
<1>1. ASSUME NEW call \in CredCalls, Set(call) PROVE config' \in CredRecord
  <2>1. config' = Answer(config, call).config
    BY <1>1 DEF Set
  <2>2. (\E ids : Answered(config, call, ids)) \/ RefusedIds(config, call)
    <3>1. CASE call.name = "set"
      BY <3>1, SetIds
    <3>2. CASE call.name = "setre"
      BY <3>2, SetreIds
    <3>3. CASE call.name = "setres"
      BY <3>3, SetresIds
    <3>4. CASE call.name = "setfs"
      BY <3>4, SetfsIds
    <3> QED
      BY <3>1, <3>2, <3>3, <3>4, NamesOfCalls
  <2> QED
    BY <2>1, <2>2, RefusedResult DEF Answered
<1>2. CASE \E on \in BOOLEAN : SetKeepCaps(on)
  BY <1>2 DEF SetKeepCaps, CredRecord
<1>3. ASSUME NEW suid \in BOOLEAN, NEW sgid \in BOOLEAN, CredExec(suid, sgid)
      PROVE  config' \in CredRecord
  <2> DEFINE u == IF suid THEN [config.u EXCEPT !.e = 0, !.s = 0] ELSE config.u
             g == IF sgid THEN [config.g EXCEPT !.e = 0, !.s = 0] ELSE config.g
  <2>1. 0 \in UserIds /\ config.u \in IdRecord /\ config.g \in IdRecord /\ config.caps \in BOOLEAN
    BY CredAssumption DEF CredRecord
  <2>2. u \in IdRecord /\ g \in IdRecord
    BY <2>1 DEF IdRecord
  <2>3. config' = [u |-> u, g |-> g, caps |-> config.caps \/ suid, keep |-> FALSE]
    BY <1>3 DEF CredExec
  <2> HIDE DEF u, g
  <2> QED
    BY <2>1, <2>2, <2>3 DEF CredRecord
<1>4. CASE UNCHANGED credVars
  BY <1>4 DEF credVars
<1> QED
  BY <1>1, <1>2, <1>3, <1>4 DEF CredNext

\* What a call may make of the user ids of a program that has neither a root
\* id nor the capabilities.
LEMMA NoRootByCall ==
  ASSUME NEW c \in CredRecord, NEW call \in CredCalls, ~ OneRoot(c), ~ c.caps
  PROVE  ~ OneRoot(Answer(c, call).config) /\ ~ Answer(c, call).config.caps
<1> DEFINE old == c[call.type]
           d == Answer(c, call).config
<1> SUFFICES ~ OneRoot(d) /\ ~ d.caps
  OBVIOUS
<1>1. ~ Privileged(c)
  BY DEF Privileged, OneRoot
<1>2. c.u.r # 0 /\ c.u.e # 0 /\ c.u.s # 0
  BY DEF OneRoot
<1>3. ASSUME NEW ids, Answered(c, call, ids),
             call.type = "u" => ids.r # 0 /\ ids.e # 0 /\ ids.s # 0
      PROVE  ~ OneRoot(d) /\ ~ d.caps
  BY <1>2, <1>3 DEF Answered, OneRoot
<1>4. ASSUME RefusedIds(c, call) PROVE ~ OneRoot(d) /\ ~ d.caps
  BY <1>4, RefusedResult
<1>5. call.type = "u" => old.r # 0 /\ old.e # 0 /\ old.s # 0
  BY <1>2
<1>6. old \in IdRecord
  BY IdsTyped DEF CredCalls
<1> HIDE DEF d
<1>7. CASE call.name = "set"
  <2> DEFINE new == [old EXCEPT !.e = call.e, !.fs = call.e]
  <2>1. CASE call.e \in KnownIds(old) /\ Answered(c, call, new)
    <3>1. new.r = old.r /\ new.e = call.e /\ new.s = old.s
      BY <1>6 DEF IdRecord
    <3>2. call.type = "u" => new.r # 0 /\ new.e # 0 /\ new.s # 0
      BY <1>5, <2>1, <3>1 DEF KnownIds
    <3> HIDE DEF new
    <3> QED
      BY <1>3, <2>1, <3>2
  <2>2. (call.e \in KnownIds(old) /\ Answered(c, call, new)) \/ RefusedIds(c, call)
    BY <1>1, <1>7, SetIds, ZenonT(30)
  <2> QED
    BY <1>4, <2>1, <2>2
<1>8. CASE call.name = "setre"
  <2> DEFINE new == [r |-> Or(call.r, old.r), e |-> Or(call.e, old.e),
                     s |-> SavedRexid(old, call.r, call.e), fs |-> Or(call.e, old.fs)]
  <2>1. CASE AllowedRexid(c, call.type, call.r, call.e)
    <3>1. call.type = "u" => new.r # 0 /\ new.e # 0 /\ new.s # 0
      BY <1>1, <1>5, <2>1 DEF AllowedRexid, Or, SavedRexid
    <3>2. Answered(c, call, new)
      BY <1>8, <2>1, SetreIds
    <3> HIDE DEF new
    <3> QED
      BY <1>3, <3>1, <3>2
  <2>2. CASE ~ AllowedRexid(c, call.type, call.r, call.e)
    BY <1>4, <1>8, <2>2, SetreIds
  <2> QED
    BY <2>1, <2>2
<1>9. CASE call.name = "setres"
  <2> DEFINE new == [r |-> Or(call.r, old.r), e |-> Or(call.e, old.e),
                     s |-> Or(call.s, old.s), fs |-> Or(call.e, old.fs)]
             may == {call.r, call.e, call.s} \subseteq KnownIds(old) \cup {Unset}
  <2>1. CASE may
    <3>1. call.type = "u" => new.r # 0 /\ new.e # 0 /\ new.s # 0
      BY <1>5, <2>1 DEF KnownIds, Or
    <3>2. Answered(c, call, new)
      BY <1>9, <2>1, SetresIds
    <3> HIDE DEF new
    <3> QED
      BY <1>3, <3>1, <3>2
  <2>2. CASE ~ may
    BY <1>1, <1>4, <1>9, <2>2, SetresIds
  <2> QED
    BY <2>1, <2>2
<1>10. CASE call.name = "setfs"
  <2> DEFINE new == [old EXCEPT !.fs = call.e]
  <2>1. new.r = old.r /\ new.e = old.e /\ new.s = old.s
    BY <1>6 DEF IdRecord
  <2>2. Answered(c, call, new) \/ Answered(c, call, old)
    BY <1>10, SetfsIds
  <2> HIDE DEF new
  <2> QED
    BY <1>3, <1>5, <2>1, <2>2
<1> QED
  BY <1>7, <1>8, <1>9, <1>10, NamesOfCalls

\* Neither do keep_caps and an execve(2) give it one, but a setuid program does.
LEMMA NoRootByStep ==
  ASSUME config \in CredRecord, [CredNext]_credVars,
         ~ OneRoot(config), ~ config.caps, lastCall'.name # "exec_suid"
  PROVE  ~ OneRoot(config') /\ ~ config'.caps
<1>1. CASE \E call \in CredCalls : Set(call)
  BY <1>1, NoRootByCall DEF Set
<1>2. CASE \E on \in BOOLEAN : SetKeepCaps(on)
  BY <1>2 DEF SetKeepCaps, OneRoot, CredRecord
<1>3. CASE \E suid, sgid \in BOOLEAN : CredExec(suid, sgid)
  BY <1>3 DEF CredExec, OneRoot, CredRecord
<1>4. CASE UNCHANGED credVars
  BY <1>4 DEF credVars, OneRoot
<1> QED
  BY <1>1, <1>2, <1>3, <1>4 DEF CredNext

CredTyped == config \in CredRecord

LEMMA CredAlwaysTyped == CredSpec => []CredTyped
<1>1. CredInit => CredTyped
  BY CredAssumption DEF CredInit, CredTyped, CredRecord, IdRecord, Same
<1>2. CredTyped /\ [CredNext]_credVars => CredTyped'
  BY CredStepTyped DEF CredTyped
<1> QED
  BY <1>1, <1>2, PTL DEF CredSpec

\* THEOREM CallsAsKernel.  Whatever the ids a program starts with and the ones it
\* asks for, every call of SETXID() and its relatives does what the kernel
\* would, and a program that gave up root never gets it back by calling them.
THEOREM CallsAsKernel == CredSpec => []KernelAgrees /\ NoRegain
<1>1. CredTyped => KernelAgrees
  BY EveryCallAgrees DEF CredTyped
<1>2. CredTyped /\ [CredNext]_credVars =>
      [~ OneRoot(config) /\ ~ config.caps /\ lastCall'.name # "exec_suid" =>
           ~ OneRoot(config') /\ ~ config'.caps]_credVars
  BY NoRootByStep DEF CredTyped
<1> QED
  BY <1>1, <1>2, CredAlwaysTyped, PTL DEF CredSpec, NoRegain

\* THEOREM IdsAlwaysKept.  Where PRoot runs as a user whose group has the same
\* id, as an Android application does, and ids fit 16 bits, the files a program
\* gives to itself are always shown as its own; and its calls are answered as
\* CallsAsKernel says.
THEOREM IdsAlwaysKept ==
  ASSUME RealUid = RealGid, RealUid \in Nat, \A id \in UserIds \cup {RealUid} : id < 65536
  PROVE  CredSpec => IdsKept
<1>1. CredTyped => OwnersRoundTrip
  <2> SUFFICES ASSUME CredTyped, NEW type \in Types
               PROVE  LET id == config[type].r
                      IN  /\ id = config[type].s => StatShows(config, type, ChownArg(config, type, id)) = id
                          /\ StatxShows(config, type, Real(type)) = StatShows(config, type, Real(type))
                          /\ Getresxid(type, id) = id
    BY DEF OwnersRoundTrip
  <2> DEFINE id == config[type].r
  <2>1. Real(type) = RealUid
    BY DEF Real
  <2>2. id \in UserIds
    <3>1. config[type] \in IdRecord
      BY IdsTyped DEF CredTyped
    <3> QED
      BY <3>1 DEF IdRecord
  <2>3. Getresxid(type, id) = id
    <3> HIDE DEF id
    <3>1. id \in Nat /\ id < 65536 /\ RealUid < 65536
      BY <2>2, CredAssumption
    <3>2. id % 65536 = id /\ RealUid % 65536 = RealUid
      BY <3>1
    <3> QED
      BY <2>1, <3>1, <3>2 DEF Getresxid
  <2>4. StatxShows(config, type, Real(type)) = StatShows(config, type, Real(type))
    BY <2>1 DEF StatxShows, StatShows
  <2>5. id = config[type].s => StatShows(config, type, ChownArg(config, type, id)) = id
    BY DEF StatShows, ChownArg
  <2> QED
    BY <2>3, <2>4, <2>5
<1>2. KernelAgrees => (lastCall # NoCredCall => KernelAgrees)
  OBVIOUS
<1> QED
  BY <1>1, <1>2, CredAlwaysTyped, CallsAsKernel, PTL DEF IdsKept

-------------------------------------------------------------------------------
(* TraceeLifecycle *)

(***************************************************************************)
(* For every set of processes and whoever may be killed: no process runs   *)
(* unconfigured, no parent pointer dangles, and a child is only held or    *)
(* left in the tracees list in the cases the properties name.              *)
(***************************************************************************)

\* A pending event is about one new child, which has no configuration yet; that
\* is what makes the sanity checks of new_child hold.
AnnouncesOK ==
  \A p, c \in Pids : Announces(p, c) =>
    /\ entry[p] = "configured" /\ entry[c] # "configured"
    /\ proc[c] # "free"
    /\ proc[c] = "gone" => c \in early
    /\ \A q \in Pids : Announces(q, c) => q = p

\* What the states of a process and of its entry say of each other.
StopsOK ==
  \A p \in Pids :
    /\ proc[p] = "run" => entry[p] = "configured"
    /\ proc[p] = "stop" /\ why[p] = "signal" => entry[p] = "configured"
    /\ proc[p] = "stop" /\ why[p] = "clone" => child[p] \in Pids
    /\ proc[p] = "stop" => why[p] # "none"
    /\ proc[p] = "held" => entry[p] = "anonymous" /\ sigstop[p] = "PENDING"
    /\ proc[p] \in {"stop", "held"} /\ entry[p] # "configured" =>
         p \in lost \/ \E q \in Pids : Announces(q, p)

\* The inductive invariant.
LifecycleInv ==
  LifecycleTypeOK /\ AnnouncesOK /\ StopsOK /\ ParentsInList /\ EntriesLive

LEMMA LifecycleInitInv == LifecycleInit => LifecycleInv
BY LifecycleAssumption
DEF LifecycleInit, LifecycleInv, LifecycleTypeOK, AnnouncesOK, StopsOK, ParentsInList,
    EntriesLive, Announces, InList, ProcStates

\* clone(2): the stop of the parent announces a process that nobody knows.
LEMMA CloneKeepsInv ==
  ASSUME LifecycleInv, NEW p \in Pids, NEW c \in Pids, Clone(p, c)
  PROVE  LifecycleInv'
<1> USE DEF LifecycleInv, Clone, Announces, prootVars
<1>1. p # c /\ entry[p] = "configured" /\ entry[c] = "absent"
  BY DEF StopsOK, EntriesLive, InList, LifecycleTypeOK
<1>2. LifecycleTypeOK'
  BY DEF LifecycleTypeOK, ProcStates
<1>3. AnnouncesOK'
  BY <1>1 DEF AnnouncesOK, LifecycleTypeOK
<1>4. StopsOK'
  BY <1>1 DEF StopsOK, LifecycleTypeOK
<1>5. ParentsInList' /\ EntriesLive'
  BY <1>1 DEF ParentsInList, EntriesLive, InList, LifecycleTypeOK
<1> QED
  BY <1>2, <1>3, <1>4, <1>5

\* A stop or the end of a process, which PRoot has not seen.
LEMMA ProcessKeepsInv ==
  ASSUME LifecycleInv, NEW p \in Pids, Stops(p) \/ Exits(p) \/ Killed(p)
  PROVE  LifecycleInv'
<1> USE DEF LifecycleInv, Announces, Lives, Unannounced, prootVars
<1>1. CASE Stops(p)
  <2>1. \E w \in {"sigstop", "signal"} : why' = [why EXCEPT ![p] = w]
    BY <1>1 DEF Stops
  <2> QED
    BY <1>1, <2>1 DEF Stops, LifecycleTypeOK, ProcStates, AnnouncesOK, StopsOK, ParentsInList,
                      EntriesLive, InList
<1>2. CASE Exits(p) \/ Killed(p)
  <2>1. LifecycleTypeOK'
    BY <1>2 DEF Exits, Killed, LifecycleTypeOK, ProcStates
  <2>2. AnnouncesOK'
    BY <1>2 DEF Exits, Killed, LifecycleTypeOK, AnnouncesOK
  <2>3. StopsOK'
    BY <1>2 DEF Exits, Killed, LifecycleTypeOK, StopsOK
  <2>4. ParentsInList' /\ EntriesLive'
    BY <1>2 DEF Exits, Killed, LifecycleTypeOK, ParentsInList, EntriesLive, InList
  <2> QED
    BY <2>1, <2>2, <2>3, <2>4
<1> QED
  BY <1>1, <1>2

(***************************************************************************)
(* terminate_tracee, kill_all_tracees and remove_tracee: the children of a *)
(* freed tracee become orphans, those of a victim are remembered as lost.  *)
(***************************************************************************)
LEMMA HandleExitKeepsInv ==
  ASSUME LifecycleInv, NEW p \in Pids, HandleExit(p)
  PROVE  LifecycleInv'
<1> USE DEF LifecycleInv, HandleExit, Freed, WithoutEntry
<1> DEFINE V == Victims(p)
<1>1. V \subseteq Pids /\ p \notin V /\ \A q \in V : Lives(q)
  BY DEF Victims, Lives
<1>2. LifecycleTypeOK'
  BY DEF LifecycleTypeOK, ProcStates, Unannounced
<1>3. \A q, c \in Pids : Announces(q, c)' => Announces(q, c) /\ q # p /\ q \notin V
  BY <1>1 DEF Announces, LifecycleTypeOK
<1>4. \A q, c \in Pids : Announces(q, c) => Announces(q, c)' \/ c \in lost'
  BY <1>1 DEF Announces, Unannounced, LifecycleTypeOK
<1> HIDE DEF V
<1>5. AnnouncesOK'
  BY <1>1, <1>3 DEF AnnouncesOK, LifecycleTypeOK, Lives
<1>6. StopsOK'
  BY <1>1, <1>4 DEF StopsOK, LifecycleTypeOK, V
<1>7. ParentsInList'
  BY DEF ParentsInList, InList, LifecycleTypeOK
<1>8. EntriesLive'
  BY <1>1 DEF EntriesLive, InList, LifecycleTypeOK, V
<1> QED
  BY <1>2, <1>5, <1>6, <1>7, <1>8

\* The SIGSTOP of a process whose parent is known, or not yet.
LEMMA HandleSigstopKeepsInv ==
  ASSUME LifecycleInv, NEW p \in Pids, HandleSigstop(p)
  PROVE  LifecycleInv'
<1> USE DEF LifecycleInv, HandleSigstop, Knows
<1>1. LifecycleTypeOK'
  BY DEF LifecycleTypeOK, ProcStates
<1>2. \A q, c \in Pids : Announces(q, c)' <=> Announces(q, c)
  BY DEF Announces, LifecycleTypeOK
<1>3. AnnouncesOK'
  BY <1>2 DEF AnnouncesOK, LifecycleTypeOK, Announces
<1>4. StopsOK'
  BY <1>2 DEF StopsOK, LifecycleTypeOK
<1>5. ParentsInList' /\ EntriesLive'
  BY DEF ParentsInList, EntriesLive, InList, LifecycleTypeOK
<1> QED
  BY <1>1, <1>3, <1>4, <1>5

(***************************************************************************)
(* new_child: the child gets its configuration and its parent, or its      *)
(* parent's parent, which both are in the list.                            *)
(***************************************************************************)
LEMMA HandleCloneKeepsInv ==
  ASSUME LifecycleInv, NEW p \in Pids, HandleClone(p)
  PROVE  LifecycleInv'
<1> USE DEF LifecycleInv, HandleClone, Released
<1> DEFINE c == child[p]
<1>1. c \in Pids /\ Announces(p, c) /\ p # c /\ entry[p] = "configured"
  BY DEF Announces, AnnouncesOK, StopsOK
<1>2. PICK q \in {p, parent[p]} : parent' = [parent EXCEPT ![c] = q]
  OBVIOUS
<1>3. LifecycleTypeOK'
  BY <1>1, <1>2 DEF LifecycleTypeOK, ProcStates
<1>4. \A r, d \in Pids : Announces(r, d)' <=> Announces(r, d) /\ r # p
  BY <1>1 DEF Announces, LifecycleTypeOK, AnnouncesOK
<1>5. AnnouncesOK'
  BY <1>1, <1>4 DEF AnnouncesOK, LifecycleTypeOK
<1>6. StopsOK'
  <2>1. \A r, d \in Pids : Announces(r, d) /\ d # c => Announces(r, d)'
    BY <1>4 DEF Announces
  <2> QED
    BY <1>1, <2>1 DEF StopsOK, LifecycleTypeOK
<1>7. ParentsInList'
  BY <1>1, <1>2 DEF ParentsInList, InList, LifecycleTypeOK
<1>8. EntriesLive'
  BY <1>1 DEF EntriesLive, InList, LifecycleTypeOK, AnnouncesOK
<1> QED
  BY <1>3, <1>5, <1>6, <1>7, <1>8

LEMMA HandleOtherKeepsInv ==
  ASSUME LifecycleInv, NEW p \in Pids, HandleOther(p)
  PROVE  LifecycleInv'
BY DEF LifecycleInv, HandleOther, prootVars, Announces, LifecycleTypeOK, ProcStates,
       AnnouncesOK, StopsOK, ParentsInList, EntriesLive, InList

\* Every step keeps it.
LEMMA LifecycleStepInv == LifecycleInv /\ [LifecycleNext]_vars => LifecycleInv'
<1>1. LifecycleInv /\ UNCHANGED vars => LifecycleInv'
  BY DEF vars, kernelVars, prootVars, LifecycleInv, LifecycleTypeOK, AnnouncesOK, StopsOK,
         ParentsInList, EntriesLive, InList, Announces
<1> QED
  BY <1>1, CloneKeepsInv, ProcessKeepsInv, HandleExitKeepsInv, HandleSigstopKeepsInv,
     HandleCloneKeepsInv, HandleOtherKeepsInv DEF LifecycleNext, Handle

(***************************************************************************)
(* Guest code never runs untranslated, whatever clone(2), exits, SIGKILL   *)
(* and --kill-on-exit do.                                                  *)
(***************************************************************************)
THEOREM GuestCodeConfigured == LifecycleSpec => []RunsConfigured
<1>1. LifecycleInv => RunsConfigured
  BY DEF LifecycleInv, StopsOK, RunsConfigured
<1> QED
  BY <1>1, LifecycleInitInv, LifecycleStepInv, PTL DEF LifecycleSpec

\* No tracee->parent is ever dangling.
THEOREM NoDanglingParent == LifecycleSpec => []ParentsInList
<1>1. LifecycleInv => ParentsInList
  BY DEF LifecycleInv
<1> QED
  BY <1>1, LifecycleInitInv, LifecycleStepInv, PTL DEF LifecycleSpec

(***************************************************************************)
(* The only held children that nothing will restart are those whose parent *)
(* was killed before its event was received, and the only entries that     *)
(* outlive their process are those of children that died before it.        *)
(***************************************************************************)
THEOREM HeldAndKept == LifecycleSpec => [](HeldExpected /\ EntriesLive)
<1>1. LifecycleInv => HeldExpected /\ EntriesLive
  BY DEF LifecycleInv, StopsOK, HeldExpected
<1> QED
  BY <1>1, LifecycleInitInv, LifecycleStepInv, PTL DEF LifecycleSpec
==============================================================================

--------------------------------- MODULE Heap ---------------------------------
(***************************************************************************)
(* The heap of a tracee (syscall/heap.c): brk(2) is turned into the mmap   *)
(* of a page just after the BSS, then into mremap of the mapping that      *)
(* starts with that page.  Tracees that share their memory share the heap  *)
(* record; execve leaves it to the others (execve/exit.c:496-503).         *)
(*                                                                         *)
(* clone(2) with CLONE_VM shares the memory and the record, fork copies    *)
(* both; execve gives a new memory, and PRoot a record for it.             *)
(***************************************************************************)
EXTENDS Integers, FiniteSets

CONSTANTS
    HeapTracees,   \* the tracees
    FirstTracee,   \* the one that is there first
    PAGE,          \* the page size, heap_offset too
    BssEnd,        \* the end of the BSS, page aligned
    TopAddress     \* bound of the model: addresses end here

ASSUME HeapAssumption ==
    /\ FirstTracee \in HeapTracees /\ IsFiniteSet(HeapTracees)
    /\ PAGE \in Nat \ {0} /\ TopAddress \in Nat
    /\ BssEnd \in Nat /\ BssEnd % PAGE = 0

VARIABLES
    mm,            \* HeapTracees -> number of its memory, 0: no tracee
    hp,            \* HeapTracees -> number of its heap record, tracee->heap
    heap,          \* number -> [base, size, disabled]
    memory,        \* number -> [lo, hi, wall]: the heap's mapping, what is next
    suspended      \* the tracees that wait for their vfork child

heapVars == <<mm, hp, heap, memory, suspended>>

Numbers == 1 .. Cardinality(HeapTracees)
Addresses == 0 .. TopAddress
NoHeap == [base |-> 0, size |-> 0, disabled |-> FALSE]
NewMemory == [lo |-> 0, hi |-> 0, wall |-> TopAddress]

Live == {t \in HeapTracees : mm[t] # 0}
RunningTracees == Live \ suspended
Break(h) == h.base + h.size
PageUp(n) == ((n + PAGE - 1) \div PAGE) * PAGE

(***************************************************************************)
(* The kernel's calls.                                                     *)
(***************************************************************************)
\* What mmap of one page at an address it prefers leaves: the page is there or, if that is
\* not free, anywhere above what is in the way, or nowhere.
Mmap(m, at) ==
    IF at + PAGE <= m.wall THEN {[m EXCEPT !.lo = at, !.hi = at + PAGE]}
    ELSE {m} \cup {e \in [lo : Addresses, hi : Addresses, wall : Addresses] :
                     /\ m.wall + PAGE <= e.lo /\ e.lo % PAGE = 0
                     /\ e.hi = e.lo + PAGE /\ e.hi <= e.wall}

\* mremap in place: the old extent has to be the mapping's, or inside it.
Resizable(m, at, old, new) ==
    /\ at = m.lo /\ at + PageUp(old) <= m.hi
    /\ \/ PageUp(new) <= PageUp(old)
       \/ at + PageUp(old) = m.hi /\ at + PageUp(new) <= m.wall
Mremap(m, at, old, new) ==
    IF Resizable(m, at, old, new) THEN [m EXCEPT !.hi = at + PageUp(new)] ELSE m

(***************************************************************************)
(* brk: translate_brk_enter, the call put instead, translate_brk_exit.     *)
(***************************************************************************)
HeapDone(t, h, m) ==
    /\ heap' = [heap EXCEPT ![hp[t]] = h]
    /\ memory' = [memory EXCEPT ![mm[t]] = m]
    /\ UNCHANGED <<mm, hp, suspended>>

\* The first call asks where the heap is: it is put after the BSS.
Placed(h, m, mapped) ==
    IF mapped = m THEN h ELSE [h EXCEPT !.base = mapped.lo + PAGE, !.size = 0]

FirstBrk(t) ==
    LET h == heap[hp[t]]
        m == memory[mm[t]]
    IN /\ h.base = 0 /\ ~h.disabled
       /\ \E mapped \in Mmap(m, BssEnd) : HeapDone(t, Placed(h, m, mapped), mapped)

\* A first call with an address goes to the kernel; if that is what it
\* grants, the tracee has a heap of its own and PRoot leaves it alone.
SuspiciousBrk(t, granted) ==
    /\ heap[hp[t]].base = 0 /\ ~heap[hp[t]].disabled
    /\ heap' = [heap EXCEPT ![hp[t]].disabled = granted]
    /\ UNCHANGED <<mm, hp, memory, suspended>>

\* A heap does not become negative: the break is told.
LowBrk(t, address) ==
    LET h == heap[hp[t]]
    IN /\ h.base # 0 /\ ~h.disabled /\ address < h.base
       /\ HeapDone(t, h, memory[mm[t]])

\* Mutant of Resized: the size is what was asked, granted or not.
MutResized(h, new, granted) == [h EXCEPT !.size = new]

Resized(h, new, granted) == IF granted THEN [h EXCEPT !.size = new] ELSE h

ResizeBrk(t, address) ==
    LET h == heap[hp[t]]
        m == memory[mm[t]]
        at == h.base - PAGE
        old == h.size + PAGE
        new == address - h.base + PAGE
    IN /\ h.base # 0 /\ ~h.disabled /\ address >= h.base
       /\ HeapDone(t, Resized(h, new - PAGE, Resizable(m, at, old, new)), Mremap(m, at, old, new))

(***************************************************************************)
(* Other mappings, new tracees, execve and the end of a tracee.            *)
(***************************************************************************)
OtherMapping(t, address) ==
    /\ address % PAGE = 0 /\ memory[mm[t]].hi <= address /\ address < memory[mm[t]].wall
    /\ BssEnd <= address
    /\ memory' = [memory EXCEPT ![mm[t]].wall = address]
    /\ UNCHANGED <<mm, hp, heap, suspended>>

UnusedIn(number) == {n \in Numbers : \A t \in HeapTracees : number[t] # n}

\* new_child: talloc_reference with CLONE_VM, talloc_memdup without it; the
\* parent of a vfork waits.
HeapClone(t, child, shared) ==
    /\ mm[child] = 0
    /\ IF shared
       THEN /\ mm' = [mm EXCEPT ![child] = mm[t]]
            /\ hp' = [hp EXCEPT ![child] = hp[t]]
            /\ suspended' = suspended \cup {t}
            /\ UNCHANGED <<heap, memory>>
       ELSE \E n \in UnusedIn(mm), k \in UnusedIn(hp) :
            /\ mm' = [mm EXCEPT ![child] = n]
            /\ hp' = [hp EXCEPT ![child] = k]
            /\ heap' = [heap EXCEPT ![k] = heap[hp[t]]]
            /\ memory' = [memory EXCEPT ![n] = memory[mm[t]]]
            /\ UNCHANGED suspended

Others(t) == HeapTracees \ {t}

\* Mutant of HeapIsShared: a record another tracee has is cleared.
MutHeapIsShared(t) == FALSE

HeapIsShared(t) == \E u \in Others(t) : hp[u] = hp[t]

\* The kernel's new memory, and the record PRoot makes or clears for it.
HeapExecve(t) ==
    /\ \E n \in IF \E u \in Others(t) : mm[u] = mm[t] THEN UnusedIn(mm) ELSE {mm[t]} :
          /\ mm' = [mm EXCEPT ![t] = n]
          /\ memory' = [memory EXCEPT ![n] = NewMemory]
    /\ \E k \in IF HeapIsShared(t) THEN UnusedIn(hp) ELSE {hp[t]} :
          /\ hp' = [hp EXCEPT ![t] = k]
          /\ heap' = [heap EXCEPT ![k] = NoHeap]
    /\ suspended' = {}

HeapExit(t) ==
    /\ Live # {t}
    /\ mm' = [mm EXCEPT ![t] = 0]
    /\ hp' = [hp EXCEPT ![t] = 0]
    /\ suspended' = {}
    /\ UNCHANGED <<heap, memory>>

HeapInit ==
    /\ mm = [t \in HeapTracees |-> IF t = FirstTracee THEN 1 ELSE 0]
    /\ hp = mm
    /\ heap = [n \in Numbers |-> NoHeap]
    /\ memory = [n \in Numbers |-> NewMemory]
    /\ suspended = {}

HeapNext ==
    \E t \in RunningTracees :
        \/ FirstBrk(t)
        \/ \E address \in Addresses :
              \/ LowBrk(t, address)
              \/ ResizeBrk(t, address)
              \/ OtherMapping(t, address)
        \/ \E granted \in BOOLEAN : SuspiciousBrk(t, granted)
        \/ \E child \in HeapTracees, shared \in BOOLEAN : HeapClone(t, child, shared)
        \/ HeapExecve(t)
        \/ HeapExit(t)

HeapSpec == HeapInit /\ [][HeapNext]_heapVars

(***************************************************************************)
(* The heap a tracee was told it has is mapped, to the page and no further *)
(* than a page boundary, whoever forked, shared it or left it by execve.   *)
(***************************************************************************)
HeapMapped ==
    \A t \in Live :
        LET h == heap[hp[t]]
            m == memory[mm[t]]
        IN \/ h.base = 0 /\ m.hi = 0
           \/ h.base # 0 /\ m.lo = h.base - PAGE /\ m.hi = PageUp(Break(h))
==============================================================================

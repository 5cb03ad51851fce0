----------------------------- MODULE TraceeMemory -----------------------------
(***************************************************************************)
(* Reading and writing the memory of a tracee (tracee/mem.c): at once with *)
(* process_vm_readv() and process_vm_writev(), word by word with ptrace()  *)
(* when that is refused or incomplete.                                     *)
(*                                                                         *)
(* A memory is [byte, readOnly]: byte is a function from the addresses that*)
(* are mapped to bytes.  ptrace() also writes to a read only page.  vm     *)
(* says whether process_vm_*() may be used.                                *)
(***************************************************************************)
EXTENDS Integers, Sequences, SequencesExt

CONSTANTS WordSize, ChunkSize, RedZone

LOCAL EFAULT == 14
LOCAL ENAMETOOLONG == 36

Span(a, n) == a .. a + n - 1
IsMapped(m, a, n) == Span(a, n) \subseteq DOMAIN m.byte
IsWritable(m, a, n) == IsMapped(m, a, n) /\ Span(a, n) \cap m.readOnly = {}
BytesAt(m, a, n) == [i \in 1 .. n |-> m.byte[a + i - 1]]

Stored(m, a, bytes) ==
    [m EXCEPT !.byte = [x \in DOMAIN @ |-> IF x \in Span(a, Len(bytes)) THEN bytes[x - a + 1] ELSE @[x]]]

\* What process_vm_*() transfers of n bytes at a: those before the first one it may not.
Transferred(n, Allowed(_)) ==
    IF \A k \in 1 .. n : Allowed(k) THEN n
    ELSE (CHOOSE k \in 1 .. n : ~Allowed(k) /\ \A j \in 1 .. k - 1 : Allowed(j)) - 1

\* process_vm_writev().
VmWrite(m, a, bytes) ==
    Stored(m, a, SubSeq(bytes, 1, Transferred(Len(bytes), LAMBDA k : IsWritable(m, a + k - 1, 1))))

\* ptrace_pokedata_or_via_stub(), where POKEDATA works.
PokeData(state, a, word) ==
    IF state.status < 0 THEN state
    ELSE IF IsMapped(state.mem, a, WordSize) THEN [state EXCEPT !.mem = Stored(@, a, word)]
    ELSE [state EXCEPT !.status = -EFAULT]

FullWords(size) == size \div WordSize
WordOf(bytes, i) == SubSeq(bytes, (i - 1) * WordSize + 1, i * WordSize)

\* Mutant of Merged: the rest of the word is not kept.
MutMerged(word, bytes) == bytes \o [k \in 1 .. WordSize - Len(bytes) |-> 0]

\* "overwrite only the relevant ones".
Merged(word, bytes) == bytes \o SubSeq(word, Len(bytes) + 1, WordSize)

WriteTrailing(state, a, bytes) ==
    IF bytes = << >> \/ state.status < 0 THEN state
    ELSE IF ~IsMapped(state.mem, a, WordSize) THEN [state EXCEPT !.status = -EFAULT]
    ELSE PokeData(state, a, Merged(BytesAt(state.mem, a, WordSize), bytes))

\* write_data; clear_mem writes zeros this way.
write_data(m, vm, a, bytes) ==
    LET n == FullWords(Len(bytes))
        first == [status |-> 0, mem |-> IF vm THEN VmWrite(m, a, bytes) ELSE m]
        words == FoldLeft(LAMBDA s, i : PokeData(s, a + (i - 1) * WordSize, WordOf(bytes, i)),
                          first, [i \in 1 .. n |-> i])
    IN  IF vm /\ IsWritable(m, a, Len(bytes)) THEN first
        ELSE WriteTrailing(words, a + n * WordSize, SubSeq(bytes, n * WordSize + 1, Len(bytes)))

\* writev_data: one buffer after the other when they cannot be written together.
writev_data(m, vm, a, buffers) ==
    LET all == FlattenSeq(buffers)
        one(s, i) == LET d == write_data(s.mem, vm, s.at, buffers[i])
                     IN  IF s.status < 0 THEN s
                         ELSE [status |-> d.status, mem |-> d.mem, at |-> s.at + Len(buffers[i])]
        end == FoldLeft(one, [status |-> 0, mem |-> IF vm THEN VmWrite(m, a, all) ELSE m, at |-> a],
                        [i \in DOMAIN buffers |-> i])
    IN  IF vm /\ IsWritable(m, a, Len(all)) THEN write_data(m, vm, a, all)
        ELSE [status |-> end.status, mem |-> end.mem]

Fault == [status |-> -EFAULT, data |-> << >>]

\* The words PEEKDATA reads for n bytes, the last one whole.
Peeked(n) == ((n + WordSize - 1) \div WordSize) * WordSize

read_data(m, vm, a, n) ==
    IF (vm /\ IsMapped(m, a, n)) \/ IsMapped(m, a, Peeked(n))
    THEN [status |-> 0, data |-> BytesAt(m, a, n)] ELSE Fault

-----------------------------------------------------------------------------
(* Strings. *)

\* The bytes up to the first 0 among the n at a; all of them if there is none.
String(m, a, n) ==
    LET bytes == BytesAt(m, a, n)
        nul == SelectInSeq(bytes, LAMBDA b : b = 0)
    IN  IF nul = 0 THEN bytes ELSE SubSeq(bytes, 1, nul)
Ends(bytes) == bytes # << >> /\ bytes[Len(bytes)] = 0

\* Mutant of NextChunk: chunks that are not aligned.
MutNextChunk(at) == at + ChunkSize

NextChunk(at) == (at - (at % ChunkSize)) + ChunkSize

\* One turn of the loop on chunks: 1 means go on, a fault that ptrace() is to be used.
ReadChunk(m, s, a, max) ==
    LET at == a + s.offset
        size == IF NextChunk(at) - at < max - s.offset THEN NextChunk(at) - at ELSE max - s.offset
        got == String(m, at, size)
    IN  IF s.end # "more" \/ s.offset = max THEN s
        ELSE IF ~IsMapped(m, at, size) THEN [s EXCEPT !.end = "fallback"]
        ELSE [offset |-> s.offset + Len(got), end |-> IF Ends(got) THEN "found" ELSE "more"]

\* Word by word: a word that cannot be read before the end of the string is a fault, and so
\* is the one after max bytes; a string without an end there is one byte too long.
read_words(m, a, max) ==
    LET fault == {i \in 0 .. FullWords(max) : ~IsMapped(m, a + i * WordSize, WordSize)}
        words == IF fault = {} THEN FullWords(max) + 1
                 ELSE CHOOSE i \in fault : \A j \in fault : i <= j
        seen == String(m, a, IF words * WordSize < max THEN words * WordSize ELSE max)
    IN  IF Ends(seen) THEN Len(seen)
        ELSE IF fault # {} THEN -EFAULT ELSE max + 1

read_string(m, vm, a, max) ==
    LET s == FoldLeft(LAMBDA s, i : ReadChunk(m, s, a, max), [offset |-> 0, end |-> "more"],
                      [i \in 1 .. max |-> i])
    IN  IF vm /\ s.end = "found" THEN s.offset ELSE read_words(m, a, max)

\* read_path, where PathMax is the size of the buffer.
read_path(m, vm, a, pathMax) ==
    LET status == read_string(m, vm, a, pathMax)
    IN  IF status >= pathMax THEN -ENAMETOOLONG ELSE status

-----------------------------------------------------------------------------
(* alloc_mem: the new stack pointer, 0 for none. *)
alloc_mem(sp, original, size) ==
    LET whole == IF sp = original THEN size + RedZone ELSE size
    IN  IF whole > 0 /\ sp <= whole THEN 0 ELSE sp - whole

-----------------------------------------------------------------------------
(***************************************************************************)
(* A write that succeeds stores its bytes, no write touches a byte beside  *)
(* them, and one the tracee may do itself succeeds.                        *)
(***************************************************************************)
WriteExact(m, vm, a, buffers) ==
    LET bytes == FlattenSeq(buffers)
        done == writev_data(m, vm, a, buffers)
    IN  /\ done.status = 0 => IsMapped(m, a, Len(bytes)) /\ done.mem = Stored(m, a, bytes)
        /\ \A x \in DOMAIN m.byte \ Span(a, Len(bytes)) : done.mem.byte[x] = m.byte[x]
        /\ vm /\ IsWritable(m, a, Len(bytes)) => done.status = 0

ReadExact(m, vm, a, n) ==
    LET got == read_data(m, vm, a, n)
    IN  /\ got.status = 0 => IsMapped(m, a, n) /\ got.data = BytesAt(m, a, n)
        /\ vm /\ IsMapped(m, a, n) => got.status = 0

\* The length of the string at a, with its end; 0 if it has none that can be read.
Strlen(m, a, max) ==
    LET ends == {n \in 1 .. max : IsMapped(m, a, n) /\ Ends(String(m, a, n)) /\ Len(String(m, a, n)) = n}
    IN  IF ends = {} THEN 0 ELSE CHOOSE n \in ends : TRUE

(***************************************************************************)
(* The length of a string is found, even when it ends with its page; one   *)
(* that has none is never given one.                                       *)
(***************************************************************************)
StringExact(m, vm, a, max) ==
    LET status == read_string(m, vm, a, max)
        n == Strlen(m, a, max)
    IN  /\ status \in 1 .. max => status = n
        /\ status > max => n = 0 /\ IsMapped(m, a, max)
        /\ vm /\ n > 0 => status = n

(***************************************************************************)
(* What is allocated twice lies below the stack and its red zone, apart.   *)
(***************************************************************************)
AllocationsApart(sp, one, other) ==
    LET first == alloc_mem(sp, sp, one)
        second == alloc_mem(first, sp, other)
    IN  /\ first # 0 => 0 < first /\ first + one <= sp - RedZone
        /\ first # 0 /\ second # 0 => 0 < second /\ second + other <= first

(***************************************************************************)
(* "At most PATH_MAX bytes -- including the end-of-string terminator"      *)
(* (tracee/mem.h:46).                                                      *)
(***************************************************************************)
PathsOfPathMax(m, vm, a, pathMax) ==
    LET n == Strlen(m, a, pathMax) IN vm /\ n > 0 => read_path(m, vm, a, pathMax) = n
==============================================================================

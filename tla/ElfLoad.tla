------------------------------- MODULE ElfLoad -------------------------------
(***************************************************************************)
(* How PRoot loads a program: it reads the program headers of an ELF file  *)
(* and of its interpreter, turns them into a script of mmap()s, puts the   *)
(* script and its strings below the stack of the process that has just     *)
(* executed the loader, and the loader interprets it and starts the        *)
(* program.  The kernel's own loading of the same file is the reference.   *)
(*                                                                         *)
(* A program is a record: its segments (vaddr, offset, filesz, memsz), the *)
(* size of its file, the place of its program headers in the file, its     *)
(* entry point, whether it is position independent, its interpreter or     *)
(* NoProgram, and whether it wants an executable stack.  A byte of memory  *)
(* is a byte of a file <<id, offset>>, Zero, NoMemory, or PastFile: a page *)
(* mapped entirely beyond the end of its file, which cannot be touched.    *)
(***************************************************************************)
EXTENDS Integers, Sequences, SequencesExt, FiniteSets

CONSTANTS
    Page,           \* the size of a page
    ExecPicAddress, InterpPicAddress,
    NoProgram

ASSUME PageIsPositive == Page \in Nat \ {0}

Zero == <<"zero">>
NoMemory == <<"none">>
PastFile == <<"past">>

Masked(a) == a - (a % Page)       \* a & page_mask

-----------------------------------------------------------------------------
(* The load info: what is mapped. *)

\* Mutant of FileEnd: the segment's last page is the one its last byte is in.
MutFileEnd(segment) == Masked(segment.vaddr + segment.filesz)

\* The end of the file mapping of a segment: one more page when it is aligned already.
FileEnd(segment) == Masked(segment.vaddr + segment.filesz + Page)

add_mapping(segment) ==
    LET end == FileEnd(segment)
        zeroEnd == Masked(segment.vaddr + segment.memsz + Page)
        extra == segment.memsz > segment.filesz
    IN  <<[action |-> "MMAP_FILE", addr |-> Masked(segment.vaddr),
           length |-> end - Masked(segment.vaddr), offset |-> Masked(segment.offset),
           clear |-> IF extra THEN end - segment.vaddr - segment.filesz ELSE 0]>>
        \o IF extra /\ zeroEnd > end
           THEN <<[action |-> "MMAP_ANON", addr |-> end, length |-> zeroEnd - end]>>
           ELSE << >>

Mappings(program) ==
    FlattenSeq([i \in DOMAIN program.segments |-> add_mapping(program.segments[i])])

\* compute_load_addresses.
LoadBase(program, address) ==
    IF program.pic /\ Mappings(program)[1].addr = 0 THEN address ELSE 0

\* add_load_base.
Based(mappings, base) == [i \in DOMAIN mappings |-> [mappings[i] EXCEPT !.addr = @ + base]]

\* Where the heap of the process begins (translate_brk_enter).
BssEnd(mappings) == mappings[Len(mappings)].addr + mappings[Len(mappings)].length

-----------------------------------------------------------------------------
(* The load script. *)

ExecBase(program) == LoadBase(program, ExecPicAddress)
InterpBase(program) == LoadBase(program.interp, InterpPicAddress)

Entry(program) == IF program.interp = NoProgram THEN program.entry + ExecBase(program)
                  ELSE program.interp.entry + InterpBase(program)

StackExec(program) == \/ program.execstack
                      \/ program.interp # NoProgram /\ program.interp.execstack

LoadScript(program) ==
    LET mappings == Based(Mappings(program), ExecBase(program))
    IN  <<[action |-> "OPEN", file |-> program]>> \o mappings
        \o (IF program.interp = NoProgram THEN << >>
            ELSE <<[action |-> "OPEN_NEXT", file |-> program.interp]>>
                 \o Based(Mappings(program.interp), InterpBase(program)))
        \o (IF StackExec(program) THEN <<[action |-> "MAKE_STACK_EXEC"]>> ELSE << >>)
        \o <<[action |-> "START", entry |-> Entry(program),
              at_phdr |-> program.phoff + mappings[1].addr,
              at_entry |-> program.entry + ExecBase(program)]>>

\* LOAD_STATEMENT_SIZE, in words.
StatementWords(statement) == CASE statement.action \in {"OPEN", "OPEN_NEXT", "MAKE_STACK_EXEC"} -> 2
                      [] statement.action \in {"MMAP_FILE", "MMAP_ANON"} -> 6
                      [] statement.action = "START" -> 8

ScriptSize(script, word) == word * FoldLeft(LAMBDA n, s : n + StatementWords(s), 0, script)

\* Mutant of Padding: the raw path is not counted.
MutPadding(sp, sizes, align) == (sp - sizes[1] - sizes[2]) % align

\* What is added for the script to be aligned.
Padding(sp, sizes, align) == (sp - sizes[1] - sizes[2] - sizes[3]) % align

\* The addresses the script gives to its strings, and the new stack pointer.  The sizes
\* are those of the user path, the interpreter's and the raw path; 0 for one that is absent.
Transfer(sp, sizes, size, align) ==
    LET strings == sizes[1] + sizes[2] + sizes[3] + Padding(sp, sizes, align)
    IN  [string1 |-> sp - strings,
         string2 |-> sp - strings + sizes[1],
         string3 |-> IF sizes[3] = 0 THEN sp - strings ELSE sp - strings + sizes[1] + sizes[2],
         stack |-> sp - (size + strings)]

-----------------------------------------------------------------------------
(* The loader. *)

\* mmap() of a file, at a fixed address.
FileByte(program, at) == IF at < program.size THEN <<program.id, at>>
                         ELSE IF Masked(at) < program.size THEN Zero ELSE PastFile

MapFile(mem, program, s) ==
    [a \in DOMAIN mem |-> IF a \in s.addr .. s.addr + s.length - 1
                          THEN FileByte(program, s.offset + (a - s.addr)) ELSE mem[a]]

Cleared(s) == s.addr + s.length - s.clear .. s.addr + s.length - 1
Clear(mem, s) == [a \in DOMAIN mem |-> IF a \in Cleared(s) THEN Zero ELSE mem[a]]

MapAnon(mem, s) == [a \in DOMAIN mem |-> IF a \in s.addr .. s.addr + s.length - 1
                                         THEN Zero ELSE mem[a]]

\* One statement of _start().
Interpret(loader, s) ==
    CASE s.action \in {"OPEN", "OPEN_NEXT"} -> [loader EXCEPT !.file = s.file, !.reset = TRUE]
      [] s.action = "MMAP_FILE" ->
           LET mem == MapFile(loader.mem, loader.file, s)
           IN  [loader EXCEPT !.mem = Clear(mem, s),
                              !.fault = @ \/ \E a \in Cleared(s) : mem[a] = PastFile,
                              !.base = IF loader.reset THEN s.addr ELSE @,
                              !.reset = FALSE]
      [] s.action = "MMAP_ANON" -> [loader EXCEPT !.mem = MapAnon(@, s)]
      [] s.action = "MAKE_STACK_EXEC" -> [loader EXCEPT !.execstack = TRUE]
      [] s.action = "START" -> [loader EXCEPT !.start = s]

Loaded(program, memory) ==
    FoldLeft(Interpret,
             [mem |-> [a \in memory |-> NoMemory], file |-> NoProgram, base |-> 0,
              reset |-> TRUE, fault |-> FALSE, execstack |-> FALSE, start |-> NoProgram],
             LoadScript(program))

-----------------------------------------------------------------------------
(* The kernel's image of a program, and the properties. *)

\* "the "extra" bytes are defined to hold the value 0 and to follow the segment's
\* initialized area" (man 7 elf, quoted by add_mapping()).
ImageByte(program, segment, k) ==
    IF k < segment.filesz THEN <<program.id, segment.offset + k>> ELSE Zero

HasImage(mem, program, base) ==
    \A i \in DOMAIN program.segments :
        LET segment == program.segments[i]
        IN  \A k \in 0 .. segment.memsz - 1 :
                mem[base + segment.vaddr + k] = ImageByte(program, segment, k)

\* A segment to clear whose file ends where its last page begins.
ClearsPastFile(program) ==
    \E i \in DOMAIN program.segments :
        LET segment == program.segments[i]
        IN  segment.memsz > segment.filesz /\ Masked(segment.offset + segment.filesz) >= program.size

\* The first segment begins the file, program headers included.
HoldsHeaders(segment, phoff) ==
    /\ Masked(segment.offset) = 0
    /\ segment.offset <= phoff /\ phoff < segment.offset + segment.filesz

Parts(program) == {program} \cup ({program.interp} \ {NoProgram})

\* The program and its interpreter are in memory as their files say, the program starts
\* at the right place, finds its headers and its interpreter, and its heap begins after it.
ImageRight(program, memory) ==
    LET loader == Loaded(program, memory)
        phdr == loader.start.at_phdr
    IN  (\A p \in Parts(program) : ~ClearsPastFile(p)) =>
        /\ ~loader.fault
        /\ HasImage(loader.mem, program, ExecBase(program))
        /\ program.interp # NoProgram =>
             /\ HasImage(loader.mem, program.interp, InterpBase(program))
             /\ loader.base = Masked(program.interp.segments[1].vaddr) + InterpBase(program)
        /\ HoldsHeaders(program.segments[1], program.phoff) =>
             loader.mem[phdr] = <<program.id, program.phoff>>
        /\ loader.execstack = StackExec(program)
        /\ \A i \in DOMAIN program.segments :
             LET segment == program.segments[i]
             IN  segment.vaddr + segment.memsz + ExecBase(program)
                   <= BssEnd(Based(Mappings(program), ExecBase(program)))

\* The script and its strings lie between the new stack and the old one, apart from each
\* other, and the new stack is aligned.
ScriptPlaced(sp, sizes, program, word, align) ==
    LET size == ScriptSize(LoadScript(program), word)
        t == Transfer(sp, sizes, size, align)
    IN  /\ t.stack % align = 0
        /\ t.string1 = t.stack + size
        /\ t.string2 = t.string1 + sizes[1]
        /\ sizes[3] > 0 => t.string3 = t.string2 + sizes[2]
        /\ t.string2 + sizes[2] + sizes[3] <= sp
=============================================================================

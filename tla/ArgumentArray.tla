---------------------------- MODULE ArgumentArray ----------------------------
(***************************************************************************)
(* argv[] and envp[] of execve(2) (execve/aoxp.c): PRoot fetches the table *)
(* of pointers, reads, compares and writes what they point to through a    *)
(* cache, makes room for entries, and puts a new table with the strings it *)
(* has in its cache below the stack of the tracee.  Entries PRoot never    *)
(* looked at keep the tracee's pointer.                                    *)
(*                                                                         *)
(* The memory here is [word, string]: what is at the addresses of pointers *)
(* and of strings that can be read.  A string is a sequence of characters. *)
(***************************************************************************)
EXTENDS Shebang, TraceeMemory, FiniteSetsExt

CONSTANT NoString       \* "local == NULL": not in the cache

LOCAL EFAULT == 14
LOCAL E2BIG == 7

Cell(remote, local) == [remote |-> remote, local |-> local]
EmptyCell == Cell(0, NoString)

\* An array being edited; after an error nothing more is done to it.
State(status, array) == [status |-> status, array |-> array]

\* sizeof_xpointee_as_string.
SizeOf(string) == IF string = NoString THEN 0 ELSE Len(string) + 1

WordAt(table, i) == table + (i - 1) * WordSize

\* fetch_array_of_xpointers: up to the null pointer, which is an entry too.
Fetched(m, table) ==
    LET Stops(n) == WordAt(table, n) \notin DOMAIN m.word \/ m.word[WordAt(table, n)] = 0
        FetchedTo(n) ==
            IF WordAt(table, n) \in DOMAIN m.word
            THEN State(0, Append([i \in 1 .. n - 1 |-> Cell(m.word[WordAt(table, i)], NoString)], EmptyCell))
            ELSE State(-EFAULT, << >>)
    IN  FetchedTo(Min({n \in 1 .. Cardinality(DOMAIN m.word) + 1 : Stops(n)}))

\* read_xpointee_as_string, and as_object: a null pointer is a null string, a string that
\* is read stays in the cache.
Read(m, state, i) ==
    LET entry == state.array[i]
    IN  IF state.status < 0 \/ entry.local # NoString \/ entry.remote = 0 THEN state
        ELSE IF entry.remote \notin DOMAIN m.string THEN [state EXCEPT !.status = -EFAULT]
        ELSE [state EXCEPT !.array[i].local = m.string[entry.remote]]

\* write_xpointee_as_string, write_xpointees.
Write(state, i, string) == IF state.status < 0 THEN state ELSE [state EXCEPT !.array[i].local = string]
Writes(state, i, strings) ==
    FoldLeft(LAMBDA st, k : Write(st, i + k - 1, strings[k]), state, [k \in DOMAIN strings |-> k])

\* resize_array_of_xpointers at index i: null entries before it, or those before it go.
Resized(array, i, delta) ==
    IF delta > 0 THEN SubSeq(array, 1, i - 1) \o [k \in 1 .. delta |-> EmptyCell] \o SubSeq(array, i, Len(array))
    ELSE SubSeq(array, 1, i - 1 + delta) \o SubSeq(array, i, Len(array))

Resize(state, i, delta) == IF state.status < 0 THEN state ELSE [state EXCEPT !.array = Resized(@, i, delta)]

\* compare_xpointee_generic, compare_xpointee_env: "name=value" has the name.
EnvName(string, name) == string # NoString /\ IsPrefix(name \o <<"=">>, string)
SameString(string, reference) == string = reference

\* array->compare_xpointee, of an array of the environment or of another.
Matches(env, string, reference) == IF env THEN EnvName(string, reference) ELSE SameString(string, reference)

\* find_xpointee: what it compares it reads; no entry is the one after the last.
Find(m, state, env, reference) ==
    LET Compared(read, i) ==
            [state |-> read,
             found |-> IF read.status = 0 /\ Matches(env, read.array[i].local, reference) THEN i ELSE 0]
    IN  FoldLeft(LAMBDA f, i : IF f.found # 0 \/ f.state.status < 0 THEN f ELSE Compared(Read(m, f.state, i), i),
                 [state |-> state, found |-> 0], [i \in DOMAIN state.array |-> i])

-----------------------------------------------------------------------------
(* push_array_of_xpointers. *)

Modified(array) == {i \in DOMAIN array : array[i].local # NoString}

\* Where the string of entry i goes in the block, the table being first.
Offset(array, i) ==
    Len(array) * WordSize + FoldLeft(LAMBDA n, e : n + SizeOf(e.local), 0, SubSeq(array, 1, i - 1))

\* Mutant of Pointer: the offset in the block is not made an address.
MutPointer(array, i, block) == IF array[i].local = NoString THEN array[i].remote ELSE Offset(array, i)

\* The pointer to entry i in the new table.
Pointer(array, i, block) == IF array[i].local = NoString THEN array[i].remote ELSE block + Offset(array, i)

\* "assert(local_count < array->length + 1)".
PushAsserts(array) == Modified(array) # DOMAIN array

\* The table and the strings it points to.
NewTable(m, array, block) ==
    LET strings == [a \in {Pointer(array, i, block) : i \in Modified(array)} |->
                       array[CHOOSE i \in Modified(array) : Pointer(array, i, block) = a].local]
        words == [a \in {WordAt(block, i) : i \in DOMAIN array} |->
                       Pointer(array, (a - block) \div WordSize + 1, block)]
    IN  [word |-> words @@ m.word, string |-> strings @@ m.string]

\* table is what the register points to, sp the stack pointer, which was original.
Pushed(m, array, table, sp, original) ==
    LET At(block) == IF block = 0 THEN [status |-> -E2BIG, table |-> table, mem |-> m]
                     ELSE [status |-> 0, table |-> block, mem |-> NewTable(m, array, block)]
    IN  IF Modified(array) = {} THEN [status |-> 0, table |-> table, mem |-> m]
        ELSE At(alloc_mem(sp, original, Offset(array, Len(array) + 1)))

-----------------------------------------------------------------------------
(* What execve does with them. *)

\* One turn of expand_shebang; an empty argv[] gets the script's name all the same.
InsertInterpreter(state, path, argument, old) ==
    LET names == <<path>> \o (IF argument = << >> THEN << >> ELSE <<argument>>) \o <<old>>
        empty == IF Len(state.array) = 1 THEN 1 ELSE 0
    IN  Writes(Resize(state, 1, Len(names) - 1 + empty), 1, names)

\* The end of rebuild_host_ldso_paths: the variable is replaced, or put before the end.
SetEnv(m, state, name, string) ==
    LET Set(f) == IF f.found # 0 \/ f.state.status < 0 THEN Write(f.state, f.found, string)
                  ELSE Write(Resize(f.state, Len(f.state.array), 1), Len(f.state.array), string)
    IN  Set(Find(m, state, TRUE, name))

-----------------------------------------------------------------------------
Unreadable == <<"?">>

(* What an entry of an array stands for. *)
Shows(m, entry) == IF entry.local # NoString THEN entry.local
                   ELSE IF entry.remote = 0 THEN NoString
                   ELSE IF entry.remote \in DOMAIN m.string THEN m.string[entry.remote] ELSE Unreadable

\* The strings of an array, and of a table in the memory.
StringsOf(m, array) == [i \in DOMAIN array |-> Shows(m, array[i])]
SeenAt(m, table) == StringsOf(m, Fetched(m, table).array)

\* The list up to the first entry that is null.
UpToNull(strings) == SubSeq(strings, 1, SelectInSeq(strings, LAMBDA x : x = NoString))

\* The kernel finds in the tracee the array as PRoot edited it, with the pointers PRoot did
\* not look behind; the table and its strings lie in the block, apart from each other, under
\* the red zone, and every other byte is as it was.
PushShows(m, state, table, sp) ==
    LET Holds(array, pushed) ==
            LET Place(i) == Span(Pointer(array, i, pushed.table), SizeOf(array[i].local))
            IN  /\ PushAsserts(array)
                /\ pushed.status = 0 /\ Modified(array) # {} =>
                     /\ SeenAt(pushed.mem, pushed.table) = UpToNull(StringsOf(m, array))
                     /\ \A i \in DOMAIN array \ Modified(array) :
                          pushed.mem.word[WordAt(pushed.table, i)] = array[i].remote
                     /\ \A i \in Modified(array) :
                          /\ Place(i) \subseteq pushed.table + Len(array) * WordSize .. sp - RedZone - 1
                          /\ \A j \in Modified(array) \ {i} : Place(i) \cap Place(j) = {}
                /\ Modified(array) = {} => pushed.table = table
    IN  state.status = 0 => Holds(state.array, Pushed(m, state.array, table, sp, sp))

\* The arguments a script's interpreter is started with are those of Shebang.
ArgvAsInterpreted(m, table, argv, path, argument, old) ==
    LET Holds(array) ==
            /\ StringsOf(m, array) = Interpreted(argv, path, argument, old) \o <<NoString>>
            /\ argv # << >> => \A i \in 2 .. Len(argv) : WordAt(table, i) \in DOMAIN m.word
                                 => m.word[WordAt(table, i)] \in {array[k].remote : k \in DOMAIN array}
    IN  Holds(InsertInterpreter(Fetched(m, table), path, argument, old).array)

\* The variable has its value afterwards, the others theirs, in their order.
EnvironmentKept(m, table, name, string) ==
    LET Others(s) == SelectSeq(s, LAMBDA x : ~EnvName(x, name))
        Named(s) == {i \in DOMAIN s : EnvName(s[i], name)}
        Kept(before, shown) ==
            /\ Others(shown) = Others(before)
            /\ \E i \in DOMAIN shown : shown[i] = string /\ \A j \in 1 .. i - 1 : j \notin Named(shown)
            /\ Len(shown) = Len(before) + (IF Named(before) = {} THEN 1 ELSE 0)
        After(state) == state.status = 0 => Kept(SeenAt(m, table), StringsOf(m, state.array))
    IN  After(SetEnv(m, Fetched(m, table), name, string))
=============================================================================

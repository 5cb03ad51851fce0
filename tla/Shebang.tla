------------------------------- MODULE Shebang -------------------------------
(***************************************************************************)
(* Scripts: PRoot finds the interpreter of a script itself and rewrites    *)
(* the arguments of execve(2), since the kernel would open the interpreter *)
(* outside of the guest.  The reference is what Linux does.                *)
(*                                                                         *)
(* A file is the sequence of its first characters; "SP" is a space or a    *)
(* tabulation, "NL" a line feed, "CR" a carriage return.                   *)
(***************************************************************************)
EXTENDS Integers, Sequences, SequencesExt

CONSTANTS BufSize,          \* BINPRM_BUF_SIZE
          MaxScripts        \* MAXSYMLINKS: scripts that interpret scripts

ASSUME BufSizes == BufSize \in Nat /\ BufSize > 2

ENOEXEC == 8
ENOENT == 2
EACCES == 13
ELOOP == 40

LOCAL Lesser(a, b) == IF a < b THEN a ELSE b
Blank(c) == c = "SP"
EndOfLine(c) == c \in {"NL", "CR"}

NotAScript == [status |-> 0, path |-> << >>, argument |-> << >>]
Script(path, argument) == [status |-> 1, path |-> path, argument |-> argument]
Failed(errno) == [status |-> -errno, path |-> << >>, argument |-> << >>]

\* The last character looked at.
LastRead(text) == Lesser(Len(text), BufSize - 1)

\* Mutant of Trimmed: the blanks at the end of the line stay.
MutTrimmed(argument) == argument

\* "Remove trailing spaces."
Trimmed(argument) == SubSeq(argument, 1, SelectLastInSeq(argument, LAMBDA c : ~Blank(c)))

\* The argument that begins at a, up to the end of its line; one that the file ends is
\* dropped, one that fills the buffer is cut.
Argument(text, a) ==
    LET end == SelectInSubSeq(text, a, LastRead(text), EndOfLine)
    IN  IF end # 0 THEN Trimmed(SubSeq(text, a, end - 1))
        ELSE IF Len(text) < BufSize THEN << >> ELSE SubSeq(text, a, BufSize - 1)

\* extract_shebang once the path is known to lie from start to stop - 1.  The terminator of a
\* path that the file ends overwrites its last character.
PathTo(text, start, stop) ==
    LET arg == SelectInSubSeq(text, stop + 1, LastRead(text), LAMBDA c : ~Blank(c))
    IN  IF stop = 0
        THEN Script(SubSeq(text, start, IF Len(text) < BufSize THEN Len(text) - 1 ELSE BufSize - 1), << >>)
        ELSE Script(SubSeq(text, start, stop - 1),
                    IF EndOfLine(text[stop]) \/ arg = 0 THEN << >> ELSE Argument(text, arg))

PathFrom(text, start) ==
    IF start = 0 /\ Len(text) < BufSize THEN Failed(ENOEXEC)
    ELSE IF start = 0 \/ start >= BufSize THEN Script(<< >>, << >>)
    ELSE PathTo(text, start, SelectInSubSeq(text, start, LastRead(text), LAMBDA c : Blank(c) \/ EndOfLine(c)))

\* extract_shebang.
Extract(text) ==
    IF Len(text) < 2 \/ SubSeq(text, 1, 2) # <<"#", "!">> THEN NotAScript
    ELSE PathFrom(text, SelectInSubSeq(text, 3, Lesser(Len(text), BufSize), LAMBDA c : ~Blank(c)))

-----------------------------------------------------------------------------
(* The file system is a map from names to files: a text, and whether it    *)
(* may be executed.  A name is a sequence of characters.                   *)

\* translate_and_check_exec.
CheckExec(files, path) ==
    IF path = << >> THEN -ENOEXEC
    ELSE IF path \notin DOMAIN files THEN -ENOENT
    ELSE IF ~files[path].executable THEN -EACCES ELSE 0

\* "interpreter [optional-arg] filename arg...": argv[0] is replaced, if there is one.
Interpreted(argv, path, argument, old) ==
    <<path>> \o (IF argument = << >> THEN << >> ELSE <<argument>>) \o <<old>>
    \o (IF argv = << >> THEN << >> ELSE Tail(argv))

\* What a turn makes of what the file holds.
Found(files, state, found) ==
    IF found.status # 1 THEN [state EXCEPT !.status = found.status]
    ELSE IF CheckExec(files, found.path) < 0 THEN [state EXCEPT !.status = CheckExec(files, found.path)]
    ELSE [state EXCEPT !.path = found.path,
                       !.argv = Interpreted(@, found.path, found.argument, state.path)]

\* One turn of the loop of expand_shebang; its status stays 1 while there is a script.
Turn(files, state) ==
    IF state.status # 1 THEN state
    ELSE IF CheckExec(files, state.path) < 0 THEN [state EXCEPT !.status = CheckExec(files, state.path)]
    ELSE Found(files, state, Extract(files[state.path].text))

\* expand_shebang.
Expand(files, path, argv) ==
    LET Ended(state) == IF state.status = 1 THEN [state EXCEPT !.status = -ELOOP] ELSE state
    IN  Ended(FoldLeft(LAMBDA state, i : Turn(files, state),
                       [path |-> path, argv |-> argv, status |-> 1],
                       [i \in 1 .. MaxScripts |-> i]))

-----------------------------------------------------------------------------
(* Linux. *)

\* Without the blanks around it.
Stripped(line) ==
    SubSeq(line, SelectInSeq(line \o <<"|">>, LAMBDA c : ~Blank(c)), SelectLastInSeq(line, LAMBDA c : ~Blank(c)))

\* The first line; it ends with the buffer at most.
KernelLine(text) ==
    LET LineTo(nl) == SubSeq(text, 3, IF nl = 0 THEN LastRead(text) ELSE nl - 1)
    IN  Stripped(LineTo(SelectInSubSeq(text, 3, LastRead(text), LAMBDA c : c = "NL")))

KernelScript(text) ==
    LET Split(line, space) == IF space = 0 THEN Script(line, << >>)
                              ELSE Script(SubSeq(line, 1, space - 1), Stripped(SubSeq(line, space, Len(line))))
        SplitLine(line) == Split(line, SelectInSeq(line, Blank))
    IN  IF Len(text) < 2 \/ SubSeq(text, 1, 2) # <<"#", "!">> THEN NotAScript
        ELSE SplitLine(KernelLine(text))

\* What the kernel's reading becomes in PRoot of a line without its end.  When the file
\* ends there the last character read is lost: an argument is dropped whole, a path loses its
\* last character.  At the edge of the buffer the blanks after an argument stay.
Unended(text, kernel) ==
    LET Ended(blanks) ==
            IF Len(text) >= BufSize
            THEN [kernel EXCEPT !.argument = IF @ = << >> THEN @ ELSE @ \o blanks]
            ELSE IF kernel.argument # << >> THEN [kernel EXCEPT !.argument = << >>]
            ELSE IF kernel.path # << >> /\ blanks = << >> THEN [kernel EXCEPT !.path = Front(@)]
            ELSE kernel
    IN  Ended(SubSeq(text, SelectLastInSubSeq(text, 1, LastRead(text), LAMBDA c : ~Blank(c)) + 1, LastRead(text)))

\* The interpreter of a script and its one argument are the kernel's, but that "\r" ends a
\* line as "\n" does, and for what Unended says of a line that nothing ends.
ShebangAsKernel(text) ==
    LET ended == SelectInSubSeq(text, 3, LastRead(text), EndOfLine) # 0
        Agree(found, kernel) ==
            IF found.status < 0 THEN kernel.path = << >>
            ELSE found = IF kernel.status = 0 \/ ended THEN kernel ELSE Unended(text, kernel)
    IN  Agree(Extract(text), KernelScript([i \in DOMAIN text |-> IF text[i] = "CR" THEN "NL" ELSE text[i]]))

\* Stated, and not true of the code: a line that the file ends is read as the kernel reads it.
LastLineRead(text) == Len(text) < BufSize /\ KernelScript(text).status = 1
                      => Extract(text).path = KernelScript(text).path

\* A program reached through scripts is started with the arguments man 2 execve says: each
\* interpreter, its argument, and the script it interprets, then the arguments of the call.
ArgumentsAsKernel(files, path, argv) ==
    LET script[p \in DOMAIN files] == Extract(files[p].text)
        via[p \in DOMAIN files] ==      \* the scripts from p on, the last is the program
            <<p>> \o (IF script[p].status = 0 THEN << >> ELSE via[script[p].path])
        Optional(a) == IF a = << >> THEN << >> ELSE <<a>>
        Started(steps) ==
            <<Last(steps)>>
            \o FlattenSeq([k \in 1 .. Len(steps) - 1 |->
                              Optional(script[Reverse(steps)[k + 1]].argument) \o <<Reverse(steps)[k + 1]>>])
            \o (IF argv = << >> THEN << >> ELSE Tail(argv))
        Agree(end, steps) == end.status = 0 => /\ end.path = Last(steps)
                                               /\ end.argv = IF Len(steps) = 1 THEN argv ELSE Started(steps)
    IN  Agree(Expand(files, path, argv), via[path])
=============================================================================

------------------------------ MODULE Sessions ------------------------------
(***************************************************************************)
(* The terminal sessions of the application: the service that keeps them   *)
(* in three maps, an order and a current name (SessionService), and the    *)
(* screens that create, show, rename, close and restart them.  Everything  *)
(* but the shells runs on the main thread, a handler at a time; a shell    *)
(* ends, and the service and the activity come and go, at any moment.      *)
(*                                                                         *)
(* A session is the number of its TerminalSession object, whose shell      *)
(* starts when a view shows it.  What a session runs is its mode and the   *)
(* command that replaces the mode's shell, if any.  The lists of names     *)
(* made from a hash map are in no particular order.                        *)
(***************************************************************************)
EXTENDS Naturals, Sequences, SequencesExt, FiniteSets, Functions

CONSTANTS
    Names,          \* names a session can have
    Mains,          \* the sequence of generated names, "main1", "main2", ...
    First,          \* "main", the name of a service's first session
    Customs,        \* the custom sessions, each the name of one
    MaxSessions,    \* bound: TerminalSession objects ever created
    None

ASSUME SessionNames == Range(Mains) \subseteq Names /\ Customs \subseteq Names /\ First \in Names

VARIABLES
    sessions,       \* name -> object            (SessionService.sessions)
    pendingCommands,\* name -> command or None
    sessionList,    \* name -> mode
    sessionOrder,   \* the names as the drawer lists them
    currentSession, \* the current name
    shells,         \* of every object created: what it runs, and whether it still does
    shown,          \* the object the view shows, or None
    bound,          \* the activity is bound to the service
    started         \* the service was started and not stopped since

sessionVars == <<sessions, pendingCommands, sessionList, sessionOrder, currentSession,
                 shells, shown, bound, started>>
serviceMaps == <<sessions, pendingCommands, sessionList, sessionOrder>>

Ubuntu == "ubuntu"
Modes == {Ubuntu, "android"}
Commands == {None} \cup Customs \cup {"script"}

Known == DOMAIN sessions
Empty == [name \in {} |-> None]
Without(f, name) == Restrict(f, DOMAIN f \ {name})
With(f, name, value) == [n \in DOMAIN f \cup {name} |-> IF n = name THEN value ELSE f[n]]

RunningShells(s) == shells[s].running
Finish(ss) == [s \in DOMAIN shells |->
                  IF s \in ss THEN [shells[s] EXCEPT !.running = FALSE] ELSE shells[s]]

-----------------------------------------------------------------------------

\* SessionBinder.createSession, for a view that shows the session in the same handler.
Create(name, mode, command) ==
    LET s == Len(shells) + 1
    IN  /\ Len(shells) < MaxSessions
        /\ shells' = Append(shells, [runs |-> <<mode, command>>, running |-> TRUE])
        /\ sessions' = With(sessions, name, s)
        /\ pendingCommands' = With(pendingCommands, name, command)
        /\ sessionList' = With(sessionList, name, mode)
        /\ sessionOrder' = IF name \in Range(sessionOrder) THEN sessionOrder
                                                           ELSE Append(sessionOrder, name)
        /\ shown' = s

\* TerminalViewModel.changeSession of a name the service has.
Show(name) == shown' = sessions[name] /\ currentSession' = name

\* createSession followed by changeSession.
CreateAndShow(name, mode, command) ==
    Create(name, mode, command) /\ currentSession' = name /\ UNCHANGED <<bound, started>>

OnScreen == bound /\ shown # None

-----------------------------------------------------------------------------
(* The service and the activity. *)

SessionInit ==
    /\ sessions = Empty /\ pendingCommands = Empty /\ sessionList = Empty
    /\ sessionOrder = << >>
    /\ currentSession = First
    /\ shells = << >>
    /\ shown = None /\ bound = FALSE /\ started = FALSE

\* onStart: the service is started, bound, and created if there is none.
StartAndBind == ~bound /\ bound' = TRUE /\ started' = TRUE
                /\ UNCHANGED <<serviceMaps, currentSession, shells, shown>>

\* onDestroy, and the state of the service that replaces this one.
Destroy ==
    /\ shells' = Finish(Range(sessions))
    /\ sessions' = Empty /\ pendingCommands' = Empty /\ sessionList' = Empty
    /\ sessionOrder' = << >>
    /\ currentSession' = First

\* onStop: without its binder the screen has no view; a stopped service ends.
Unbind ==
    /\ bound
    /\ bound' = FALSE /\ shown' = None
    /\ IF started THEN UNCHANGED <<serviceMaps, currentSession, shells>> ELSE Destroy
    /\ UNCHANGED started

\* The terminal view is made and shows the current session, created if missing;
\* the default of the service may be a custom session.
ShowScreen ==
    /\ bound /\ shown = None
    /\ \/ /\ currentSession \in Known
          /\ shown' = sessions[currentSession]
          /\ UNCHANGED <<serviceMaps, shells>>
       \/ /\ currentSession \notin Known
          /\ \E mode \in Modes, command \in {None} \cup Customs : Create(currentSession, mode, command)
    /\ UNCHANGED <<currentSession, bound, started>>

\* The notification's "Exit" (ACTION_EXIT).
Exit ==
    /\ started
    /\ started' = FALSE
    /\ IF bound THEN shells' = Finish(Range(sessions)) /\ UNCHANGED <<serviceMaps, currentSession>>
                ELSE Destroy
    /\ UNCHANGED <<shown, bound>>

\* A shell exits.
ShellEnds(s) == /\ RunningShells(s)
                /\ shells' = Finish({s})
                /\ UNCHANGED <<serviceMaps, currentSession, shown, bound, started>>

-----------------------------------------------------------------------------
(* The screens. *)

\* The first generated name that is free.
Unique(name) == \E i \in DOMAIN Mains : /\ name = Mains[i] /\ name \notin DOMAIN sessionList
                                        /\ \A j \in 1 .. i - 1 : Mains[j] \in DOMAIN sessionList

NewSession(name, mode) == /\ OnScreen /\ Unique(name)
                          /\ CreateAndShow(name, mode, None)

\* onCreateCustomSession: a session of this name is replaced.
NewCustom(custom) == OnScreen /\ CreateAndShow(custom, Ubuntu, custom)

\* runScript; its names are generated as the others are.
RunScript(name, mode) == /\ OnScreen /\ Unique(name)
                         /\ CreateAndShow(name, mode, "script")

Select(name) == /\ OnScreen /\ name \in Known
                /\ Show(name)
                /\ UNCHANGED <<serviceMaps, shells, bound, started>>

\* terminateSession.
Terminate(name) ==
    /\ shells' = IF name \in Known THEN Finish({sessions[name]}) ELSE shells
    /\ sessions' = Without(sessions, name)
    /\ pendingCommands' = Without(pendingCommands, name)
    /\ sessionList' = Without(sessionList, name)
    /\ sessionOrder' = RemoveFirst(sessionOrder, name)
    /\ started' = (started /\ Known \ {name} # {})

\* The drawer's delete button, absent for the only session when it is selected.
Delete(name) ==
    /\ OnScreen /\ name \in Known
    /\ name # currentSession \/ Len(sessionOrder) > 1
    /\ Terminate(name)
    /\ UNCHANGED <<currentSession, shown, bound>>

\* handleCloseSession: the next name is shown first; of the last one nothing is left to show.
Close ==
    /\ OnScreen
    /\ IF Cardinality(Known) <= 1
       THEN UNCHANGED <<currentSession, shown>>
       ELSE \E next \in Known \ {currentSession} : Show(next)
    /\ Terminate(currentSession)
    /\ UNCHANGED bound

\* handleSwitchSession.
Switch == /\ OnScreen /\ Cardinality(Known) > 1
          /\ \E next \in Known \ {currentSession} : Show(next)
          /\ UNCHANGED <<serviceMaps, shells, bound, started>>

\* Mutant of Moved: the old name is not removed.
MutMoved(f, old, new) == With(f, new, f[old])

\* An entry of one of the maps gets another name.
Moved(f, old, new) == With(Without(f, old), new, f[old])

\* renameSession.
Rename(old, new) ==
    /\ OnScreen
    /\ old \in Known /\ new \notin Known
    /\ sessions' = Moved(sessions, old, new)
    /\ pendingCommands' = Moved(pendingCommands, old, new)
    /\ sessionList' = Moved(sessionList, old, new)
    /\ sessionOrder' = [i \in DOMAIN sessionOrder |->
                           IF sessionOrder[i] = old THEN new ELSE sessionOrder[i]]
    /\ currentSession' = IF currentSession = old THEN new ELSE currentSession
    /\ UNCHANGED <<shells, shown, bound, started>>

\* moveSession by one place, the drawer's two arrows; sortSessions is a series of moves.
MoveDown(i) ==
    /\ OnScreen /\ i \in 1 .. Len(sessionOrder) - 1
    /\ sessionOrder' = [sessionOrder EXCEPT ![i] = sessionOrder[i + 1], ![i + 1] = sessionOrder[i]]
    /\ UNCHANGED <<sessions, pendingCommands, sessionList, currentSession, shells, shown, bound, started>>

\* Mutant of Restartable: the session itself is not asked again.
MutRestartable(name) == name \in Known

Restartable(name) == name \in Known /\ ~RunningShells(sessions[name])

\* The enter key in a session whose shell has ended: another session, or a new shell
\* that runs what the ended one ran.
EnterKey ==
    /\ OnScreen /\ ~RunningShells(shown)
    /\ IF Known \ {currentSession} # {}
       THEN /\ Terminate(currentSession)
            /\ \E next \in Known \ {currentSession} : Show(next)
            /\ UNCHANGED bound
       ELSE \/ /\ Restartable(currentSession)
               /\ CreateAndShow(currentSession, sessionList[currentSession],
                                pendingCommands[currentSession])
            \/ /\ currentSession \in Known /\ ~Restartable(currentSession)
               /\ Show(currentSession)
               /\ UNCHANGED <<serviceMaps, shells, bound, started>>

-----------------------------------------------------------------------------

SessionNext ==
    \/ StartAndBind \/ Unbind \/ ShowScreen \/ Exit
    \/ \E s \in DOMAIN shells : ShellEnds(s)
    \/ \E name \in Range(Mains), mode \in Modes : NewSession(name, mode) \/ RunScript(name, mode)
    \/ \E custom \in Customs : NewCustom(custom)
    \/ \E name \in Names : Select(name) \/ Delete(name)
    \/ Close \/ Switch \/ EnterKey
    \/ \E old, new \in Names : Rename(old, new)
    \/ \E i \in DOMAIN sessionOrder : MoveDown(i)

SessionSpec == SessionInit /\ [][SessionNext]_sessionVars

-----------------------------------------------------------------------------
(* Properties. *)

\* What the service would run if the session of a name were restarted is what the
\* session of this name runs: creation, renaming, closing and replacement keep the
\* three maps and the order in step (SessionService.kt, restartSession).
RestartsTheSame ==
    /\ \A name \in Known : shells[sessions[name]].runs = <<sessionList[name], pendingCommands[name]>>
    /\ Range(sessionOrder) = Known /\ Len(sessionOrder) = Cardinality(Known)

\* No handler loses a shell that runs: it stays in the service, which can end it, or
\* it is ended; but for the creation of a custom session whose name another session has
\* (TerminalScreen.kt, onCreateCustomSession), which puts its own in the place of that one.
ShellsKept ==
    [][\A s \in Range(sessions) :
          s \in Range(sessions') \/ ~shells'[s].running
          \/ \E custom \in Customs \cap Known : sessions[custom] = s /\ NewCustom(custom)]_sessionVars

\* The service knows what each of its sessions runs, and loses no shell that runs but by
\* the creation of a custom session over a name in use (SessionService.kt).
SessionsKept == []RestartsTheSame /\ ShellsKept

\* The service knows every shell that runs.  Not true of the code, see README: a custom
\* session created over the name of a running one leaves a shell that nobody can end.
NoShellLost == \A s \in DOMAIN shells : RunningShells(s) => s \in Range(sessions)
=============================================================================

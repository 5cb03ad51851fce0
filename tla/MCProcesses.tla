----------------------------- MODULE MCProcesses -----------------------------
(***************************************************************************)
(* One instance of each component that follows processes through fork,     *)
(* execve and exit: the emulation of ptrace(2) and wait(2), the mount      *)
(* namespaces, execve and its loader, the heap, the fake netlink sockets,  *)
(* the ids and the file modes of fake_id0.  As in MCServices, a history    *)
(* moves one of them.                                                      *)
(***************************************************************************)
EXTENDS PtraceEmulation, Mounts, Execve, Heap, FakeCreds, FakeModes, FakeNetlink

VARIABLE unit   \* the component this history is about

Is(u) == unit = u /\ unit' = u

Init ==
  /\ unit \in {"ptrace", "mounts", "execve", "heap", "creds", "modes", "netlink"}
  /\ PtraceInit /\ MountsInit /\ ExecInit /\ HeapInit /\ CredInit /\ ModeInit /\ NetInit
  /\ unit # "modes" => mode = [n \in Nodes |-> "open"]

\* A bound: the third id is used for users only; the code is the same for both.
FewGroups == {config'.g.r, config'.g.e, config'.g.s, config'.g.fs} \subseteq {0, 1}

\* Histories of the file modes end when calls overlap, those of the sockets when
\* a descriptor ended unseen by PRoot: ModesComeBack and NeverHijacks promise
\* nothing from then on.
Next ==
  \/ Is("ptrace") /\ PtraceNext
     /\ UNCHANGED <<mountsVars, execVars, heapVars, credVars, modeVars, netVars>>
  \/ Is("mounts") /\ MountsNext
     /\ UNCHANGED <<t, execVars, heapVars, credVars, modeVars, netVars>>
  \/ Is("execve") /\ ExecNext
     /\ UNCHANGED <<t, mountsVars, heapVars, credVars, modeVars, netVars>>
  \/ Is("heap") /\ HeapNext
     /\ UNCHANGED <<t, mountsVars, execVars, credVars, modeVars, netVars>>
  \/ Is("creds") /\ CredNext /\ FewGroups
     /\ UNCHANGED <<t, mountsVars, execVars, heapVars, modeVars, netVars>>
  \/ Is("modes") /\ ~ meddled /\ ModeNext
     /\ UNCHANGED <<t, mountsVars, execVars, heapVars, credVars, netVars>>
  \/ Is("netlink") /\ ~ unseen /\ NetNext
     /\ UNCHANGED <<t, mountsVars, execVars, heapVars, credVars, modeVars>>

processVars == <<unit, t, mountsVars, execVars, heapVars, credVars, modeVars, netVars>>

Spec == Init /\ [][Next]_processVars

(* The instance of PtraceEmulation: a debugger 1, its child 2 that asks to  *)
(* be traced or is attached, and the child 3 that 2 forks, which the        *)
(* ptracer follows when it asked for it.                                    *)
RequestsTo(q) == {Ptrace(r, q) : r \in {"SYSCALL", "CONT", "DETACH", "KILL", "SETOPTIONS"}}

MCPids     == 1..3
MCParentOf == (1 :> 0) @@ (2 :> 1) @@ (3 :> 2)
MCUnborn   == {3}
MCMortal   == {2}
MCCalls    == (1 :> RequestsTo(2) \cup {Wait(AnyPid, ""), Wait(AnyPid, "WNOHANG"), Wait(2, ""),
                                        Ptrace("ATTACH", 2)})
              @@ (2 :> {Ptrace("TRACEME", 0)})
              @@ (3 :> {Call("other", 0, "")})
MCOptions  == {"fork", "exec"}
MCSteps    == (1 :> 3) @@ (2 :> 2) @@ (3 :> 1)

(* The instance of Mounts: a rootfs /r with two directories, one of them    *)
(* nested, and a host directory /h bound to /b at startup.                  *)
MCStartup == <<Binding(<<"h">>, <<"b">>, TRUE),
               Binding(<<"r">>, << >>, TRUE)>>

MCCwd == << >>

MCHostDirs == {<< >>, <<"r">>, <<"r", "a">>, <<"r", "a", "b">>, <<"r", "b">>,
               <<"h">>, <<"h", "b">>}

MCGuestPaths == {<< >>, <<"a">>, <<"b">>, <<"a", "b">>, <<"b", "b">>}

\* As bubblewrap does, with an old root under the new one; the trick that
\* leaves no place for it; and a pivot into a bound directory.
MCPivotPairs == {<<<<"a">>, <<"a", "o">>>>, <<<<"a">>, <<"a">>>>,
                 <<<<"b">>, <<"b", "b">>>>}

MCRenames == {<<<<"a">>, <<"c">>>>}

MCTmpNames == <<"t">>
==============================================================================

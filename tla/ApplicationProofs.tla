-------------------------- MODULE ApplicationProofs --------------------------
(***************************************************************************)
(* What the application keeps, for any number of sessions and whatever is  *)
(* killed: the root file system, which one tar or dpkg at a time writes    *)
(* and no guest uses before it is whole; and the sessions themselves.      *)
(***************************************************************************)
EXTENDS RootfsSetup, Sessions, FiniteSetTheorems, SequenceTheorems, TLAPS

-------------------------------------------------------------------------------
(* The set-up of the root file system *)

Places == Ended \cup Locked \cup {"lock", "certs lock", "guest"}

RootfsTypeOK ==
    /\ archive \in {"none", "part", "whole"} /\ tree \in {"none", "partial", "whole"}
    /\ at \in [Shells -> Places] /\ tool \in [Shells -> {"none", "tar", "dpkg"}]
    /\ ready \in BOOLEAN /\ bundle \in BOOLEAN /\ installed \in BOOLEAN /\ certsReady \in BOOLEAN

\* A process of session s has the locked descriptor open.
Holds(s) == at[s] \in Locked \/ tool[s] # "none"

OneHolder == \A s, u \in Shells : Holds(s) /\ Holds(u) => s = u

\* A subshell waits for the tool it started, which only outlives one that was killed.
ToolsAwaited ==
    \A s \in Shells :
        /\ tool[s] = "tar"  => at[s] \in {"tar", "killed"}
        /\ tool[s] = "dpkg" => at[s] \in {"dpkg", "killed"}
        /\ at[s] \in {"tar", "dpkg"} => tool[s] = at[s]

\* The places of a script that has found or put the mark, and goes on to the guest.
Marked == {"certs lock", "query", "dpkg", "verify", "guest"}

MarkMeansWhole ==
    /\ ready => tree = "whole"
    /\ \A s \in Shells :
          /\ at[s] \in Marked => ready
          /\ at[s] = "mark" => tree = "whole"
          /\ tool[s] = "tar" => ~ready

\* The inductive invariant.
RootfsInv == RootfsTypeOK /\ OneHolder /\ ToolsAwaited /\ MarkMeansWhole

\* At the start no session runs and nothing is extracted or marked.
LEMMA RootfsInitInv == RootfsInit => RootfsInv
BY DEF RootfsInit, RootfsInv, RootfsTypeOK, OneHolder, Holds, ToolsAwaited, MarkMeansWhole,
       Places, Ended, Locked, Marked

\* The application copies the archive, starts a session or kills one.
LEMMA SessionsKeepInv ==
  ASSUME RootfsInv, NEW s \in Shells, CopyArchive \/ StartSession(s) \/ KillSession(s)
  PROVE  RootfsInv'
<1> USE DEF RootfsInv, Holds, Locked, Marked, To, Runs, certVars
<1>1. CASE CopyArchive
  <2>1. RootfsTypeOK'
    BY <1>1 DEF CopyArchive, RootfsTypeOK, Places, Ended
  <2>2. OneHolder'
    BY <1>1 DEF CopyArchive, RootfsTypeOK, OneHolder, Places, Ended
  <2>3. ToolsAwaited'
    BY <1>1 DEF CopyArchive, RootfsTypeOK, ToolsAwaited, Places, Ended
  <2>4. MarkMeansWhole'
    BY <1>1 DEF CopyArchive, RootfsTypeOK, MarkMeansWhole, OneHolder, ToolsAwaited, Places, Ended
  <2> QED
    BY <2>1, <2>2, <2>3, <2>4
<1>2. CASE StartSession(s)
  <2>1. RootfsTypeOK'
    BY <1>2 DEF StartSession, RootfsTypeOK, Places, Ended
  <2>2. OneHolder'
    BY <1>2 DEF StartSession, RootfsTypeOK, OneHolder, Places, Ended
  <2>3. ToolsAwaited'
    BY <1>2 DEF StartSession, RootfsTypeOK, ToolsAwaited, Places, Ended
  <2>4. MarkMeansWhole'
    BY <1>2 DEF StartSession, RootfsTypeOK, MarkMeansWhole, OneHolder, ToolsAwaited, Places, Ended
  <2> QED
    BY <2>1, <2>2, <2>3, <2>4
<1>3. CASE KillSession(s)
  <2>1. RootfsTypeOK'
    BY <1>3 DEF KillSession, RootfsTypeOK, Places, Ended
  <2>2. OneHolder'
    BY <1>3 DEF KillSession, RootfsTypeOK, OneHolder, Places, Ended
  <2>3. ToolsAwaited'
    BY <1>3 DEF KillSession, RootfsTypeOK, ToolsAwaited, Places, Ended
  <2>4. MarkMeansWhole'
    BY <1>3 DEF KillSession, RootfsTypeOK, MarkMeansWhole, OneHolder, ToolsAwaited, Places, Ended
  <2> QED
    BY <2>1, <2>2, <2>3, <2>4
<1> QED
  BY <1>1, <1>2, <1>3

\* The lock is taken when nobody holds it, or the session goes on without it.
LEMMA LockKeepsInv ==
  ASSUME RootfsInv, NEW s \in Shells, Lock(s)
  PROVE  RootfsInv'
<1> USE DEF RootfsInv, Holds, Locked, Marked, To, Runs, certVars
<1>0. UNCHANGED <<archive, tool, tree, ready, certVars>>
  BY DEF Lock
<1>1. CASE LockFree /\ at[s] = "lock" /\ To(s, "check")
  BY <1>0, <1>1 DEF LockFree, OneHolder, ToolsAwaited, MarkMeansWhole, RootfsTypeOK, Places
<1>2. CASE LockFree /\ at[s] = "certs lock" /\ To(s, "query")
  BY <1>0, <1>2 DEF LockFree, OneHolder, ToolsAwaited, MarkMeansWhole, RootfsTypeOK, Places
<1>3. CASE at[s] = "lock" /\ To(s, "failed")
  <2>1. RootfsTypeOK' /\ OneHolder'
    BY <1>0, <1>3 DEF OneHolder, RootfsTypeOK, Places, Ended
  <2>2. ToolsAwaited' /\ MarkMeansWhole'
    BY <1>0, <1>3 DEF ToolsAwaited, MarkMeansWhole, RootfsTypeOK
  <2> QED
    BY <2>1, <2>2
<1>4. CASE at[s] = "certs lock" /\ To(s, "guest")
  BY <1>0, <1>4 DEF OneHolder, ToolsAwaited, MarkMeansWhole, RootfsTypeOK, Places
<1> QED
  BY <1>1, <1>2, <1>3, <1>4 DEF Lock

\* The tree is written and marked by the one that holds the lock.
LEMMA TreeKeepsInv ==
  ASSUME RootfsInv, NEW s \in Shells, Extract(s) \/ TarEnds(s) \/ Mark(s)
  PROVE  RootfsInv'
<1> USE DEF RootfsInv, Holds, Locked, Marked, To, Runs, certVars
<1>1. CASE Extract(s)
  <2>1. RootfsTypeOK'
    BY <1>1 DEF Extract, RootfsTypeOK, Places, Ended
  <2>2. OneHolder'
    BY <1>1 DEF Extract, RootfsTypeOK, OneHolder, Places, Ended
  <2>3. ToolsAwaited'
    BY <1>1 DEF Extract, RootfsTypeOK, ToolsAwaited, Places, Ended
  <2>4. MarkMeansWhole'
    BY <1>1 DEF Extract, RootfsTypeOK, MarkMeansWhole, OneHolder, ToolsAwaited, Places, Ended
  <2> QED
    BY <2>1, <2>2, <2>3, <2>4
<1>2. CASE TarEnds(s)
  <2>1. RootfsTypeOK'
    BY <1>2 DEF TarEnds, RootfsTypeOK, Places, Ended
  <2>2. OneHolder'
    BY <1>2 DEF TarEnds, RootfsTypeOK, OneHolder, Places, Ended
  <2>3. ToolsAwaited'
    BY <1>2 DEF TarEnds, RootfsTypeOK, ToolsAwaited, Places, Ended
  <2>4. MarkMeansWhole'
    BY <1>2 DEF TarEnds, RootfsTypeOK, MarkMeansWhole, OneHolder, ToolsAwaited, Places, Ended
  <2> QED
    BY <2>1, <2>2, <2>3, <2>4
<1>3. CASE Mark(s)
  <2>1. RootfsTypeOK'
    BY <1>3 DEF Mark, RootfsTypeOK, Places, Ended
  <2>2. OneHolder'
    BY <1>3 DEF Mark, RootfsTypeOK, OneHolder, Places, Ended
  <2>3. ToolsAwaited'
    BY <1>3 DEF Mark, RootfsTypeOK, ToolsAwaited, Places, Ended
  <2>4. MarkMeansWhole'
    BY <1>3 DEF Mark, RootfsTypeOK, MarkMeansWhole, OneHolder, ToolsAwaited, Places, Ended
  <2> QED
    BY <2>1, <2>2, <2>3, <2>4
<1> QED
  BY <1>1, <1>2, <1>3

\* The certificates leave the tree and its mark alone.
LEMMA CertsKeepInv ==
  ASSUME RootfsInv, NEW s \in Shells,
         QueryCerts(s) \/ DpkgEnds(s) \/ VerifyCerts(s) \/ GuestRemoves(s)
  PROVE  RootfsInv'
<1> USE DEF RootfsInv, Holds, Locked, Marked, To, Runs, certVars
<1>1. CASE QueryCerts(s)
  <2>1. RootfsTypeOK'
    BY <1>1 DEF QueryCerts, RootfsTypeOK, Places, Ended
  <2>2. OneHolder'
    BY <1>1 DEF QueryCerts, RootfsTypeOK, OneHolder, Places, Ended
  <2>3. ToolsAwaited'
    BY <1>1 DEF QueryCerts, RootfsTypeOK, ToolsAwaited, Places, Ended
  <2>4. MarkMeansWhole'
    BY <1>1 DEF QueryCerts, RootfsTypeOK, MarkMeansWhole, OneHolder, ToolsAwaited, Places, Ended
  <2> QED
    BY <2>1, <2>2, <2>3, <2>4
<1>2. CASE DpkgEnds(s)
  <2>1. RootfsTypeOK'
    BY <1>2 DEF DpkgEnds, RootfsTypeOK, Places, Ended
  <2>2. OneHolder'
    BY <1>2 DEF DpkgEnds, RootfsTypeOK, OneHolder, Places, Ended
  <2>3. ToolsAwaited'
    BY <1>2 DEF DpkgEnds, RootfsTypeOK, ToolsAwaited, Places, Ended
  <2>4. MarkMeansWhole'
    BY <1>2 DEF DpkgEnds, RootfsTypeOK, MarkMeansWhole, OneHolder, ToolsAwaited, Places, Ended
  <2> QED
    BY <2>1, <2>2, <2>3, <2>4
<1>3. CASE VerifyCerts(s)
  <2>1. RootfsTypeOK'
    BY <1>3 DEF VerifyCerts, RootfsTypeOK, Places, Ended
  <2>2. OneHolder'
    BY <1>3 DEF VerifyCerts, RootfsTypeOK, OneHolder, Places, Ended
  <2>3. ToolsAwaited'
    BY <1>3 DEF VerifyCerts, RootfsTypeOK, ToolsAwaited, Places, Ended
  <2>4. MarkMeansWhole'
    BY <1>3 DEF VerifyCerts, RootfsTypeOK, MarkMeansWhole, OneHolder, ToolsAwaited, Places, Ended
  <2> QED
    BY <2>1, <2>2, <2>3, <2>4
<1>4. CASE GuestRemoves(s)
  <2>1. RootfsTypeOK'
    BY <1>4 DEF GuestRemoves, RootfsTypeOK, Places, Ended
  <2>2. OneHolder'
    BY <1>4 DEF GuestRemoves, RootfsTypeOK, OneHolder, Places, Ended
  <2>3. ToolsAwaited'
    BY <1>4 DEF GuestRemoves, RootfsTypeOK, ToolsAwaited, Places, Ended
  <2>4. MarkMeansWhole'
    BY <1>4 DEF GuestRemoves, RootfsTypeOK, MarkMeansWhole, OneHolder, ToolsAwaited, Places, Ended
  <2> QED
    BY <2>1, <2>2, <2>3, <2>4
<1> QED
  BY <1>1, <1>2, <1>3, <1>4

LEMMA RootfsStepInv == RootfsInv /\ [RootfsNext]_rootfsVars => RootfsInv'
<1> SUFFICES ASSUME RootfsInv, [RootfsNext]_rootfsVars
             PROVE  RootfsInv'
  OBVIOUS
<1>1. CASE CopyArchive
  BY <1>1 DEF CopyArchive, RootfsInv, RootfsTypeOK, OneHolder, Holds, ToolsAwaited, MarkMeansWhole,
              certVars
<1>2. ASSUME NEW s \in Shells,
             \/ StartSession(s) \/ KillSession(s) \/ Lock(s) \/ Extract(s) \/ TarEnds(s)
             \/ Mark(s) \/ QueryCerts(s) \/ DpkgEnds(s) \/ VerifyCerts(s) \/ GuestRemoves(s)
      PROVE  RootfsInv'
  BY <1>2, SessionsKeepInv, LockKeepsInv, TreeKeepsInv, CertsKeepInv
<1>3. CASE UNCHANGED rootfsVars
  BY <1>3 DEF rootfsVars, RootfsInv, RootfsTypeOK, OneHolder, Holds, ToolsAwaited, MarkMeansWhole
<1> QED
  BY <1>1, <1>2, <1>3 DEF RootfsNext

\* Those who hold one lock are at most one.
LEMMA InvImpliesWhole == RootfsInv => RootfsWhole
<1> SUFFICES ASSUME RootfsInv
             PROVE  RootfsWhole
  OBVIOUS
<1> DEFINE Tools == {s \in Shells : tool[s] # "none"}
<1>1. Cardinality(Tools) <= 1
  <2>1. CASE Tools = {}
    BY <2>1, FS_EmptySet
  <2>2. CASE Tools # {}
    <3>1. PICK s \in Shells : tool[s] # "none"
      BY <2>2
    <3>2. Tools = {s}
      BY <3>1 DEF RootfsInv, OneHolder, Holds
    <3>3. Cardinality(Tools) = 1
      BY <3>2, FS_Singleton
    <3> QED
      BY <3>3
  <2> QED
    BY <2>1, <2>2
<1>2. ready \/ (\E s \in Shells : at[s] = "guest") => tree = "whole"
  BY DEF RootfsInv, MarkMeansWhole, Marked
<1> QED
  BY <1>1, <1>2 DEF RootfsWhole

(***************************************************************************)
(* "All sessions share this lock; closing the descriptors releases it even *)
(* after a crash" (init-host.sh:3): for any number of sessions, started,   *)
(* killed and outlived by what they started in any order, one tar or dpkg  *)
(* at a time writes the tree, and a tree that is marked ready, or that a   *)
(* guest runs on, is whole.                                                *)
(***************************************************************************)
THEOREM TreeWhole == RootfsSpec => []RootfsWhole
<1>1. RootfsInit => RootfsInv
  BY RootfsInitInv
<1>2. RootfsInv /\ [RootfsNext]_rootfsVars => RootfsInv'
  BY RootfsStepInv
<1>3. RootfsInv => RootfsWhole
  BY InvImpliesWhole
<1> QED
  BY <1>1, <1>2, <1>3, PTL DEF RootfsSpec

-------------------------------------------------------------------------------
(* The sessions *)

SessionShell == [runs : Modes \X Commands, running : BOOLEAN]

SessionTypeOK ==
    /\ shells \in Seq(SessionShell)
    /\ sessions \in [Known -> DOMAIN shells]
    /\ sessionList \in [Known -> Modes] /\ pendingCommands \in [Known -> Commands]
    /\ sessionOrder \in Seq(Names)

\* The drawer lists each name of the service, once.
ListedOnce(order, names) ==
    /\ \A i \in DOMAIN order : order[i] \in names
    /\ \A name \in names : \E i \in DOMAIN order : order[i] = name
    /\ \A i, j \in DOMAIN order : order[i] = order[j] => i = j

\* A session runs what the service would run if it were restarted.
RunsAsKept ==
    \A name \in Known : shells[sessions[name]].runs = <<sessionList[name], pendingCommands[name]>>

\* The inductive invariant.
SessionInv == SessionTypeOK /\ ListedOnce(sessionOrder, Known) /\ RunsAsKept /\ currentSession \in Names

\* A list that names each of a set once has as many entries as the set has names.
LEMMA ListedIsCounted ==
  ASSUME NEW S, NEW order \in Seq(S), NEW names, ListedOnce(order, names)
  PROVE  Range(order) = names /\ Len(order) = Cardinality(names)
<1>1. Range(order) = names
  BY DEF Range, ListedOnce
<1>2. Len(order) \in Nat /\ DOMAIN order = 1 .. Len(order)
  OBVIOUS
<1>3. order \in Bijection(1 .. Len(order), names)
  BY <1>2 DEF Bijection, Injection, Surjection, ListedOnce, IsInjective
<1>4. IsFiniteSet(1 .. Len(order)) /\ Cardinality(1 .. Len(order)) = Len(order)
  BY <1>2, FS_Interval
<1>5. Cardinality(1 .. Len(order)) = Cardinality(names)
  BY <1>3, <1>4, FS_Bijection, Zenon DEF ExistsBijection
<1> QED
  BY <1>1, <1>4, <1>5

\* What is left of a sequence when its item j is taken out.
LEMMA WithoutItem ==
  ASSUME NEW S, NEW s \in Seq(S), NEW j \in DOMAIN s
  PROVE  LET r == SubSeq(s, 1, j - 1) \o SubSeq(s, j + 1, Len(s))
         IN  /\ r \in Seq(S)
             /\ DOMAIN r = 1 .. (Len(s) - 1)
             /\ \A k \in DOMAIN r : r[k] = s[IF k < j THEN k ELSE k + 1]
<1> DEFINE a == SubSeq(s, 1, j - 1)
           b == SubSeq(s, j + 1, Len(s))
<1>1. j \in 1 .. Len(s) /\ Len(s) \in Nat
  OBVIOUS
<1>2. /\ a \in Seq(S) /\ Len(a) = j - 1
      /\ \A k \in 1 .. (j - 1) : a[k] = s[k]
  BY <1>1
<1>3. /\ b \in Seq(S) /\ Len(b) = Len(s) - j
      /\ \A k \in 1 .. (Len(s) - j) : b[k] = s[k + j]
  BY <1>1
<1> HIDE DEF a, b
<1>4. /\ a \o b \in Seq(S) /\ Len(a \o b) = Len(s) - 1
      /\ \A k \in 1 .. (Len(s) - 1) : (a \o b)[k] = IF k < j THEN a[k] ELSE b[k - j + 1]
  BY <1>1, <1>2, <1>3
<1>5. ASSUME NEW k \in 1 .. (Len(s) - 1)
      PROVE  (a \o b)[k] = s[IF k < j THEN k ELSE k + 1]
  <2>1. CASE k < j
    BY <2>1, <1>1, <1>2, <1>4
  <2>2. CASE ~(k < j)
    <3>1. k - j + 1 \in 1 .. (Len(s) - j) /\ (k - j + 1) + j = k + 1
      BY <2>2, <1>1
    <3> QED
      BY <2>2, <3>1, <1>3, <1>4
  <2> QED
    BY <2>1, <2>2
<1>6. DOMAIN (a \o b) = 1 .. (Len(s) - 1)
  BY <1>4
<1> QED
  BY <1>4, <1>5, <1>6 DEF a, b

\* What the first occurrence of a name leaves of a list that has it once.
LEMMA RemovedOnce ==
  ASSUME NEW order \in Seq(Names), NEW names, ListedOnce(order, names), NEW name
  PROVE  RemoveFirst(order, name) \in Seq(Names) /\ ListedOnce(RemoveFirst(order, name), names \ {name})
<1>1. Len(order) \in Nat /\ DOMAIN order = 1 .. Len(order)
  OBVIOUS
<1>2. CASE name \notin names
  <2>1. ~ \E i \in 1 .. Len(order) : order[i] = name
    BY <1>1, <1>2 DEF ListedOnce
  <2>2. RemoveFirst(order, name) = order
    BY <2>1 DEF RemoveFirst
  <2> QED
    BY <1>2, <2>2 DEF ListedOnce
<1>3. CASE name \in names
  <2>1. PICK k \in 1 .. Len(order) : order[k] = name
    BY <1>1, <1>3 DEF ListedOnce
  <2>2. \A i \in 1 .. Len(order) : order[i] = name => i = k
    BY <1>1, <2>1 DEF ListedOnce
  <2>3. {i \in 1 .. Len(order) : order[i] = name} = {k}
    BY <2>1, <2>2
  <2>4. Min({k}) = k
    BY <2>1 DEF Min
  <2>5. RemoveFirst(order, name) = RemoveAt(order, k)
    BY <2>1, <2>3, <2>4 DEF RemoveFirst, SelectInSeq
  <2> DEFINE n == Len(order)
             less == RemoveAt(order, k)
  <2>6. /\ less \in Seq(Names) /\ DOMAIN less = 1 .. n - 1
        /\ \A i \in 1 .. n - 1 : less[i] = IF i < k THEN order[i] ELSE order[i + 1]
    <3>1. less = SubSeq(order, 1, k - 1) \o SubSeq(order, k + 1, Len(order))
      BY DEF RemoveAt
    <3> HIDE DEF less
    <3>2. /\ less \in Seq(Names) /\ DOMAIN less = 1 .. n - 1
          /\ \A i \in DOMAIN less : less[i] = order[IF i < k THEN i ELSE i + 1]
      BY <1>1, <2>1, <3>1, WithoutItem
    <3> QED
      BY <1>1, <2>1, <3>2
  <2> HIDE DEF less
  <2>7. DOMAIN less = 1 .. n - 1
    BY <1>1, <2>1, <2>6
  <2>8. \A i \in DOMAIN less : less[i] \in names \ {name}
    BY <1>1, <2>1, <2>2, <2>6, <2>7 DEF ListedOnce
  <2>9. ASSUME NEW m \in names \ {name}
        PROVE  \E i \in DOMAIN less : less[i] = m
    <3>1. PICK i \in 1 .. n : order[i] = m
      BY <1>1 DEF ListedOnce
    <3>2. i # k
      BY <2>1, <3>1
    <3>3. IF i < k THEN i \in 1 .. n - 1 /\ less[i] = m ELSE i - 1 \in 1 .. n - 1 /\ less[i - 1] = m
      BY <1>1, <2>1, <2>6, <3>1, <3>2
    <3> QED
      BY <2>7, <3>3
  <2>10. ASSUME NEW i \in DOMAIN less, NEW j \in DOMAIN less, less[i] = less[j]
         PROVE  i = j
    <3> DEFINE at1 == IF i < k THEN i ELSE i + 1
               at2 == IF j < k THEN j ELSE j + 1
    <3>1. at1 \in 1 .. n /\ at2 \in 1 .. n
      BY <1>1, <2>1, <2>7
    <3>2. order[at1] = order[at2]
      BY <2>6, <2>7, <2>10
    <3>3. at1 = at2
      BY <1>1, <3>1, <3>2 DEF ListedOnce
    <3> QED
      BY <1>1, <2>1, <2>7, <3>3
  <2> QED
    BY <2>5, <2>6, <2>8, <2>9, <2>10 DEF ListedOnce, less
<1> QED
  BY <1>2, <1>3

\* The shells that ended, and what all of them run.
LEMMA Finished ==
  ASSUME shells \in Seq(SessionShell), NEW ss
  PROVE  /\ Finish(ss) \in Seq(SessionShell) /\ DOMAIN Finish(ss) = DOMAIN shells
         /\ \A s \in DOMAIN shells : /\ Finish(ss)[s].runs = shells[s].runs
                                     /\ s \in ss => ~Finish(ss)[s].running
<1>1. Len(shells) \in Nat /\ DOMAIN shells = 1 .. Len(shells)
  OBVIOUS
<1>2. ASSUME NEW s \in DOMAIN shells
      PROVE  /\ Finish(ss)[s] \in SessionShell /\ Finish(ss)[s].runs = shells[s].runs
             /\ s \in ss => ~Finish(ss)[s].running
  <2>1. shells[s] \in SessionShell
    BY <1>1
  <2> QED
    BY <2>1 DEF Finish, SessionShell
<1>3. Finish(ss) \in [1 .. Len(shells) -> SessionShell]
  BY <1>1, <1>2 DEF Finish
<1> QED
  BY <1>1, <1>2, <1>3

\* The maps once a session was created: of its name they tell what it runs.
LEMMA CreateKeepsInv ==
  ASSUME SessionInv, NEW name \in Names, NEW mode \in Modes, NEW command \in Commands,
         Create(name, mode, command), currentSession' \in Names
  PROVE  SessionInv'
<1> DEFINE s == Len(shells) + 1
<1>1. /\ Len(shells) \in Nat /\ DOMAIN shells = 1 .. Len(shells)
      /\ shells' = Append(shells, [runs |-> <<mode, command>>, running |-> TRUE])
  BY DEF SessionInv, SessionTypeOK, Create
<1>2. /\ shells' \in Seq(SessionShell) /\ DOMAIN shells' = DOMAIN shells \cup {s}
      /\ shells'[s].runs = <<mode, command>> /\ \A i \in DOMAIN shells : shells'[i] = shells[i]
  <2>1. [runs |-> <<mode, command>>, running |-> TRUE] \in SessionShell
    BY DEF SessionShell
  <2> QED
    BY <1>1, <2>1 DEF SessionInv, SessionTypeOK
<1>3. /\ Known' = Known \cup {name}
      /\ sessions' = [n \in Known' |-> IF n = name THEN s ELSE sessions[n]]
      /\ sessionList' = [n \in Known' |-> IF n = name THEN mode ELSE sessionList[n]]
      /\ pendingCommands' = [n \in Known' |-> IF n = name THEN command ELSE pendingCommands[n]]
  BY DEF Create, With, SessionInv, SessionTypeOK, Known
<1> HIDE DEF s
<1>4. /\ sessions' \in [Known' -> DOMAIN shells']
      /\ sessionList' \in [Known' -> Modes] /\ pendingCommands' \in [Known' -> Commands]
  BY <1>2, <1>3 DEF SessionInv, SessionTypeOK
<1>5. RunsAsKept'
  BY <1>2, <1>3 DEF SessionInv, SessionTypeOK, RunsAsKept
<1>6. sessionOrder' \in Seq(Names) /\ ListedOnce(sessionOrder', Known')
  <2>1. sessionOrder \in Seq(Names) /\ ListedOnce(sessionOrder, Known)
    BY DEF SessionInv, SessionTypeOK
  <2>2. Range(sessionOrder) = Known
    BY <2>1, ListedIsCounted
  <2>3. CASE name \in Known
    BY <1>3, <2>1, <2>2, <2>3 DEF Create, ListedOnce
  <2>4. CASE name \notin Known
    <3>1. sessionOrder' = Append(sessionOrder, name)
      BY <2>2, <2>4 DEF Create
    <3> QED
      BY <1>3, <2>1, <2>4, <3>1 DEF ListedOnce
  <2> QED
    BY <2>3, <2>4
<1> QED
  BY <1>2, <1>4, <1>5, <1>6 DEF SessionInv, SessionTypeOK

\* The maps once shells have ended: they stay.
LEMMA EndsKeepInv ==
  ASSUME SessionInv, NEW ss, shells' = Finish(ss), UNCHANGED serviceMaps, currentSession' \in Names
  PROVE  SessionInv'
<1>1. /\ shells' \in Seq(SessionShell) /\ DOMAIN shells' = DOMAIN shells
      /\ \A s \in DOMAIN shells : shells'[s].runs = shells[s].runs
  BY Finished DEF SessionInv, SessionTypeOK
<1> QED
  BY <1>1 DEF SessionInv, SessionTypeOK, RunsAsKept, serviceMaps, Known

\* The maps once a session was terminated.
LEMMA TerminateKeepsInv ==
  ASSUME SessionInv, NEW name \in Names, Terminate(name), currentSession' \in Names
  PROVE  SessionInv'
<1>1. /\ shells' \in Seq(SessionShell) /\ DOMAIN shells' = DOMAIN shells
      /\ \A s \in DOMAIN shells : shells'[s].runs = shells[s].runs
  BY Finished DEF SessionInv, SessionTypeOK, Terminate
<1>2. /\ Known' = Known \ {name}
      /\ sessions' = [n \in Known' |-> sessions[n]]
      /\ sessionList' = [n \in Known' |-> sessionList[n]]
      /\ pendingCommands' = [n \in Known' |-> pendingCommands[n]]
  BY DEF Terminate, Without, Restrict, SessionInv, SessionTypeOK, Known
<1>3. sessionOrder' \in Seq(Names) /\ ListedOnce(sessionOrder', Known')
  <2>1. sessionOrder \in Seq(Names) /\ ListedOnce(sessionOrder, Known)
    BY DEF SessionInv, SessionTypeOK
  <2>2. sessionOrder' = RemoveFirst(sessionOrder, name)
    BY DEF Terminate
  <2> HIDE DEF Known
  <2> QED
    BY <1>2, <2>1, <2>2, RemovedOnce
<1> QED
  BY <1>1, <1>2, <1>3 DEF SessionInv, SessionTypeOK, RunsAsKept

\* The maps of a new service.
LEMMA DestroyKeepsInv == ASSUME SessionInv, Destroy, First \in Names PROVE SessionInv'
<1>1. shells' \in Seq(SessionShell)
  BY Finished DEF SessionInv, SessionTypeOK, Destroy
<1>2. /\ sessions' = Empty /\ sessionList' = Empty /\ pendingCommands' = Empty
      /\ DOMAIN Empty = {} /\ sessionOrder' = << >>
  BY DEF Destroy, Empty
<1> QED
  BY <1>1, <1>2 DEF SessionInv, SessionTypeOK, ListedOnce, RunsAsKept, Known, Destroy, Empty

\* A renamed session keeps its object, its mode, its command and its place.
LEMMA RenameKeepsInv ==
  ASSUME SessionInv, NEW old \in Names, NEW new \in Names, Rename(old, new)
  PROVE  SessionInv'
<1>1. old \in Known /\ new \notin Known /\ shells' = shells
  BY DEF Rename
<1>2. /\ Known' = (Known \ {old}) \cup {new}
      /\ sessions' = [n \in Known' |-> sessions[IF n = new THEN old ELSE n]]
      /\ sessionList' = [n \in Known' |-> sessionList[IF n = new THEN old ELSE n]]
      /\ pendingCommands' = [n \in Known' |-> pendingCommands[IF n = new THEN old ELSE n]]
  BY <1>1 DEF Rename, Moved, With, Without, Restrict, SessionInv, SessionTypeOK, Known
<1>3. \A n \in Known' : (IF n = new THEN old ELSE n) \in Known
  BY <1>1, <1>2
<1>4. /\ sessions' \in [Known' -> DOMAIN shells']
      /\ sessionList' \in [Known' -> Modes] /\ pendingCommands' \in [Known' -> Commands]
  BY <1>1, <1>2, <1>3 DEF SessionInv, SessionTypeOK
<1>5. RunsAsKept'
  BY <1>1, <1>2, <1>3 DEF SessionInv, RunsAsKept
<1>6. sessionOrder' \in Seq(Names) /\ ListedOnce(sessionOrder', Known')
  <2>1. sessionOrder \in Seq(Names) /\ ListedOnce(sessionOrder, Known)
    BY DEF SessionInv, SessionTypeOK
  <2>2. sessionOrder' = [i \in DOMAIN sessionOrder |-> IF sessionOrder[i] = old THEN new ELSE sessionOrder[i]]
    BY DEF Rename
  <2>3. DOMAIN sessionOrder = 1 .. Len(sessionOrder) /\ Len(sessionOrder) \in Nat
    BY <2>1
  <2>4. sessionOrder' \in [1 .. Len(sessionOrder) -> Names]
    BY <2>1, <2>2, <2>3
  <2>5. sessionOrder' \in Seq(Names) /\ DOMAIN sessionOrder' = DOMAIN sessionOrder
    BY <2>3, <2>4
  <2> HIDE DEF Known
  <2>6. ListedOnce(sessionOrder', Known')
    <3>1. \A i \in DOMAIN sessionOrder : sessionOrder'[i] \in Known'
      BY <1>2, <2>1, <2>2 DEF ListedOnce
    <3>2. ASSUME NEW n \in Known' PROVE \E i \in DOMAIN sessionOrder : sessionOrder'[i] = n
      <4>1. PICK i \in DOMAIN sessionOrder : sessionOrder[i] = IF n = new THEN old ELSE n
        BY <1>3, <2>1 DEF ListedOnce
      <4>2. sessionOrder'[i] = n
        BY <1>1, <1>2, <2>2, <4>1
      <4> QED
        BY <4>2
    <3>3. ASSUME NEW i \in DOMAIN sessionOrder, NEW j \in DOMAIN sessionOrder, sessionOrder'[i] = sessionOrder'[j]
          PROVE  i = j
      <4>1. sessionOrder[i] # new /\ sessionOrder[j] # new
        BY <1>1, <2>1 DEF ListedOnce
      <4>2. sessionOrder[i] = sessionOrder[j]
        BY <2>2, <3>3, <4>1
      <4> QED
        BY <2>1, <4>2 DEF ListedOnce
    <3> QED
      BY <2>5, <3>1, <3>2, <3>3 DEF ListedOnce
  <2> QED
    BY <2>5, <2>6
<1> QED
  BY <1>1, <1>4, <1>5, <1>6 DEF SessionInv, SessionTypeOK, Rename

\* Two names change places in the drawer.
LEMMA MoveKeepsInv == ASSUME SessionInv, NEW i \in DOMAIN sessionOrder, MoveDown(i) PROVE SessionInv'
<1>1. sessionOrder \in Seq(Names) /\ ListedOnce(sessionOrder, Known)
  BY DEF SessionInv, SessionTypeOK
<1>2. /\ Len(sessionOrder) \in Nat /\ DOMAIN sessionOrder = 1 .. Len(sessionOrder)
      /\ i \in DOMAIN sessionOrder /\ i + 1 \in DOMAIN sessionOrder /\ i # i + 1
  BY <1>1 DEF MoveDown
<1>3. sessionOrder' = [sessionOrder EXCEPT ![i] = sessionOrder[i + 1], ![i + 1] = sessionOrder[i]]
  BY DEF MoveDown
<1>4. sessionOrder' \in Seq(Names) /\ DOMAIN sessionOrder' = DOMAIN sessionOrder
  BY <1>1, <1>2, <1>3
<1> DEFINE from(j) == IF j = i THEN i + 1 ELSE IF j = i + 1 THEN i ELSE j
<1>5. \A j \in DOMAIN sessionOrder : /\ from(j) \in DOMAIN sessionOrder /\ from(from(j)) = j
                                    /\ sessionOrder'[j] = sessionOrder[from(j)]
  BY <1>1, <1>2, <1>3
<1> HIDE DEF from
<1>6. ListedOnce(sessionOrder', Known)
  <2>1. ASSUME NEW n \in Known PROVE \E j \in DOMAIN sessionOrder : sessionOrder'[j] = n
    <3>1. PICK j \in DOMAIN sessionOrder : sessionOrder[j] = n
      BY <1>1 DEF ListedOnce
    <3>2. from(j) \in DOMAIN sessionOrder /\ sessionOrder'[from(j)] = n
      BY <1>5, <3>1
    <3> QED
      BY <3>2
  <2>2. ASSUME NEW j \in DOMAIN sessionOrder, NEW k \in DOMAIN sessionOrder, sessionOrder'[j] = sessionOrder'[k]
        PROVE  j = k
    <3>1. from(j) = from(k)
      BY <1>1, <1>5, <2>2 DEF ListedOnce
    <3> QED
      BY <1>5, <3>1
  <2> QED
    BY <1>1, <1>4, <1>5, <2>1, <2>2 DEF ListedOnce
<1> QED
  BY <1>4, <1>6 DEF SessionInv, SessionTypeOK, RunsAsKept, MoveDown, Known

\* Nothing has been created when the application starts.
LEMMA SessionInitInv == SessionInit => SessionInv
<1> SUFFICES ASSUME SessionInit PROVE SessionInv
  OBVIOUS
<1>1. Known = {} /\ shells = << >> /\ sessionOrder = << >> /\ currentSession \in Names
  BY SessionNames DEF SessionInit, Known, Empty
<1>2. sessions \in [{} -> {}] /\ sessionList \in [{} -> Modes] /\ pendingCommands \in [{} -> Commands]
  BY DEF SessionInit, Empty
<1> QED
  BY <1>1, <1>2 DEF SessionInv, SessionTypeOK, ListedOnce, RunsAsKept

\* The invariant depends on what the service keeps, not on what is shown.
LEMMA MapsKept ==
  ASSUME SessionInv, UNCHANGED serviceMaps, UNCHANGED shells, currentSession' \in Names
  PROVE  SessionInv'
BY DEF SessionInv, SessionTypeOK, ListedOnce, RunsAsKept, serviceMaps, Known

\* The service and the activity come and go, and a shell ends.
LEMMA ServiceKeepsInv ==
  ASSUME SessionInv, StartAndBind \/ Unbind \/ ShowScreen \/ Exit \/ (\E s \in DOMAIN shells : ShellEnds(s))
  PROVE  SessionInv'
<1>1. currentSession \in Names /\ First \in Names
  BY SessionNames DEF SessionInv
<1>2. CASE StartAndBind
  BY <1>1, <1>2, MapsKept DEF StartAndBind
<1>3. CASE Unbind
  BY <1>1, <1>3, MapsKept, DestroyKeepsInv DEF Unbind
<1>4. CASE ShowScreen
  <2>1. currentSession' = currentSession
    BY <1>4 DEF ShowScreen
  <2>2. CASE UNCHANGED <<serviceMaps, shells>>
    BY <1>1, <2>1, <2>2, MapsKept
  <2>3. CASE \E mode \in Modes, command \in {None} \cup Customs : Create(currentSession, mode, command)
    <3>1. PICK mode \in Modes, command \in Commands : Create(currentSession, mode, command)
      BY <2>3 DEF Commands
    <3> QED
      BY <1>1, <2>1, <3>1, CreateKeepsInv
  <2> QED
    BY <1>4, <2>2, <2>3 DEF ShowScreen
<1>5. CASE Exit
  BY <1>1, <1>5, EndsKeepInv, DestroyKeepsInv DEF Exit
<1>6. CASE \E s \in DOMAIN shells : ShellEnds(s)
  BY <1>1, <1>6, EndsKeepInv DEF ShellEnds
<1> QED
  BY <1>2, <1>3, <1>4, <1>5, <1>6

\* A session is created and shown.
LEMMA CreateAndShowKeepsInv ==
  ASSUME SessionInv, NEW name \in Names, NEW mode \in Modes, NEW command \in Commands,
         CreateAndShow(name, mode, command)
  PROVE  SessionInv'
BY CreateKeepsInv DEF CreateAndShow

\* What the user does on the screens.
LEMMA ScreensKeepInv ==
  ASSUME SessionInv,
         \/ \E name \in Range(Mains), mode \in Modes : NewSession(name, mode) \/ RunScript(name, mode)
         \/ \E custom \in Customs : NewCustom(custom)
         \/ \E name \in Names : Select(name) \/ Delete(name)
         \/ Close \/ Switch \/ EnterKey
  PROVE  SessionInv'
<1>1. currentSession \in Names /\ Known \subseteq Names /\ Range(Mains) \subseteq Names /\ Customs \subseteq Names
  BY SessionNames DEF SessionInv, SessionTypeOK, ListedOnce
<1>2. CASE \E name \in Range(Mains), mode \in Modes : NewSession(name, mode) \/ RunScript(name, mode)
  <2>1. PICK name \in Range(Mains), mode \in Modes : NewSession(name, mode) \/ RunScript(name, mode)
    BY <1>2
  <2>2. PICK command \in Commands : CreateAndShow(name, mode, command)
    BY <2>1 DEF NewSession, RunScript, Commands
  <2> QED
    BY <1>1, <2>2, CreateAndShowKeepsInv
<1>3. CASE \E custom \in Customs : NewCustom(custom)
  <2>1. PICK custom \in Customs : CreateAndShow(custom, Ubuntu, custom)
    BY <1>3 DEF NewCustom
  <2>2. custom \in Names /\ custom \in Commands /\ Ubuntu \in Modes
    BY <1>1 DEF Commands, Modes
  <2> QED
    BY <2>1, <2>2, CreateAndShowKeepsInv
<1>4. CASE \E name \in Names : Select(name) \/ Delete(name)
  <2>1. PICK name \in Names : Select(name) \/ Delete(name)
    BY <1>4
  <2>2. CASE Select(name)
    BY <2>2, MapsKept DEF Select, Show
  <2>3. CASE Delete(name)
    BY <1>1, <2>3, TerminateKeepsInv DEF Delete
  <2> QED
    BY <2>1, <2>2, <2>3
<1>5. CASE Close
  <2>1. currentSession' \in Names
    BY <1>1, <1>5 DEF Close, Show
  <2> QED
    BY <1>1, <1>5, <2>1, TerminateKeepsInv DEF Close
<1>6. CASE Switch
  <2>1. currentSession' \in Names
    BY <1>1, <1>6 DEF Switch, Show
  <2> QED
    BY <1>6, <2>1, MapsKept DEF Switch
<1>7. CASE EnterKey
  <2>1. CASE Terminate(currentSession) /\ \E next \in Known \ {currentSession} : Show(next)
    <3>1. currentSession' \in Names
      BY <1>1, <2>1 DEF Show
    <3> QED
      BY <1>1, <2>1, <3>1, TerminateKeepsInv
  <2>2. CASE /\ Restartable(currentSession)
             /\ CreateAndShow(currentSession, sessionList[currentSession], pendingCommands[currentSession])
    <3>1. sessionList[currentSession] \in Modes /\ pendingCommands[currentSession] \in Commands
      BY <2>2 DEF SessionInv, SessionTypeOK, Restartable
    <3> QED
      BY <1>1, <2>2, <3>1, CreateAndShowKeepsInv
  <2>3. CASE Show(currentSession) /\ UNCHANGED <<serviceMaps, shells, bound, started>>
    BY <1>1, <2>3, MapsKept DEF Show
  <2> QED
    BY <1>7, <2>1, <2>2, <2>3 DEF EnterKey
<1> QED
  BY <1>2, <1>3, <1>4, <1>5, <1>6, <1>7

LEMMA SessionStepInv == SessionInv /\ [SessionNext]_sessionVars => SessionInv'
<1> SUFFICES ASSUME SessionInv, [SessionNext]_sessionVars PROVE SessionInv'
  OBVIOUS
<1>1. CASE \E old, new \in Names : Rename(old, new)
  BY <1>1, RenameKeepsInv
<1>2. CASE \E i \in DOMAIN sessionOrder : MoveDown(i)
  BY <1>2, MoveKeepsInv
<1>3. CASE UNCHANGED sessionVars
  BY <1>3, MapsKept DEF sessionVars, serviceMaps, SessionInv
<1> QED
  BY <1>1, <1>2, <1>3, ServiceKeepsInv, ScreensKeepInv DEF SessionNext

\* What ShellsKept says of one step.
ShellStays(s) ==
    \/ s \in Range(sessions') \/ ~shells'[s].running
    \/ \E custom \in Customs \cap Known : sessions[custom] = s /\ NewCustom(custom)

\* A new session only takes the place of one that has ended, but for a custom one.
LEMMA CreateKeepsShells ==
  ASSUME SessionInv, NEW name \in Names, NEW mode \in Modes, NEW command \in Commands,
         Create(name, mode, command), NEW s \in Range(sessions),
         \/ name \notin Known \/ ~RunningShells(sessions[name])
         \/ name \in Customs /\ NewCustom(name)
  PROVE  ShellStays(s)
<1>1. PICK n \in Known : sessions[n] = s
  BY DEF Range, Known
<1>2. sessions' = [m \in Known \cup {name} |-> IF m = name THEN Len(shells) + 1 ELSE sessions[m]]
  BY DEF Create, With, Known
<1>3. CASE n # name
  BY <1>1, <1>2, <1>3 DEF ShellStays, Range
<1>4. CASE n = name
  <2>1. s \in DOMAIN shells /\ shells \in Seq(SessionShell)
    BY <1>1 DEF SessionInv, SessionTypeOK
  <2>2. shells'[s] = shells[s]
    BY <2>1 DEF Create
  <2> QED
    BY <1>1, <1>4, <2>2 DEF ShellStays, RunningShells
<1> QED
  BY <1>3, <1>4

\* The session that is terminated is ended, and the others stay.
LEMMA TerminateKeepsShells ==
  ASSUME SessionInv, NEW name, Terminate(name), NEW s \in Range(sessions)
  PROVE  ShellStays(s)
<1>1. PICK n \in Known : sessions[n] = s
  BY DEF Range, Known
<1>2. sessions' = [m \in Known \ {name} |-> sessions[m]]
  BY DEF Terminate, Without, Restrict, Known
<1>3. CASE n # name
  <2>1. n \in DOMAIN sessions' /\ sessions'[n] = s
    BY <1>1, <1>2, <1>3
  <2> QED
    BY <2>1 DEF ShellStays, Range
<1>4. CASE n = name
  <2>1. s \in DOMAIN shells /\ shells \in Seq(SessionShell)
    BY <1>1 DEF SessionInv, SessionTypeOK
  <2>2. shells' = Finish({s})
    BY <1>1, <1>4 DEF Terminate
  <2> QED
    BY <2>1, <2>2, Finished DEF ShellStays
<1> QED
  BY <1>3, <1>4

\* A service that ends, ends its shells.
LEMMA DestroyKeepsShells ==
  ASSUME SessionInv, shells' = Finish(Range(sessions)), NEW s \in Range(sessions)
  PROVE  ShellStays(s)
<1>1. s \in DOMAIN shells /\ shells \in Seq(SessionShell)
  BY DEF SessionInv, SessionTypeOK, Range, Known
<1> QED
  BY <1>1, Finished DEF ShellStays

\* A rename keeps the objects.
LEMMA RenameKeepsShells ==
  ASSUME SessionInv, NEW old, NEW new, Rename(old, new), NEW s \in Range(sessions)
  PROVE  ShellStays(s)
<1>1. PICK n \in Known : sessions[n] = s
  BY DEF Range, Known
<1>2. /\ old \in Known /\ new \notin Known
      /\ sessions' = [m \in (Known \ {old}) \cup {new} |-> IF m = new THEN sessions[old] ELSE sessions[m]]
  BY DEF Rename, Moved, With, Without, Restrict, Known
<1> DEFINE m == IF n = old THEN new ELSE n
<1>3. m \in DOMAIN sessions' /\ sessions'[m] = s
  BY <1>1, <1>2
<1> QED
  BY <1>3 DEF ShellStays, Range

LEMMA StepKeepsShells ==
  ASSUME SessionInv, [SessionNext]_sessionVars, NEW s \in Range(sessions)
  PROVE  ShellStays(s)
<1>1. currentSession \in Names /\ Range(Mains) \subseteq Names /\ Customs \subseteq Names
  BY SessionNames DEF SessionInv
<1>2. sessions' = sessions => ShellStays(s)
  BY DEF ShellStays
<1>3. CASE UNCHANGED serviceMaps
  BY <1>2, <1>3 DEF serviceMaps
<1>4. CASE Unbind \/ Exit
  BY <1>2, <1>4, DestroyKeepsShells DEF Unbind, Exit, Destroy, serviceMaps
<1>5. CASE ShowScreen
  <2>1. CASE UNCHANGED <<serviceMaps, shells>>
    BY <1>3, <2>1
  <2>2. CASE /\ currentSession \notin Known
             /\ \E mode \in Modes, command \in {None} \cup Customs : Create(currentSession, mode, command)
    <3>1. PICK mode \in Modes, command \in Commands : Create(currentSession, mode, command)
      BY <2>2 DEF Commands
    <3> QED
      BY <1>1, <2>2, <3>1, CreateKeepsShells
  <2> QED
    BY <1>5, <2>1, <2>2 DEF ShowScreen
<1>6. CASE \E name \in Range(Mains), mode \in Modes : NewSession(name, mode) \/ RunScript(name, mode)
  <2>1. PICK name \in Range(Mains), mode \in Modes : NewSession(name, mode) \/ RunScript(name, mode)
    BY <1>6
  <2>2. PICK command \in Commands : Create(name, mode, command)
    BY <2>1 DEF NewSession, RunScript, CreateAndShow, Commands
  <2>3. name \notin Known
    BY <2>1 DEF NewSession, RunScript, Unique, SessionInv, SessionTypeOK
  <2> QED
    BY <1>1, <2>2, <2>3, CreateKeepsShells
<1>7. CASE \E custom \in Customs : NewCustom(custom)
  <2>1. PICK custom \in Customs : NewCustom(custom) /\ Create(custom, Ubuntu, custom)
    BY <1>7 DEF NewCustom, CreateAndShow
  <2>2. custom \in Names /\ custom \in Commands /\ Ubuntu \in Modes
    BY <1>1 DEF Commands, Modes
  <2> QED
    BY <2>1, <2>2, CreateKeepsShells
<1>8. CASE \E name \in Names : Select(name) \/ Delete(name)
  BY <1>3, <1>8, TerminateKeepsShells DEF Select, Delete
<1>9. CASE Close \/ Switch
  BY <1>3, <1>9, TerminateKeepsShells DEF Close, Switch
<1>10. CASE EnterKey
  <2>1. CASE Terminate(currentSession)
    BY <2>1, TerminateKeepsShells
  <2>2. CASE /\ Restartable(currentSession)
             /\ CreateAndShow(currentSession, sessionList[currentSession], pendingCommands[currentSession])
    <3>1. sessionList[currentSession] \in Modes /\ pendingCommands[currentSession] \in Commands
      BY <2>2 DEF SessionInv, SessionTypeOK, Restartable
    <3> QED
      BY <1>1, <2>2, <3>1, CreateKeepsShells DEF CreateAndShow, Restartable
  <2>3. CASE UNCHANGED <<serviceMaps, shells, bound, started>>
    BY <1>3, <2>3
  <2> QED
    BY <1>10, <2>1, <2>2, <2>3 DEF EnterKey
<1>11. CASE \E old, new \in Names : Rename(old, new)
  BY <1>11, RenameKeepsShells
<1>12. CASE \E i \in DOMAIN sessionOrder : MoveDown(i)
  BY <1>2, <1>12 DEF MoveDown
<1>13. CASE StartAndBind \/ (\E i \in DOMAIN shells : ShellEnds(i)) \/ UNCHANGED sessionVars
  BY <1>3, <1>13 DEF StartAndBind, ShellEnds, sessionVars, serviceMaps
<1> QED
  BY <1>4, <1>5, <1>6, <1>7, <1>8, <1>9, <1>10, <1>11, <1>12, <1>13 DEF SessionNext

(***************************************************************************)
(* Create, rename, sort, close, restart, and the end of the service or of  *)
(* a shell, in any order (SessionService.kt, TerminalBackEnd.kt): the       *)
(* three maps and the order name the same sessions, each runs what it      *)
(* would be restarted with, and no handler loses a shell that runs but     *)
(* onCreateCustomSession, where another session has the name.              *)
(***************************************************************************)
THEOREM SessionsAlwaysKept == SessionSpec => SessionsKept
<1>1. SessionInit => SessionInv
  BY SessionInitInv
<1>2. SessionInv /\ [SessionNext]_sessionVars => SessionInv'
  BY SessionStepInv
<1>3. SessionInv => RestartsTheSame
  <2> SUFFICES ASSUME SessionInv PROVE RestartsTheSame
    OBVIOUS
  <2>1. Range(sessionOrder) = Known /\ Len(sessionOrder) = Cardinality(Known)
    BY ListedIsCounted DEF SessionInv, SessionTypeOK
  <2> QED
    BY <2>1 DEF SessionInv, RunsAsKept, RestartsTheSame
<1>4. SessionInv /\ [SessionNext]_sessionVars =>
        [\A s \in Range(sessions) :
            s \in Range(sessions') \/ ~shells'[s].running
            \/ \E custom \in Customs \cap Known : sessions[custom] = s /\ NewCustom(custom)]_sessionVars
  BY StepKeepsShells DEF ShellStays
<1> QED
  BY <1>1, <1>2, <1>3, <1>4, PTL DEF SessionSpec, SessionsKept, ShellsKept
============================================================================

---------------------------- MODULE RootfsSetup ----------------------------
(***************************************************************************)
(* The set-up of the Ubuntu root file system: the archive is copied out of *)
(* the application (SetupScreen), and every session runs init-host.sh,     *)
(* which extracts it and installs the certificates, both under one lock,   *)
(* before it starts the guest.  A file descriptor holds the lock: the      *)
(* subshell's, and its copies in PRoot and tar or dpkg, which go on when   *)
(* the subshell is killed.                                                 *)
(***************************************************************************)
EXTENDS Naturals, FiniteSets

CONSTANT Shells     \* the sessions; one that ended may be started again

VARIABLES
    archive,    \* files/ubuntu.tar.gz: "none", "part" (its .part) or "whole"
    at,         \* session -> where its script is
    tool,       \* session -> "none", or "tar" or "dpkg": what it started still runs
    tree,       \* $UBUNTU_DIR: "none", "partial" or "whole"
    ready,      \* .rootfs-ready exists
    bundle,     \* the certificates' bundle is there and not empty
    installed,  \* dpkg-query says the package is installed
    certsReady  \* .reterminal-ca-...-ready exists

rootfsVars == <<archive, at, tool, tree, ready, bundle, installed, certsReady>>
certVars == <<bundle, installed, certsReady>>

Ended == {"new", "failed", "killed"}
Locked == {"check", "tar", "mark", "query", "dpkg", "verify"}

To(s, place) == at' = [at EXCEPT ![s] = place]
Runs(s, what) == tool' = [tool EXCEPT ![s] = what]

\* Mutant of LockFree: PRoot and tar do not inherit the descriptor.
MutLockFree == \A s \in Shells : at[s] \notin Locked

\* No process has the locked descriptor open.
LockFree == \A s \in Shells : at[s] \notin Locked /\ tool[s] = "none"

----------------------------------------------------------------------------
(* The application. *)

\* The assets' archive is copied to a temporary file, renamed once it is whole.
CopyArchive ==
    /\ archive # "whole"
    /\ archive' \in {"part", "whole"}
    /\ UNCHANGED <<at, tool, tree, ready, certVars>>

\* Rootfs.isInstalled lets a session start, whose script first waits for the lock.
StartSession(s) ==
    /\ archive = "whole" \/ ready
    /\ at[s] \in Ended /\ tool[s] = "none"
    /\ To(s, "lock")
    /\ UNCHANGED <<archive, tool, tree, ready, certVars>>

\* The session's shells are killed; what they started may live on.
KillSession(s) ==
    /\ at[s] \notin Ended
    /\ To(s, "killed")
    /\ UNCHANGED <<archive, tool, tree, ready, certVars>>

----------------------------------------------------------------------------
(* The script's first half: the tree. *)

Lock(s) ==
    /\ \/ at[s] = "lock"       /\ LockFree /\ To(s, "check")
       \/ at[s] = "certs lock" /\ LockFree /\ To(s, "query")
       \/ at[s] = "lock"       /\ To(s, "failed")     \* flock fails: exit 1
       \/ at[s] = "certs lock" /\ To(s, "guest")      \* here without certificates
    /\ UNCHANGED <<archive, tool, tree, ready, certVars>>

Extract(s) ==
    /\ at[s] = "check"
    /\ IF ready THEN To(s, "certs lock") /\ UNCHANGED <<tool, tree>>
                ELSE To(s, "tar") /\ Runs(s, "tar") /\ tree' = "partial"
    /\ UNCHANGED <<archive, ready, certVars>>

\* tar ends, or dies with its PRoot; a subshell that is alive sees how.
TarEnds(s) ==
    /\ tool[s] = "tar"
    /\ Runs(s, "none")
    /\ \E ok \in BOOLEAN :
          /\ tree' = IF ok THEN "whole" ELSE "partial"
          /\ IF at[s] = "tar" THEN To(s, IF ok THEN "mark" ELSE "failed") ELSE UNCHANGED at
    /\ UNCHANGED <<archive, ready, certVars>>

Mark(s) ==
    /\ at[s] = "mark"
    /\ \/ ready' = TRUE /\ To(s, "certs lock")
       \/ ready' = ready /\ To(s, "failed")
    /\ UNCHANGED <<archive, tool, tree, certVars>>

----------------------------------------------------------------------------
(* The second half: the certificates; the guest starts whatever becomes of them. *)

QueryCerts(s) ==
    /\ at[s] = "query"
    /\ \/ certsReady /\ bundle /\ To(s, "guest") /\ UNCHANGED <<tool, certsReady>>
       \/ /\ ~ (certsReady /\ bundle) /\ bundle /\ installed
          /\ certsReady' = TRUE /\ To(s, "guest") /\ UNCHANGED tool
       \/ /\ ~ (bundle /\ installed) /\ ~ (certsReady /\ bundle)
          /\ To(s, "dpkg") /\ Runs(s, "dpkg") /\ UNCHANGED certsReady
    /\ UNCHANGED <<archive, tree, ready, bundle, installed>>

\* dpkg ends; interrupted, it leaves the package and the bundle in any state.
DpkgEnds(s) ==
    /\ tool[s] = "dpkg"
    /\ Runs(s, "none")
    /\ bundle' \in BOOLEAN /\ installed' \in BOOLEAN
    /\ IF at[s] = "dpkg" THEN To(s, IF installed' THEN "verify" ELSE "guest") ELSE UNCHANGED at
    /\ UNCHANGED <<archive, tree, ready, certsReady>>

VerifyCerts(s) ==
    /\ at[s] = "verify"
    /\ certsReady' = (certsReady \/ bundle)
    /\ To(s, "guest")
    /\ UNCHANGED <<archive, tool, tree, ready, bundle, installed>>

\* The guest removes the package or its bundle.
GuestRemoves(s) ==
    /\ at[s] = "guest"
    /\ bundle' = FALSE /\ installed' \in {installed, FALSE}
    /\ UNCHANGED <<archive, at, tool, tree, ready, certsReady>>

----------------------------------------------------------------------------
RootfsInit ==
    /\ archive = "none" /\ tree = "none" /\ ready = FALSE
    /\ at = [s \in Shells |-> "new"] /\ tool = [s \in Shells |-> "none"]
    /\ bundle = FALSE /\ installed = FALSE /\ certsReady = FALSE

RootfsNext ==
    \/ CopyArchive
    \/ \E s \in Shells :
          \/ StartSession(s) \/ KillSession(s) \/ Lock(s) \/ Extract(s) \/ TarEnds(s)
          \/ Mark(s) \/ QueryCerts(s) \/ DpkgEnds(s) \/ VerifyCerts(s) \/ GuestRemoves(s)

RootfsSpec == RootfsInit /\ [][RootfsNext]_rootfsVars

----------------------------------------------------------------------------
\* INVARIANT RootfsWhole.  "All sessions share this lock; closing the descriptors
\* releases it even after a crash" (init-host.sh:3): whichever shells are killed,
\* with what they started or without, one tar or dpkg at a time writes the tree;
\* and a tree that is marked ready, or that a guest runs on, is whole.
RootfsWhole ==
    /\ Cardinality({s \in Shells : tool[s] # "none"}) <= 1
    /\ (ready \/ \E s \in Shells : at[s] = "guest") => tree = "whole"
============================================================================

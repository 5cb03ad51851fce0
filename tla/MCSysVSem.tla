------------------------------- MODULE MCSysVSem -------------------------------
(***************************************************************************)
(* Instances of SysVSem for TLC.                                           *)
(***************************************************************************)
EXTENDS SysVSem, TLC

MCSymmetry == Permutations(Tracees)

P(k) == [num |-> k, op |-> -1, nowait |-> FALSE]   \* decrement
V(k) == [num |-> k, op |-> 1,  nowait |-> FALSE]   \* increment
Z(k) == [num |-> k, op |-> 0,  nowait |-> FALSE]   \* wait for zero
Try(o) == [o EXCEPT !.nowait = TRUE]               \* IPC_NOWAIT

\* Two decrements at once, a conditional one after a change, increments that
\* free one or two waiters, a wait for zero.
MCOpSeqs == { <<P(1), P(0)>>, <<V(0), Try(P(1))>>, <<V(1), V(0)>>, <<Z(0)>> }
MCResults == {"none", "wait", "ok", "error", "EIDRM", "EINTR"}
================================================================================

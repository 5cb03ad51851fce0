------------------------------- MODULE MCSysVMsg -------------------------------
(***************************************************************************)
(* Instances of SysVMsg for TLC.                                           *)
(***************************************************************************)
EXTENDS SysVMsg, TLC

MCSymmetry == Permutations(Tracees)

MCResults == {"none", "ok", "error", "EAGAIN", "EIDRM", "EINTR"}

First      == [NoArgs EXCEPT !.size = 2]              \* msgrcv of the first message
OfType1  == [First EXCEPT !.typ = 1]
UpTo2    == [First EXCEPT !.typ = -2, !.size = 1]     \* a buffer that may be too small
NotType1 == [OfType1 EXCEPT !.except = TRUE, !.noerror = TRUE, !.size = 1]
Peek     == [First EXCEPT !.copy = TRUE, !.nowait = TRUE]

MCKinds == {[type |-> 1, size |-> 1], [type |-> 2, size |-> 2]}
MCRecvArgs == {First, UpTo2, NotType1, Peek}
================================================================================

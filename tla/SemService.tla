-------------------------------- MODULE SemService --------------------------------
(***************************************************************************)
(* What a semaphore service promises its callers, with no wait mechanism,  *)
(* no entry paths and no loop over waiters: the operations of a call are   *)
(* applied all at once or not at all, they are applied exactly when the    *)
(* call returns "ok", and a set that is removed fails all calls blocked on *)
(* it.  A call is blocked on a slot, done with a result that its caller    *)
(* has not seen yet, or returned.  SysVSem is shown to implement it.       *)
(***************************************************************************)
EXTENDS Integers, Sequences

CONSTANTS Callers, Sizes, OpSeqs, MaxSemval

VARIABLES
  sets,    \* slots: NoSet, or the values of a live set
  call     \* per caller: [phase, set, ops, result]

specVars == <<sets, call>>

NoSet == <<>>
Idle(r)        == [phase |-> "idle",    set |-> 0, ops |-> <<>>, result |-> r]
Done(r)        == [phase |-> "done",    set |-> 0, ops |-> <<>>, result |-> r]
Blocked(i, ops) == [phase |-> "blocked", set |-> i, ops |-> ops,  result |-> "none"]

Init ==
  /\ sets = <<>>
  /\ call = [c \in Callers |-> Idle("none")]

Live(i) == i \in DOMAIN sets /\ sets[i] # NoSet

\* A call of c that ends now: its caller may see the result at once or later.
Ends(c, r) == \E d \in {Idle(r), Done(r)} : call' = [call EXCEPT ![c] = d]

\* c may perform ops on set i now: it calls semop, or it is blocked in it.
Requests(c, i, ops) ==
  /\ Live(i) /\ \A n \in DOMAIN ops : ops[n].num \in DOMAIN sets[i]
  /\ call[c].phase = "idle" \/ call[c] = Blocked(i, ops)

\* The values after the first n operations.
Partial(ops, vals) ==
  LET p[n \in 0 .. Len(ops)] ==
        IF n = 0 THEN vals ELSE [p[n - 1] EXCEPT ![ops[n].num] = @ + ops[n].op]
  IN p

Possible(ops, vals) ==
  \A n \in 1 .. Len(ops) :
    /\ Partial(ops, vals)[n][ops[n].num] \in 0 .. MaxSemval
    /\ ops[n].op = 0 => Partial(ops, vals)[n - 1][ops[n].num] = 0

\* All of ops, in one step, with result "ok".
Perform(c, i, ops) ==
  /\ Requests(c, i, ops)
  /\ Ends(c, "ok")
  /\ Possible(ops, sets[i])
  /\ sets' = [sets EXCEPT ![i] = Partial(ops, sets[i])[Len(ops)]]

\* None of ops: they cannot be performed, and the call blocks or fails.
Block(c, i, ops) ==
  /\ Requests(c, i, ops)
  /\ call' = [call EXCEPT ![c] = Blocked(i, ops)]
  /\ ~Possible(ops, sets[i])
  /\ UNCHANGED sets

Refuse(c, i, ops) ==
  /\ Requests(c, i, ops)
  /\ Ends(c, "error")
  /\ ~Possible(ops, sets[i])
  /\ UNCHANGED sets

\* A signal or a timeout ends a blocked call.
Interrupt(c) ==
  /\ call[c].phase = "blocked"
  /\ call' = [call EXCEPT ![c] = Idle("EINTR")]
  /\ UNCHANGED sets

\* A set is created, with zeroes, or one value is set.
Create(c, n) ==
  /\ call[c].phase = "idle"
  /\ \/ sets' = Append(sets, [k \in 0 .. n - 1 |-> 0])
     \/ \E i \in DOMAIN sets : ~Live(i) /\ sets' = [sets EXCEPT ![i] = [k \in 0 .. n - 1 |-> 0]]
  /\ Ends(c, "ok")

Set(c, i, k, v) ==
  /\ call[c].phase = "idle" /\ Live(i) /\ k \in DOMAIN sets[i]
  /\ sets' = [sets EXCEPT ![i][k] = v]
  /\ Ends(c, "ok")

\* A set is removed: every call blocked on it fails with EIDRM.
Remove(c, i) ==
  /\ call[c].phase = "idle" /\ Live(i)
  /\ sets' = [sets EXCEPT ![i] = NoSet]
  /\ \E d \in {Idle("ok"), Done("ok")} :
       call' = [b \in Callers |-> IF b = c THEN d
                                  ELSE IF call[b].phase = "blocked" /\ call[b].set = i
                                  THEN Done("EIDRM") ELSE call[b]]

\* A call that changes nothing.
Other(c) ==
  /\ call[c].phase = "idle"
  /\ \E r \in {"ok", "error"} : Ends(c, r)
  /\ UNCHANGED sets

\* The caller sees the result.
Return(c) ==
  /\ call[c].phase = "done"
  /\ call' = [call EXCEPT ![c] = Idle(call[c].result)]
  /\ UNCHANGED sets

\* A caller is gone, with whatever it was doing.
Leave(c) ==
  /\ call' = [call EXCEPT ![c] = [Idle("none") EXCEPT !.phase = "gone"]]
  /\ UNCHANGED sets

Next ==
  \E c \in Callers :
    \/ \E i \in DOMAIN sets :
         \/ \E ops \in OpSeqs : Perform(c, i, ops) \/ Block(c, i, ops) \/ Refuse(c, i, ops)
         \/ Remove(c, i)
         \/ \E k \in DOMAIN sets[i], v \in 0 .. MaxSemval : Set(c, i, k, v)
    \/ \E n \in Sizes : Create(c, n)
    \/ Interrupt(c) \/ Other(c) \/ Return(c) \/ Leave(c)

Spec == Init /\ [][Next]_specVars
================================================================================

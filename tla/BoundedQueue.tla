---------------------------- MODULE BoundedQueue ----------------------------
(***************************************************************************)
(* What TransactionQueue promises its callers: one bounded queue on which  *)
(* every call takes effect at one instant between its start and its end.   *)
(***************************************************************************)
EXTENDS Naturals, Sequences

CONSTANTS Threads, Values, MaxSize

VARIABLES
  q,      \* the values queued
  stage,  \* stage[t]: "idle", "called" or "done"
  op,     \* op[t]: the operation t calls
  arg,    \* arg[t]: what it pushes
  ret     \* ret[t]: what it popped, as a set

vars == <<q, stage, op, arg, ret>>

Init ==
  /\ q = << >>
  /\ stage = [t \in Threads |-> "idle"]
  /\ op \in [Threads -> {"push", "pop"}]
  /\ arg \in [Threads -> Values]
  /\ ret = [t \in Threads |-> {}]

Move(t, from, to) ==
  /\ stage[t] = from
  /\ stage' = [stage EXCEPT ![t] = to]

Begin(t) ==
  /\ Move(t, "idle", "called")
  /\ \E o \in {"push", "pop"} : op' = [op EXCEPT ![t] = o]
  /\ \E v \in Values : arg' = [arg EXCEPT ![t] = v]
  /\ UNCHANGED <<q, ret>>

Push(t) ==
  /\ op[t] = "push" /\ Move(t, "called", "done")
  /\ Len(q) < MaxSize
  /\ q' = Append(q, arg[t])
  /\ UNCHANGED <<op, arg, ret>>

Pop(t) ==
  /\ op[t] = "pop" /\ Move(t, "called", "done")
  /\ q # << >>
  /\ q' = Tail(q)
  /\ ret' = [ret EXCEPT ![t] = {Head(q)}]
  /\ UNCHANGED <<op, arg>>

End(t) == Move(t, "done", "idle") /\ UNCHANGED <<q, op, arg, ret>>

Next == \E t \in Threads : Begin(t) \/ Push(t) \/ Pop(t) \/ End(t)

Spec == Init /\ [][Next]_vars
=============================================================================

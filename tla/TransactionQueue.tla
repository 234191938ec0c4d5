-------------------------- MODULE TransactionQueue --------------------------
(***************************************************************************)
(* The blocking queue of the computation container,                        *)
(* TransactionQueue/TransactionQueue.hpp: a std::queue under one mutex,    *)
(* with a condition variable for the callers that found it empty and one   *)
(* for those that found it full.  A wait releases the mutex and blocks in  *)
(* one step, and may end without a notification.                           *)
(***************************************************************************)
EXTENDS Naturals, Sequences

CONSTANTS Threads,
          Values,
          OpsOf,    \* OpsOf[t]: the operations t calls
          MaxSize   \* max_size

ASSUME QueueAssumption ==
  /\ MaxSize \in Nat
  /\ OpsOf \in [Threads -> SUBSET {"push", "pop"}]

VARIABLES
  q,     \* the queue
  mtx,   \* the thread that has the mutex, as a set
  at,    \* at[t], where t is: "idle", "lock", "body", "q_empty", "q_max" or "done"
  op,    \* op[t]: the operation t calls
  arg,   \* arg[t]: what it pushes
  ret    \* ret[t]: what it popped, as a set

queueVars == <<q, mtx, at, op, arg, ret>>

QueueTypeOK ==
  /\ q \in Seq(Values)
  /\ mtx \subseteq Threads
  /\ at \in [Threads -> {"idle", "lock", "body", "q_empty", "q_max", "done"}]
  /\ op \in [Threads -> {"push", "pop"}]
  /\ arg \in [Threads -> Values]
  /\ ret \in [Threads -> SUBSET Values]

QueueInit ==
  /\ q = << >> /\ mtx = {}
  /\ at = [t \in Threads |-> "idle"]
  /\ op = [t \in Threads |-> "pop"]
  /\ \E v \in Values : arg = [t \in Threads |-> v]
  /\ ret = [t \in Threads |-> {}]

Goto(t, label) == at' = [at EXCEPT ![t] = label]

Call(t) ==
  /\ at[t] = "idle"
  /\ \E o \in OpsOf[t] : op' = [op EXCEPT ![t] = o]
  /\ \E v \in Values : arg' = [arg EXCEPT ![t] = v]
  /\ Goto(t, "lock")
  /\ UNCHANGED <<q, mtx, ret>>

\* std::unique_lock, and the way back into the mutex of a wait that has ended.
Lock(t) ==
  /\ at[t] = "lock" /\ mtx = {}
  /\ mtx' = {t}
  /\ Goto(t, "body")
  /\ UNCHANGED <<q, op, arg, ret>>

\* Mutant: notify_one in place of notify_all.
NotifyOneAndReturn(t, cv) ==
  /\ \E u \in Threads :
       /\ at[u] = cv \/ \A w \in Threads : at[w] # cv
       /\ at' = [w \in Threads |-> IF w = t THEN "done"
                                   ELSE IF w = u /\ at[u] = cv THEN "lock" ELSE at[w]]
  /\ mtx' = {}

\* Mutant: the notification is forgotten.
ReturnSilently(t, cv) ==
  /\ Goto(t, "done")
  /\ mtx' = {}

\* notify_all(cv): every thread blocked on cv goes for the mutex; t returns and
\* its lock guard releases the mutex.
NotifyAllAndReturn(t, cv) ==
  /\ at' = [u \in Threads |-> IF u = t THEN "done"
                              ELSE IF at[u] = cv THEN "lock" ELSE at[u]]
  /\ mtx' = {}

\* cv.wait(lk), the predicate being false.
Wait(t, cv) ==
  /\ mtx' = {}
  /\ Goto(t, cv)
  /\ UNCHANGED <<q, op, arg, ret>>

InBody(t, o) == at[t] = "body" /\ op[t] = o

\* Mutant: front() without pop().
PopPeek(t) ==
  /\ InBody(t, "pop")
  /\ IF q = << >> THEN Wait(t, "q_empty")
     ELSE /\ ret' = [ret EXCEPT ![t] = {Head(q)}]
          /\ NotifyAllAndReturn(t, "q_max")
          /\ UNCHANGED <<q, op, arg>>

Pop(t) ==
  /\ InBody(t, "pop")
  /\ IF q = << >> THEN Wait(t, "q_empty")
     ELSE /\ ret' = [ret EXCEPT ![t] = {Head(q)}]
          /\ q' = Tail(q)
          /\ NotifyAllAndReturn(t, "q_max")
          /\ UNCHANGED <<op, arg>>

Push(t) ==
  /\ InBody(t, "push")
  /\ IF Len(q) >= MaxSize THEN Wait(t, "q_max")
     ELSE /\ q' = Append(q, arg[t])
          /\ NotifyAllAndReturn(t, "q_empty")
          /\ UNCHANGED <<op, arg, ret>>

\* A wait may end without a notification.
Wakeup(t) ==
  /\ at[t] \in {"q_empty", "q_max"}
  /\ Goto(t, "lock")
  /\ UNCHANGED <<q, mtx, op, arg, ret>>

Return(t) ==
  /\ at[t] = "done"
  /\ Goto(t, "idle")
  /\ UNCHANGED <<q, mtx, op, arg, ret>>

Body(t) == Pop(t) \/ Push(t)

QueueNext == \E t \in Threads :
          Call(t) \/ Lock(t) \/ Body(t) \/ Wakeup(t) \/ Return(t)

QueueSpec == QueueInit /\ [][QueueNext]_queueVars

\* A thread inside the mutex goes on, and one that finds the mutex free again
\* and again gets it.  Nobody has to call, and no wait ends by itself.
FairQueueSpec ==
  /\ QueueSpec
  /\ \A t \in Threads :
       SF_queueVars(Lock(t)) /\ WF_queueVars(Body(t)) /\ WF_queueVars(Return(t))

-----------------------------------------------------------------------------
\* No wakeup is lost: a thread sleeps only as long as what it waits for is
\* not there.  Holds because every push and every pop wakes all the sleepers
\* of the other side before it gives the mutex back.
NoLostWakeup ==
  \A t \in Threads :
    /\ at[t] = "q_empty" => q = << >>
    /\ at[t] = "q_max" => Len(q) >= MaxSize

\* One thread at a time works on the queue, and a sleeper has let go.
MutexInv ==
  \A t \in Threads : at[t] = "body" <=> mtx = {t}

\* A sleeper sleeps on the condition variable of its own operation.
SleepInv ==
  \A t \in Threads :
    /\ at[t] = "q_empty" => op[t] = "pop"
    /\ at[t] = "q_max" => op[t] = "push"

QueueInv == QueueTypeOK /\ MutexInv /\ SleepInv /\ NoLostWakeup /\ Len(q) <= MaxSize

\* The queue implements the abstract bounded queue: in order, nothing lost,
\* nothing twice.
Stage(label) ==
  CASE label = "idle" -> "idle" [] label = "done" -> "done" [] OTHER -> "called"
Fifo == INSTANCE BoundedQueue WITH stage <- [t \in Threads |-> Stage(at[t])]
FifoSpec == Fifo!Spec

\* A pop that is the only one returns once there is something to return.
UnderWay(t, o) == at[t] \notin {"idle", "done"} /\ op[t] = o
PopReturns ==
  \A t \in Threads :
    (UnderWay(t, "pop") /\ q # << >>) ~> (at[t] = "done")
=============================================================================

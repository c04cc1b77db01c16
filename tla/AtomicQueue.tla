----------------------------- MODULE AtomicQueue -----------------------------
(***************************************************************************)
(* The queue of libs/queue.hpp: a vector under a spin lock, which any      *)
(* thread may push to, pop from or look at.  A thread that found the lock  *)
(* clear works on the vector in the steps the source has; size() does not  *)
(* take the lock.  An empty queue makes pop_front throw after, and         *)
(* get_front before, the lock is cleared.                                  *)
(***************************************************************************)
EXTENDS Integers, Sequences

CONSTANTS Threads,    \* the threads that use the queue
          Items, NoItem,
          MaxPushed   \* bound: no push is begun once so many items were pushed

ASSUME ItemsAssumption  == NoItem \notin Items
ASSUME PushedAssumption == MaxPushed \in Nat

VARIABLES
  queue,   \* AtomicQueue::queue
  lock,    \* AtomicQueue::lock
  pc,      \* where a thread is: not in a call, spinning, or past the lock
  op,      \* the call it is in
  item,    \* the parameter of push_back, the local p of the others
  pushed,  \* history: the items pushed and popped so far
  popped

queueVars == <<queue, lock, pc, op, item, pushed, popped>>

Ops    == {"push_back", "pop_front", "get_front"}
Inside == {"vector", "erase", "clear"}   \* past the lock

QueueTypeOK ==
  /\ queue  \in Seq(Items)
  /\ lock   \in BOOLEAN
  /\ pc     \in [Threads -> {"idle", "spin"} \cup Inside]
  /\ op     \in [Threads -> Ops]
  /\ item   \in [Threads -> Items \cup {NoItem}]
  /\ pushed \in Seq(Items)
  /\ popped \in Seq(Items)

QueueInit ==
  /\ queue = <<>>
  /\ lock  = FALSE
  /\ pc    = [t \in Threads |-> "idle"]
  /\ op    = [t \in Threads |-> "push_back"]
  /\ item  = [t \in Threads |-> NoItem]
  /\ pushed = <<>> /\ popped = <<>>

Goto(t, l) == pc' = [pc EXCEPT ![t] = l]

\* Thread t begins a call.
Call(t, o, x) ==
  /\ pc[t] = "idle"
  /\ Goto(t, "spin")
  /\ op'   = [op   EXCEPT ![t] = o]
  /\ item' = [item EXCEPT ![t] = x]
  /\ UNCHANGED <<queue, lock, pushed, popped>>

\* test_and_set found the lock clear.
FreeAlways == TRUE   \* mutant
Free == ~lock

Acquire(t) ==
  /\ pc[t] = "spin" /\ Free
  /\ lock' = TRUE
  /\ Goto(t, "vector")
  /\ UNCHANGED <<queue, op, item, pushed, popped>>

\* queue.push_back(object)
PushAtFront(q, x) == <<x>> \o q   \* mutant
PushAtBack(q, x)  == Append(q, x)

PushBack(t) ==
  /\ pc[t] = "vector" /\ op[t] = "push_back"
  /\ queue'  = PushAtBack(queue, item[t])
  /\ pushed' = Append(pushed, item[t])
  /\ Goto(t, "clear")
  /\ UNCHANGED <<lock, op, item, popped>>

\* param_t p = queue[0]
ReadFront(t) ==
  /\ pc[t] = "vector" /\ op[t] \in {"pop_front", "get_front"}
  /\ queue # <<>>
  /\ item' = [item EXCEPT ![t] = Head(queue)]
  /\ Goto(t, IF op[t] = "pop_front" THEN "erase" ELSE "clear")
  /\ UNCHANGED <<queue, lock, op, pushed, popped>>

\* queue.erase(queue.begin())
Erase(t) ==
  /\ pc[t] = "erase"
  /\ queue'  = Tail(queue)
  /\ popped' = Append(popped, item[t])
  /\ Goto(t, "clear")
  /\ UNCHANGED <<lock, op, item, pushed>>

\* The queue is empty: pop_front clears the lock and throws ...
PopThrows(t) ==
  /\ pc[t] = "vector" /\ op[t] = "pop_front" /\ queue = <<>>
  /\ lock' = FALSE
  /\ Goto(t, "idle")
  /\ UNCHANGED <<queue, op, item, pushed, popped>>

\* ... and get_front throws with the lock still set.
GetThrows(t) ==
  /\ pc[t] = "vector" /\ op[t] = "get_front" /\ queue = <<>>
  /\ Goto(t, "idle")
  /\ UNCHANGED <<queue, lock, op, item, pushed, popped>>

\* lock.clear(), and the call returns.
Release(t) ==
  /\ pc[t] = "clear"
  /\ lock' = FALSE
  /\ Goto(t, "idle")
  /\ UNCHANGED <<queue, op, item, pushed, popped>>

InCall(t) ==
  \/ Acquire(t) \/ PushBack(t) \/ ReadFront(t) \/ Erase(t)
  \/ PopThrows(t) \/ GetThrows(t) \/ Release(t)

\* What size() > 0 may be.  It races with a call that is changing the vector,
\* which may let it read anything.
Changing(t) == pc[t] = "erase" \/ (pc[t] = "vector" /\ op[t] = "push_back")
SizePositive == IF \E t \in Threads : Changing(t) THEN BOOLEAN ELSE {queue # <<>>}

QueueNext ==
  \E t \in Threads :
    \/ \E x \in Items : Len(pushed) < MaxPushed /\ Call(t, "push_back", x)
    \/ \E o \in {"pop_front", "get_front"} : Call(t, o, NoItem)
    \/ InCall(t)

QueueSpec == QueueInit /\ [][QueueNext]_queueVars

-----------------------------------------------------------------------------
(***************************************************************************)
(* The queue implements the abstract one: items leave it once each, in the *)
(* order they came, however the threads interleave, and also after a       *)
(* get_front that threw (push_back, and the read and the erase of          *)
(* pop_front, under the lock).                                             *)
(***************************************************************************)
Abstract == INSTANCE Fifo WITH sent <- pushed, received <- popped
ImplementsFifo == Abstract!Spec

(***************************************************************************)
(* The lock is never cleared under another thread: at most one thread is   *)
(* past it, and it is set while one is (test_and_set and clear on every    *)
(* path of push_back, pop_front and get_front).                            *)
(***************************************************************************)
OneInside ==
  \A t \in Threads : pc[t] \in Inside =>
    lock /\ \A u \in Threads : pc[u] \in Inside => u = t

\* What pop_front read is still the front when it erases it.
FrontKept ==
  \A t \in Threads : pc[t] = "erase" => queue # <<>> /\ item[t] = Head(queue)

\* A push has an item.
ItemGiven ==
  \A t \in Threads : op[t] = "push_back" /\ pc[t] # "idle" => item[t] \in Items

\* What was popped, then what the queue holds, is what was pushed.
InOrder == popped \o queue = pushed

(***************************************************************************)
(* The inductive invariant behind InOrder (AtomicQueue): it takes the lock *)
(* to know that a popped item is the one that was read.                    *)
(***************************************************************************)
QueueInv == QueueTypeOK /\ OneInside /\ FrontKept /\ ItemGiven /\ InOrder
=============================================================================

-------------------------- MODULE AtomicQueueProofs --------------------------
(***************************************************************************)
(* The queue of libs/queue.hpp for any number of threads and any items:    *)
(* its inductive invariant, and that it implements Fifo.                   *)
(***************************************************************************)
EXTENDS AtomicQueue, SequenceTheorems, TLAPS

(***************************************************************************)
(* Moving the head of q to the end of p leaves p \o q alone.  This is what *)
(* the erase of pop_front does to the items popped and those in the queue. *)
(***************************************************************************)
LEMMA MoveHead ==
  ASSUME NEW S, NEW p \in Seq(S), NEW q \in Seq(S), q # <<>>
  PROVE  Append(p, Head(q)) \o Tail(q) = p \o q
<1>1. Head(q) \in S /\ Tail(q) \in Seq(S)  BY HeadTailProperties
<1>2. q = <<Head(q)>> \o Tail(q)
  <2>1. Len(q) \in Nat \ {0}  BY EmptySeq
  <2>2. q = SubSeq(q, 1, Len(q))  BY SubSeqFull
  <2>3. SubSeq(q, 1, Len(q)) = <<q[1]>> \o SubSeq(q, 2, Len(q))
    BY <2>1, SubSeqRecursiveFirst, 1 \in 1 .. Len(q), Len(q) \in 1 .. Len(q), 1 + 1 = 2
  <2> QED  BY <2>1, <2>2, <2>3, TailIsSubSeq
<1>3. Append(p, Head(q)) = p \o <<Head(q)>>  BY <1>1, AppendIsConcat
<1>4. <<Head(q)>> \in Seq(S)  BY <1>1
<1> QED  BY <1>1, <1>2, <1>3, <1>4, ConcatAssociative

(***************************************************************************)
(* An item appended to q is appended to p \o q: a push_back.               *)
(***************************************************************************)
LEMMA AppendRight ==
  ASSUME NEW S, NEW p \in Seq(S), NEW q \in Seq(S), NEW x \in S
  PROVE  p \o Append(q, x) = Append(p \o q, x)
<1>1. Append(q, x) = q \o <<x>> /\ Append(p \o q, x) = (p \o q) \o <<x>>
  BY AppendIsConcat, ConcatProperties
<1>2. <<x>> \in Seq(S)  OBVIOUS
<1> QED  BY <1>1, <1>2, ConcatAssociative

-----------------------------------------------------------------------------
(***************************************************************************)
(* The invariant is inductive: one lemma for beginning a call, one for the *)
(* steps of a call (Call, and InCall).                                     *)
(***************************************************************************)
LEMMA CallPreserves ==
  ASSUME QueueInv, NEW t \in Threads, NEW o \in Ops, NEW x \in Items \cup {NoItem},
         o = "push_back" => x \in Items, Call(t, o, x)
  PROVE  QueueInv'
<1>1. QueueTypeOK'
  BY DEF QueueInv, QueueTypeOK, Call, Goto, Inside
<1>2. OneInside'
  BY DEF QueueInv, QueueTypeOK, OneInside, Call, Goto, Inside
<1>3. FrontKept'
  BY DEF QueueInv, QueueTypeOK, FrontKept, Call, Goto, Inside
<1>4. ItemGiven'
  BY DEF QueueInv, QueueTypeOK, ItemGiven, Call, Goto, Inside, Ops
<1>5. InOrder'
  BY DEF QueueInv, InOrder, Call
<1> QED  BY <1>1, <1>2, <1>3, <1>4, <1>5 DEF QueueInv

LEMMA InCallPreserves ==
  ASSUME QueueInv, NEW t \in Threads, InCall(t)
  PROVE  QueueInv'
<1> USE DEF QueueInv, QueueTypeOK, Inside, Goto
<1>1. CASE Acquire(t)
  <2> USE <1>1 DEF Acquire, Free
  <2>1. QueueTypeOK'  OBVIOUS
  <2>2. OneInside'  BY DEF OneInside
  <2>3. FrontKept' /\ ItemGiven'  BY DEF FrontKept, ItemGiven
  <2>4. InOrder'  BY DEF InOrder
  <2> QED  BY <2>1, <2>2, <2>3, <2>4
<1>2. CASE PushBack(t)
  <2> USE <1>2 DEF PushBack, PushAtBack
  <2>1. item[t] \in Items  BY DEF ItemGiven
  <2>2. QueueTypeOK'  BY <2>1, AppendProperties
  <2>3. OneInside'  BY DEF OneInside
  <2>4. FrontKept' /\ ItemGiven'  BY DEF FrontKept, ItemGiven, OneInside
  <2>5. InOrder'  BY <2>1, AppendRight DEF InOrder
  <2> QED  BY <2>2, <2>3, <2>4, <2>5
<1>3. CASE ReadFront(t)
  <2> USE <1>3 DEF ReadFront
  <2>1. Head(queue) \in Items  BY HeadTailProperties
  <2>2. QueueTypeOK'  BY <2>1
  <2>3. OneInside'  BY DEF OneInside
  <2>4. FrontKept'  BY DEF FrontKept
  <2>5. ItemGiven'  BY DEF ItemGiven
  <2>6. InOrder'  BY DEF InOrder
  <2> QED  BY <2>2, <2>3, <2>4, <2>5, <2>6
<1>4. CASE Erase(t)
  <2> USE <1>4 DEF Erase
  <2>1. queue # <<>> /\ item[t] = Head(queue)  BY DEF FrontKept
  <2>2. Head(queue) \in Items /\ Tail(queue) \in Seq(Items)  BY <2>1, HeadTailProperties
  <2>3. QueueTypeOK'  BY <2>1, <2>2, AppendProperties
  <2>4. OneInside'  BY DEF OneInside
  <2>5. FrontKept' /\ ItemGiven'  BY DEF FrontKept, ItemGiven, OneInside
  <2>6. InOrder'  BY <2>1, MoveHead DEF InOrder
  <2> QED  BY <2>3, <2>4, <2>5, <2>6
<1>5. CASE PopThrows(t) \/ GetThrows(t) \/ Release(t)
  <2> USE <1>5 DEF PopThrows, GetThrows, Release
  <2>1. QueueTypeOK'  OBVIOUS
  <2>2. OneInside'  BY DEF OneInside
  <2>3. FrontKept' /\ ItemGiven'  BY DEF FrontKept, ItemGiven
  <2>4. InOrder'  BY DEF InOrder
  <2> QED  BY <2>1, <2>2, <2>3, <2>4
<1> QED  BY <1>1, <1>2, <1>3, <1>4, <1>5 DEF InCall

LEMMA QueueNextPreserves == QueueInv /\ [QueueNext]_queueVars => QueueInv'
<1> SUFFICES ASSUME QueueInv, [QueueNext]_queueVars PROVE QueueInv'
  OBVIOUS
<1>1. CASE QueueNext
  <2>1. PICK t \in Threads :
          \/ \E x \in Items : Call(t, "push_back", x)
          \/ \E o \in {"pop_front", "get_front"} : Call(t, o, NoItem)
          \/ InCall(t)
    BY <1>1 DEF QueueNext
  <2>2. CASE \E x \in Items : Call(t, "push_back", x)
    BY <2>2, CallPreserves DEF Ops
  <2>3. CASE \E o \in {"pop_front", "get_front"} : Call(t, o, NoItem)
    BY <2>3, CallPreserves DEF Ops
  <2>4. CASE InCall(t)  BY <2>4, InCallPreserves
  <2> QED  BY <2>1, <2>2, <2>3, <2>4
<1>2. CASE UNCHANGED queueVars
  BY <1>2 DEF queueVars, QueueInv, QueueTypeOK, OneInside, FrontKept, ItemGiven, InOrder
<1> QED  BY <1>1, <1>2

(***************************************************************************)
(* The inductive invariant holds, for any threads and items: the type, one *)
(* thread past the lock, and the order of the items (queue.hpp).           *)
(***************************************************************************)
THEOREM QueueInvariant == QueueSpec => []QueueInv
<1>1. QueueInit => QueueInv
  BY ConcatEmptySeq, EmptySeq
     DEF QueueInit, QueueInv, QueueTypeOK, OneInside, FrontKept, ItemGiven, InOrder,
         Ops, Inside
<1> QED  BY <1>1, QueueNextPreserves, PTL DEF QueueSpec

(***************************************************************************)
(* Items leave the queue once each and in order (push_back, pop_front).    *)
(***************************************************************************)
THEOREM QueueInOrder == QueueSpec => []InOrder
<1>1. QueueInv => InOrder  BY DEF QueueInv
<1> QED  BY <1>1, QueueInvariant, PTL

(***************************************************************************)
(* At most one thread is past the lock (test_and_set, clear).              *)
(***************************************************************************)
THEOREM QueueOneInside == QueueSpec => []OneInside
<1>1. QueueInv => OneInside  BY DEF QueueInv
<1> QED  BY <1>1, QueueInvariant, PTL

-----------------------------------------------------------------------------
(***************************************************************************)
(* A step of the queue is a step of Fifo, or changes neither what was      *)
(* pushed nor what was popped: the appends of push_back and the erases of  *)
(* pop_front are the abstract sends and receives.                          *)
(***************************************************************************)
LEMMA QueueStepRefines ==
  ASSUME QueueInv, [QueueNext]_queueVars
  PROVE  [Abstract!Next]_<<pushed, popped>>
<1>1. CASE \E t \in Threads : PushBack(t)
  <2>1. PICK t \in Threads : PushBack(t)  BY <1>1
  <2>2. item[t] \in Items
    BY <2>1 DEF PushBack, QueueInv, ItemGiven
  <2> QED  BY <2>1, <2>2 DEF PushBack, Abstract!Next, Abstract!Send
<1>2. CASE \E t \in Threads : Erase(t)
  <2>1. PICK t \in Threads : Erase(t)  BY <1>2
  <2>2. queue # <<>> /\ item[t] = Head(queue)
        /\ queue \in Seq(Items) /\ popped \in Seq(Items) /\ pushed = popped \o queue
    BY <2>1 DEF Erase, QueueInv, QueueTypeOK, FrontKept, InOrder
  <2>3. Len(queue) \in Nat \ {0} /\ Len(popped) \in Nat
    BY <2>2, EmptySeq, LenProperties
  <2>4. Len(pushed) = Len(popped) + Len(queue)
        /\ pushed[Len(popped) + 1] = queue[1]
    BY <2>2, <2>3, ConcatProperties
  <2>5. popped' = Append(popped, pushed[Len(popped) + 1]) /\ Len(popped) < Len(pushed)
    BY <2>1, <2>2, <2>3, <2>4 DEF Erase
  <2> QED  BY <2>1, <2>5 DEF Erase, Abstract!Next, Abstract!Receive
<1>3. CASE UNCHANGED <<pushed, popped>>
  BY <1>3
<1>4. \/ \E t \in Threads : PushBack(t)
      \/ \E t \in Threads : Erase(t)
      \/ UNCHANGED <<pushed, popped>>
  BY DEF QueueNext, queueVars, Call, InCall, Acquire, ReadFront, PopThrows,
         GetThrows, Release
<1> QED  BY <1>1, <1>2, <1>3, <1>4

(***************************************************************************)
(* The queue, lock and all, implements the abstract queue (AtomicQueue).   *)
(***************************************************************************)
THEOREM QueueImplementsFifo == QueueSpec => ImplementsFifo
<1>1. QueueInit => Abstract!Init  BY DEF QueueInit, Abstract!Init
<1>2. QueueInv /\ [QueueNext]_queueVars => [Abstract!Next]_<<pushed, popped>>
  BY QueueStepRefines
<1> QED
  BY <1>1, <1>2, QueueInvariant, PTL DEF QueueSpec, ImplementsFifo, Abstract!Spec
=============================================================================

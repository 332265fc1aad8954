-------------------------- MODULE RecvQueueProofs --------------------------
(***************************************************************************)
(* Proofs about RecvQueue for every number of threads and messages.        *)
(***************************************************************************)
EXTENDS RecvQueue, SequenceTheorems, TLAPS

(* Steps of ThreadFunc between pthread_mutex_lock and the unlock or wait.  *)
Critical == {"testing", "empty", "front", "popping", "loaded", "unlinking", "unlocking"}

(* What the mutex of the pool protects: one thread pops at a time.         *)
MutexInv == \A t \in Threads : pc[t] \in Critical => m_pThreadMutex = t

(* The front a thread has taken is the front it will unlink.               *)
FrontInv ==
    \A t \in Threads : pc[t] \in {"popping", "loaded", "unlinking"} =>
      m_RecvMsgList # <<>> /\ pJobBuf[t] = Head(m_RecvMsgList)

(* The length field stays positive from the test to the decrement.         *)
SizeInv ==
    /\ \A t \in Threads : pc[t] \in {"front", "popping"} => size >= 1
    /\ \A t \in Threads : pc[t] = "loaded" => threadSize[t] >= 1

QueueInv == TypeOK /\ MutexInv /\ FrontInv /\ SizeInv /\ TakenOnceInOrder

-----------------------------------------------------------------------------
(* Lemmas on sequences.                                                    *)

LEMMA MoveHead ==
    ASSUME NEW h \in Seq(Nat), NEW l \in Seq(Nat), l # <<>>
    PROVE  Append(h, Head(l)) \o Tail(l) = h \o l
<1>1. Append(h, Head(l)) = h \o <<Head(l)>>
  BY AppendIsConcat, HeadTailProperties
<1>2. <<Head(l)>> \o Tail(l) = l
  <2>1. Len(l) \in Nat \ {0}
    BY EmptySeq
  <2>2. SubSeq(l, 1, Len(l)) = <<l[1]>> \o SubSeq(l, 1 + 1, Len(l))
    BY <2>1, SubSeqRecursiveFirst
  <2>3. SubSeq(l, 1, Len(l)) = l /\ Tail(l) = SubSeq(l, 2, Len(l))
    BY SubSeqFull, TailIsSubSeq
  <2>4. Head(l) = l[1] /\ 1 + 1 = 2
    BY <2>1
  <2>5. QED
    BY <2>2, <2>3, <2>4
<1>3. <<Head(l)>> \in Seq(Nat) /\ Tail(l) \in Seq(Nat)
  BY HeadTailProperties
<1>4. (h \o <<Head(l)>>) \o Tail(l) = h \o (<<Head(l)>> \o Tail(l))
  BY <1>3, ConcatAssociative
<1>5. QED
  BY <1>1, <1>2, <1>4

LEMMA ConcatAppend ==
    ASSUME NEW h \in Seq(Nat), NEW l \in Seq(Nat), NEW e \in Nat
    PROVE  h \o Append(l, e) = Append(h \o l, e)
<1>1. <<e>> \in Seq(Nat) /\ h \o l \in Seq(Nat)
  BY ConcatProperties
<1>2. Append(l, e) = l \o <<e>>
  BY <1>1, AppendIsConcat
<1>3. Append(h \o l, e) = (h \o l) \o <<e>>
  BY <1>1, AppendIsConcat
<1>4. (h \o l) \o <<e>> = h \o (l \o <<e>>)
  <2>1. PICK s \in Seq(Nat) : s = <<e>>
    BY <1>1
  <2>2. (h \o l) \o s = h \o (l \o s)
    BY ConcatAssociative
  <2>3. QED
    BY <2>1, <2>2
<1>5. QED
  BY <1>2, <1>3, <1>4

LEMMA ExtendNumbering ==
    ASSUME NEW h \in Seq(Nat), NEW l \in Seq(Nat), NEW n \in Nat
    PROVE  h \o l = [i \in 1 .. n |-> i]
             => h \o Append(l, n + 1) = [i \in 1 .. n + 1 |-> i]
<1>1. h \o Append(l, n + 1) = Append(h \o l, n + 1)
  BY ConcatAppend
<1> HAVE h \o l = [i \in 1 .. n |-> i]
<1>2. h \o l \in Seq(Nat) /\ Len(h \o l) = n
  BY ConcatProperties
<1>3. Append(h \o l, n + 1) = [i \in 1 .. n + 1 |-> i]
  BY <1>2, AppendProperties
<1>4. QED
  BY <1>1, <1>3

-----------------------------------------------------------------------------
(* The inductive invariant.                                                *)

LEMMA InitQueue == Init => QueueInv
<1> SUFFICES ASSUME Init PROVE QueueInv
  OBVIOUS
<1>1. TypeOK
  BY DEF Init, TypeOK
<1>2. MutexInv /\ FrontInv /\ SizeInv
  BY DEF Init, MutexInv, FrontInv, SizeInv, Critical
<1>3. TakenOnceInOrder
  <2>1. handled \o m_RecvMsgList = <<>>
    BY ConcatEmptySeq, EmptySeq DEF Init
  <2>2. [i \in 1 .. arrived |-> i] = <<>>
    BY DEF Init
  <2>3. QED
    BY <2>1, <2>2 DEF TakenOnceInOrder
<1>4. QED
  BY <1>1, <1>2, <1>3 DEF QueueInv

LEMMA TypeStep == QueueInv /\ [Next]_vars => TypeOK'
<1> SUFFICES ASSUME QueueInv, [Next]_vars PROVE TypeOK'
  OBVIOUS
<1> USE QueueConstants DEF TypeOK, push, pops
<1>0. TypeOK /\ SizeInv /\ FrontInv
  BY DEF QueueInv
<1>1. CASE LinkMessage
  BY <1>0, <1>1, AppendProperties DEF LinkMessage
<1>2. CASE LoadSizeToPush \/ StoreSizeToPush
  BY <1>0, <1>2 DEF LoadSizeToPush, StoreSizeToPush
<1>3. CASE SignalThread
  BY <1>0, <1>3 DEF SignalThread, Waiters
<1>4. ASSUME NEW t \in Threads, ThreadStep(t) PROVE TypeOK'
  <2>1. CASE LockThreadMutex(t) \/ TestSize(t) \/ WaitForSignal(t) \/ WakeSpuriously(t)
    <3>1. CASE LockThreadMutex(t)
      BY <1>0, <3>1 DEF LockThreadMutex
    <3>2. CASE TestSize(t)
      BY <1>0, <3>2 DEF TestSize
    <3>3. CASE WaitForSignal(t) \/ WakeSpuriously(t)
      BY <1>0, <3>3 DEF WaitForSignal, WakeSpuriously
    <3>4. QED
      BY <2>1, <3>1, <3>2, <3>3
  <2>2. CASE TakeFront(t)
    BY <1>0, <2>2, HeadTailProperties DEF TakeFront
  <2>3. CASE TakeFromEmptyList(t) \/ UnlockThreadMutex(t) \/ RecvMsgHandled(t)
    <3>1. CASE TakeFromEmptyList(t)
      BY <1>0, <3>1 DEF TakeFromEmptyList
    <3>2. CASE UnlockThreadMutex(t)
      BY <1>0, <3>2 DEF UnlockThreadMutex
    <3>3. CASE RecvMsgHandled(t)
      BY <1>0, <3>3 DEF RecvMsgHandled
    <3>4. QED
      BY <2>3, <3>1, <3>2, <3>3
  <2>4. CASE LoadSizeToPop(t)
    BY <1>0, <2>4 DEF LoadSizeToPop
  <2>5. CASE StoreSizeToPop(t)
    BY <1>0, <2>5 DEF StoreSizeToPop, SizeInv
  <2>6. CASE UnlinkMessage(t)
    BY <1>0, <2>6, HeadTailProperties, AppendProperties DEF UnlinkMessage
  <2>7. QED
    BY <1>4, <2>1, <2>2, <2>3, <2>4, <2>5, <2>6 DEF ThreadStep
<1>5. CASE UNCHANGED vars
  BY <1>0, <1>5 DEF vars
<1>6. QED
  BY <1>1, <1>2, <1>3, <1>4, <1>5 DEF Next, PushStep

(* The producer never touches what the mutex protects.                     *)
LEMMA MutexStep == QueueInv /\ [Next]_vars => MutexInv'
<1> SUFFICES ASSUME QueueInv, [Next]_vars PROVE MutexInv'
  OBVIOUS
<1> USE QueueConstants DEF MutexInv, Critical, TypeOK, push, pops
<1>0. TypeOK /\ MutexInv
  BY DEF QueueInv
<1>1. CASE LinkMessage \/ LoadSizeToPush \/ StoreSizeToPush
  BY <1>0, <1>1 DEF LinkMessage, LoadSizeToPush, StoreSizeToPush
<1>2. CASE SignalThread
  BY <1>0, <1>2 DEF SignalThread, Waiters
<1>3. ASSUME NEW t \in Threads, ThreadStep(t) PROVE MutexInv'
  <2>1. CASE LockThreadMutex(t) \/ TestSize(t) \/ WaitForSignal(t) \/ WakeSpuriously(t)
    BY <1>0, <2>1 DEF LockThreadMutex, TestSize, WaitForSignal, WakeSpuriously
  <2>2. CASE TakeFront(t) \/ TakeFromEmptyList(t) \/ LoadSizeToPop(t) \/ StoreSizeToPop(t)
    BY <1>0, <2>2 DEF TakeFront, TakeFromEmptyList, LoadSizeToPop, StoreSizeToPop
  <2>3. CASE UnlinkMessage(t) \/ UnlockThreadMutex(t) \/ RecvMsgHandled(t)
    BY <1>0, <2>3 DEF UnlinkMessage, UnlockThreadMutex, RecvMsgHandled
  <2>4. QED
    BY <1>3, <2>1, <2>2, <2>3 DEF ThreadStep
<1>4. CASE UNCHANGED vars
  BY <1>0, <1>4 DEF vars
<1>5. QED
  BY <1>1, <1>2, <1>3, <1>4 DEF Next, PushStep

(* A push adds behind the front; a pop needs the mutex.                    *)
LEMMA FrontStep == QueueInv /\ [Next]_vars => FrontInv'
<1> SUFFICES ASSUME QueueInv, [Next]_vars PROVE FrontInv'
  OBVIOUS
<1> USE QueueConstants DEF TypeOK, push, pops
<1>0. TypeOK /\ MutexInv /\ FrontInv
  BY DEF QueueInv
<1>1. CASE LinkMessage
  <2>1. m_RecvMsgList' # <<>>
    BY <1>0, <1>1, AppendProperties DEF LinkMessage
  <2>2. m_RecvMsgList # <<>> => Head(m_RecvMsgList') = Head(m_RecvMsgList)
    BY <1>0, <1>1, HeadTailAppend DEF LinkMessage
  <2>3. pc' = pc /\ pJobBuf' = pJobBuf
    BY <1>1 DEF LinkMessage
  <2>4. QED
    BY <1>0, <2>1, <2>2, <2>3 DEF FrontInv
<1>2. CASE LoadSizeToPush \/ StoreSizeToPush
  BY <1>0, <1>2 DEF LoadSizeToPush, StoreSizeToPush, FrontInv
<1>3. CASE SignalThread
  BY <1>0, <1>3 DEF SignalThread, Waiters, FrontInv
<1>4. ASSUME NEW t \in Threads, ThreadStep(t) PROVE FrontInv'
  <2>1. CASE LockThreadMutex(t) \/ TestSize(t)
    BY <1>0, <2>1 DEF LockThreadMutex, TestSize, FrontInv
  <2>2. CASE WaitForSignal(t) \/ WakeSpuriously(t)
    BY <1>0, <2>2 DEF WaitForSignal, WakeSpuriously, FrontInv
  <2>3. CASE TakeFront(t)
    BY <1>0, <2>3 DEF TakeFront, FrontInv
  <2>4. CASE TakeFromEmptyList(t) \/ LoadSizeToPop(t)
    BY <1>0, <2>4 DEF TakeFromEmptyList, LoadSizeToPop, FrontInv
  <2>5. CASE StoreSizeToPop(t)
    BY <1>0, <2>5 DEF StoreSizeToPop, FrontInv
  <2>6. CASE UnlinkMessage(t)
    <3>1. \A u \in Threads \ {t} : pc[u] \notin Critical
      BY <1>0, <2>6 DEF UnlinkMessage, MutexInv, Critical
    <3>2. \A u \in Threads : pc'[u] \notin {"popping", "loaded", "unlinking"}
      BY <1>0, <2>6, <3>1 DEF UnlinkMessage, Critical
    <3>3. QED
      BY <3>2 DEF FrontInv
  <2>7. CASE UnlockThreadMutex(t) \/ RecvMsgHandled(t)
    BY <1>0, <2>7 DEF UnlockThreadMutex, RecvMsgHandled, FrontInv
  <2>8. QED
    BY <1>4, <2>1, <2>2, <2>3, <2>4, <2>5, <2>6, <2>7 DEF ThreadStep
<1>5. CASE UNCHANGED vars
  BY <1>0, <1>5 DEF vars, FrontInv
<1>6. QED
  BY <1>1, <1>2, <1>3, <1>4, <1>5 DEF Next, PushStep

(* Whatever stale length the producer stores, it is at least one.          *)
LEMMA SizeStep == QueueInv /\ [Next]_vars => SizeInv'
<1> SUFFICES ASSUME QueueInv, [Next]_vars PROVE SizeInv'
  OBVIOUS
<1> USE QueueConstants DEF TypeOK, push, pops
<1>0. TypeOK /\ MutexInv /\ SizeInv
  BY DEF QueueInv
<1>1. CASE LinkMessage \/ LoadSizeToPush
  BY <1>0, <1>1 DEF LinkMessage, LoadSizeToPush, SizeInv
<1>2. CASE StoreSizeToPush
  BY <1>0, <1>2 DEF StoreSizeToPush, SizeInv
<1>3. CASE SignalThread
  BY <1>0, <1>3 DEF SignalThread, Waiters, SizeInv
<1>4. ASSUME NEW t \in Threads, ThreadStep(t) PROVE SizeInv'
  <2>1. CASE LockThreadMutex(t) \/ TestSize(t)
    BY <1>0, <2>1 DEF LockThreadMutex, TestSize, SizeInv
  <2>2. CASE WaitForSignal(t) \/ WakeSpuriously(t)
    BY <1>0, <2>2 DEF WaitForSignal, WakeSpuriously, SizeInv
  <2>3. CASE TakeFront(t) \/ TakeFromEmptyList(t)
    BY <1>0, <2>3 DEF TakeFront, TakeFromEmptyList, SizeInv
  <2>4. CASE LoadSizeToPop(t)
    BY <1>0, <2>4 DEF LoadSizeToPop, SizeInv
  <2>5. CASE StoreSizeToPop(t)
    <3>1. \A u \in Threads \ {t} : pc[u] \notin Critical
      BY <1>0, <2>5 DEF StoreSizeToPop, MutexInv, Critical
    <3>2. \A u \in Threads : pc'[u] \notin {"front", "popping", "loaded"}
      BY <1>0, <2>5, <3>1 DEF StoreSizeToPop, Critical
    <3>3. QED
      BY <3>2 DEF SizeInv
  <2>6. CASE UnlinkMessage(t) \/ UnlockThreadMutex(t) \/ RecvMsgHandled(t)
    BY <1>0, <2>6 DEF UnlinkMessage, UnlockThreadMutex, RecvMsgHandled, SizeInv
  <2>7. QED
    BY <1>4, <2>1, <2>2, <2>3, <2>4, <2>5, <2>6 DEF ThreadStep
<1>5. CASE UNCHANGED vars
  BY <1>0, <1>5 DEF vars, SizeInv
<1>6. QED
  BY <1>1, <1>2, <1>3, <1>4, <1>5 DEF Next, PushStep

LEMMA OrderStep == QueueInv /\ [Next]_vars => TakenOnceInOrder'
<1> SUFFICES ASSUME QueueInv, [Next]_vars PROVE TakenOnceInOrder'
  OBVIOUS
<1>0. TypeOK /\ FrontInv /\ TakenOnceInOrder
  BY DEF QueueInv
<1>1. CASE LinkMessage
  <2>1. handled \in Seq(Nat) /\ m_RecvMsgList \in Seq(Nat) /\ arrived \in Nat
    BY <1>0 DEF TypeOK
  <2>2. /\ arrived' = arrived + 1
        /\ m_RecvMsgList' = Append(m_RecvMsgList, arrived + 1)
        /\ handled' = handled
    BY <1>1 DEF LinkMessage
  <2>3. handled \o m_RecvMsgList = [i \in 1 .. arrived |-> i]
          => handled \o Append(m_RecvMsgList, arrived + 1) = [i \in 1 .. arrived + 1 |-> i]
    BY <2>1, ExtendNumbering
  <2>4. handled \o m_RecvMsgList = [i \in 1 .. arrived |-> i]
    BY <1>0 DEF TakenOnceInOrder
  <2>5. QED
    BY <2>2, <2>3, <2>4 DEF TakenOnceInOrder
<1>2. ASSUME NEW t \in Threads, UnlinkMessage(t) PROVE TakenOnceInOrder'
  <2>1. handled \in Seq(Nat) /\ m_RecvMsgList \in Seq(Nat)
    BY <1>0 DEF TypeOK
  <2>2. /\ m_RecvMsgList # <<>>
        /\ m_RecvMsgList' = Tail(m_RecvMsgList)
        /\ handled' = Append(handled, pJobBuf[t])
        /\ arrived' = arrived
    BY <1>2 DEF UnlinkMessage, push
  <2>3. pJobBuf[t] = Head(m_RecvMsgList)
    BY <1>0, <1>2 DEF UnlinkMessage, FrontInv
  <2>4. handled' \o m_RecvMsgList' = handled \o m_RecvMsgList
    BY <2>1, <2>2, <2>3, MoveHead
  <2>5. QED
    BY <1>0, <2>2, <2>4 DEF TakenOnceInOrder
<1>3. CASE UNCHANGED <<m_RecvMsgList, handled, arrived>>
  BY <1>0, <1>3 DEF TakenOnceInOrder
<1>4. ASSUME NEW t \in Threads, ThreadStep(t), ~UnlinkMessage(t)
      PROVE  UNCHANGED <<m_RecvMsgList, handled, arrived>>
  BY <1>4 DEF ThreadStep, LockThreadMutex, TestSize, WaitForSignal, WakeSpuriously, TakeFront,
     TakeFromEmptyList, LoadSizeToPop, StoreSizeToPop, UnlockThreadMutex, RecvMsgHandled, push
<1>5. CASE LoadSizeToPush \/ StoreSizeToPush \/ SignalThread
  BY <1>3, <1>5 DEF LoadSizeToPush, StoreSizeToPush, SignalThread
<1>6. QED
  BY <1>1, <1>2, <1>3, <1>4, <1>5 DEF Next, PushStep, vars, push

LEMMA QueueStep == QueueInv /\ [Next]_vars => QueueInv'
  BY TypeStep, MutexStep, FrontStep, SizeStep, OrderStep DEF QueueInv

(* The list, the mutex and the length field stay consistent as far as the  *)
(* code makes them: the pool's mutex alone protects the popping side.      *)
THEOREM QueueInvariant == Spec => []QueueInv
<1>1. QED
  BY InitQueue, QueueStep, PTL DEF Spec

(* Every variable keeps its type; above all the length field of the list   *)
(* never becomes negative, whatever the two sides overwrite.               *)
THEOREM TypeCorrect == Spec => []TypeOK
<1>1. QueueInv => TypeOK
  BY DEF QueueInv
<1>2. QED
  BY <1>1, QueueInvariant, PTL

(* However many threads and messages, each message is taken by one thread, *)
(* once, in the order of arrival.                                          *)
THEOREM EachMessageTakenOnce == Spec => []TakenOnceInOrder
<1>1. QueueInv => TakenOnceInOrder
  BY DEF QueueInv
<1>2. QED
  BY <1>1, QueueInvariant, PTL

(* pop_front always decrements a length of at least one.                   *)
THEOREM LengthNeverWraps == Spec => []SizeNeverWraps
<1>1. QueueInv => SizeNeverWraps
  BY DEF QueueInv, SizeInv, SizeNeverWraps
<1>2. QED
  BY <1>1, QueueInvariant, PTL

-----------------------------------------------------------------------------
(* The signal.  With two threads or more, a thread that misses it leaves   *)
(* another one that does not wait, or that the signal wakes.               *)

OthersWait(t) == \A u \in Threads \ {t} : pc[u] = "waiting"

WakeInv ==
    \A t \in Threads :
      pc[t] \in {"empty", "waiting"} /\ OthersWait(t) /\ producer # "signalling" => size = 0

LEMMA WakeStep ==
    ASSUME \E t, u \in Threads : t # u
    PROVE  QueueInv /\ WakeInv /\ [Next]_vars => WakeInv'
<1> SUFFICES ASSUME QueueInv, WakeInv, [Next]_vars PROVE WakeInv'
  OBVIOUS
<1> USE QueueConstants DEF TypeOK, push, pops, OthersWait
<1>0. TypeOK /\ MutexInv
  BY DEF QueueInv
<1>1. CASE LinkMessage \/ LoadSizeToPush \/ StoreSizeToPush
  BY <1>0, <1>1 DEF LinkMessage, LoadSizeToPush, StoreSizeToPush, WakeInv
<1>2. CASE SignalThread
  <2>1. SUFFICES ASSUME NEW t \in Threads, pc'[t] \in {"empty", "waiting"}, OthersWait(t)'
                 PROVE  FALSE
    BY DEF WakeInv
  <2>2. PICK u \in Threads : u # t
    OBVIOUS
  <2>3. pc'[u] = "waiting"
    BY <2>1, <2>2
  <2>4. CASE Waiters = {} /\ UNCHANGED pc
    BY <2>3, <2>4 DEF Waiters
  <2>5. ASSUME NEW w \in Waiters, pc' = [pc EXCEPT ![w] = "locking"] PROVE FALSE
    BY <1>0, <2>1, <2>5 DEF Waiters
  <2>6. QED
    BY <1>2, <2>4, <2>5 DEF SignalThread
<1>3. ASSUME NEW t \in Threads, ThreadStep(t) PROVE WakeInv'
  <2>1. CASE TestSize(t)
    <3>1. size' = size /\ producer' = producer /\ pc' = [pc EXCEPT ![t] = IF size = 0 THEN "empty" ELSE "front"]
      BY <2>1 DEF TestSize
    <3>2. pc'[t] = "empty" => size = 0
      BY <1>0, <3>1
    <3>3. SUFFICES ASSUME NEW u \in Threads, pc'[u] \in {"empty", "waiting"}, OthersWait(u)'
                   PROVE  size' = 0
      BY DEF WakeInv
    <3>4. pc'[t] \in {"empty", "waiting"}
      BY <3>3
    <3>5. QED
      BY <1>0, <3>1, <3>2, <3>4
  <2>2. CASE WaitForSignal(t)
    <3>1. size' = size /\ producer' = producer /\ pc' = [pc EXCEPT ![t] = "waiting"] /\ pc[t] = "empty"
      BY <2>2 DEF WaitForSignal
    <3>2. SUFFICES ASSUME NEW u \in Threads, pc'[u] \in {"empty", "waiting"}, OthersWait(u)',
                          producer' # "signalling"
                   PROVE  size' = 0
      BY DEF WakeInv
    <3>3. pc'[u] = "waiting"
      BY <1>0, <2>2, <3>1, <3>2 DEF WaitForSignal, MutexInv, Critical
    <3>4. OthersWait(t)
      BY <1>0, <3>1, <3>2, <3>3
    <3>5. QED
      BY <3>1, <3>2, <3>4 DEF WakeInv
  <2>3. ASSUME pc'[t] \notin {"empty", "waiting"} PROVE WakeInv'
    BY <2>3 DEF WakeInv
  <2>4. QED
    BY <1>0, <1>3, <2>1, <2>2, <2>3 DEF ThreadStep, LockThreadMutex, WakeSpuriously, TakeFront,
       TakeFromEmptyList, LoadSizeToPop, StoreSizeToPop, UnlinkMessage, UnlockThreadMutex,
       RecvMsgHandled
<1>4. CASE UNCHANGED vars
  BY <1>0, <1>4 DEF vars, WakeInv
<1>5. QED
  BY <1>1, <1>2, <1>3, <1>4 DEF Next, PushStep

(* A list with a right length is not left alone.                           *)
LEMMA WakeSuffices ==
    ASSUME NEW t \in Threads, QueueInv, WakeInv
    PROVE  MessageTriggersThread
<1> SUFFICES ASSUME producer = "receiving", m_RecvMsgList # <<>>,
                    size = Len(m_RecvMsgList), Waiters = Threads
             PROVE  FALSE
  BY DEF MessageTriggersThread
<1>1. size = 0
  BY DEF WakeInv, OthersWait, Waiters
<1>2. m_RecvMsgList \in Seq(Nat)
  BY DEF QueueInv, TypeOK
<1>3. QED
  BY <1>1, <1>2, EmptySeq

(* With at least two threads in the pool, no message is left in the list   *)
(* while every thread waits, unless the length field is wrong.             *)
THEOREM SignalIsNotLost ==
    ASSUME \E t, u \in Threads : t # u
    PROVE  Spec => []MessageTriggersThread
<1>1. Init => WakeInv
  BY DEF Init, WakeInv
<1>2. QueueInv /\ WakeInv /\ [Next]_vars => WakeInv'
  BY WakeStep
<1>3. QueueInv /\ WakeInv => MessageTriggersThread
  BY WakeSuffices
<1>4. QED
  BY <1>1, <1>2, <1>3, QueueInvariant, PTL DEF Spec
=============================================================================

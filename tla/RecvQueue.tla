----------------------------- MODULE RecvQueue -----------------------------
(***************************************************************************)
(* The list of received messages between the epoll thread, which pushes    *)
(* whole packets, and the threads of CThreadPool, which pop and handle     *)
(* them.                                                                   *)
(*                                                                         *)
(* The pushing side locks m_RecvMsgListMutex, the popping side locks       *)
(* m_pThreadMutex: the two exclude nobody from one another.  As the epoll  *)
(* thread is the only one that ever locks m_RecvMsgListMutex, that mutex   *)
(* never makes anybody wait and is left out.                               *)
(*                                                                         *)
(* std::list keeps its length in a field of its own, which push_back and   *)
(* pop_front load and store without a lock: the build (-g, no              *)
(* optimisation) gives two steps.  Linking a node at the back and unlinking*)
(* one at the front are single steps here, although they too touch shared  *)
(* pointers when the list has fewer than two nodes; popping from an empty  *)
(* list is undefined and ends the behaviour.  m_RecvMsgListSize is written *)
(* and never read, and is left out.                                        *)
(***************************************************************************)
EXTENDS Integers, Sequences

CONSTANTS
    Threads,       \* the threads CThreadPool::Init creates
    Nobody,        \* the holder of a free mutex
    MaxMessages    \* bound: packets the clients send

ASSUME QueueConstants == Nobody \notin Threads /\ MaxMessages \in Nat

VARIABLES
    m_RecvMsgList,   \* linked nodes, messages are numbered as they arrive
    size,            \* the list's length field
    arrived,         \* messages the epoll thread has received so far
    producer,        \* step of PushRecvMsgToRecvListAndCond
    producerSize,    \* the length it has loaded
    m_pThreadMutex,  \* its holder
    pc,              \* per thread: step of ThreadFunc
    threadSize,      \* per thread: the length it has loaded
    pJobBuf,         \* per thread: the message it has taken
    handled,         \* messages in the order their pop_front ended
    running

push == <<arrived, producer, producerSize>>
pops == <<m_pThreadMutex, pc, threadSize, pJobBuf>>
vars == <<m_RecvMsgList, size, push, pops, handled, running>>

Init ==
    /\ m_RecvMsgList = <<>>
    /\ size = 0
    /\ arrived = 0
    /\ producer = "receiving"
    /\ producerSize = 0
    /\ m_pThreadMutex = Nobody
    /\ pc = [t \in Threads |-> "locking"]
    /\ threadSize = [t \in Threads |-> 0]
    /\ pJobBuf = [t \in Threads |-> 0]
    /\ handled = <<>>
    /\ running = TRUE

-----------------------------------------------------------------------------
(* The epoll thread: push_back, then pthread_cond_signal.                  *)

LinkMessage ==
    /\ producer = "receiving"
    /\ arrived < MaxMessages
    /\ arrived' = arrived + 1
    /\ m_RecvMsgList' = Append(m_RecvMsgList, arrived + 1)
    /\ producer' = "linked"
    /\ UNCHANGED <<size, producerSize, pops, handled, running>>

LoadSizeToPush ==
    /\ producer = "linked"
    /\ producerSize' = size
    /\ producer' = "loaded"
    /\ UNCHANGED <<m_RecvMsgList, size, arrived, pops, handled, running>>

StoreSizeToPush ==
    /\ producer = "loaded"
    /\ size' = producerSize + 1
    /\ producer' = "signalling"
    /\ UNCHANGED <<m_RecvMsgList, arrived, producerSize, pops, handled, running>>

Waiters == {t \in Threads : pc[t] = "waiting"}

SignalNobody ==             \* faulty: the signal is forgotten
    /\ producer = "signalling"
    /\ producer' = "receiving"
    /\ UNCHANGED <<m_RecvMsgList, size, arrived, producerSize, pops, handled, running>>

(* One waiter, if there is one, leaves pthread_cond_wait and has to lock   *)
(* the mutex again; a signal with no waiter has no effect.                 *)
SignalThread ==
    /\ producer = "signalling"
    /\ producer' = "receiving"
    /\ \/ Waiters = {} /\ UNCHANGED pc
       \/ \E t \in Waiters : pc' = [pc EXCEPT ![t] = "locking"]
    /\ UNCHANGED <<m_RecvMsgList, size, arrived, producerSize, m_pThreadMutex, threadSize,
                   pJobBuf, handled, running>>

-----------------------------------------------------------------------------
(* ThreadFunc.                                                             *)

LockWithoutWaiting(t) ==    \* faulty: the mutex is not waited for
    /\ pc[t] = "locking"
    /\ m_pThreadMutex' = t
    /\ pc' = [pc EXCEPT ![t] = "testing"]
    /\ UNCHANGED <<m_RecvMsgList, size, push, threadSize, pJobBuf, handled, running>>

LockThreadMutex(t) ==
    /\ pc[t] = "locking"
    /\ m_pThreadMutex = Nobody
    /\ m_pThreadMutex' = t
    /\ pc' = [pc EXCEPT ![t] = "testing"]
    /\ UNCHANGED <<m_RecvMsgList, size, push, threadSize, pJobBuf, handled, running>>

SkipTest(t) ==              \* faulty: the list is not tested
    /\ pc[t] = "testing"
    /\ pc' = [pc EXCEPT ![t] = "front"]
    /\ UNCHANGED <<m_RecvMsgList, size, push, m_pThreadMutex, threadSize, pJobBuf, handled,
                   running>>

TestSize(t) ==
    /\ pc[t] = "testing"
    /\ pc' = [pc EXCEPT ![t] = IF size = 0 THEN "empty" ELSE "front"]
    /\ UNCHANGED <<m_RecvMsgList, size, push, m_pThreadMutex, threadSize, pJobBuf, handled,
                   running>>

WaitForSignal(t) ==         \* pthread_cond_wait releases the mutex and waits
    /\ pc[t] = "empty"
    /\ m_pThreadMutex' = Nobody
    /\ pc' = [pc EXCEPT ![t] = "waiting"]
    /\ UNCHANGED <<m_RecvMsgList, size, push, threadSize, pJobBuf, handled, running>>

WakeSpuriously(t) ==        \* pthread_cond_wait may return without a signal
    /\ pc[t] = "waiting"
    /\ pc' = [pc EXCEPT ![t] = "locking"]
    /\ UNCHANGED <<m_RecvMsgList, size, push, m_pThreadMutex, threadSize, pJobBuf, handled,
                   running>>

TakeFront(t) ==
    /\ pc[t] = "front"
    /\ m_RecvMsgList # <<>>
    /\ pJobBuf' = [pJobBuf EXCEPT ![t] = Head(m_RecvMsgList)]
    /\ pc' = [pc EXCEPT ![t] = "popping"]
    /\ UNCHANGED <<m_RecvMsgList, size, push, m_pThreadMutex, threadSize, handled, running>>

TakeFromEmptyList(t) ==     \* front() of an empty list: undefined
    /\ pc[t] = "front"
    /\ m_RecvMsgList = <<>>
    /\ running' = FALSE
    /\ UNCHANGED <<m_RecvMsgList, size, push, pops, handled>>

LoadSizeToPop(t) ==
    /\ pc[t] = "popping"
    /\ threadSize' = [threadSize EXCEPT ![t] = size]
    /\ pc' = [pc EXCEPT ![t] = "loaded"]
    /\ UNCHANGED <<m_RecvMsgList, size, push, m_pThreadMutex, pJobBuf, handled, running>>

StoreSizeToPop(t) ==
    /\ pc[t] = "loaded"
    /\ size' = threadSize[t] - 1
    /\ pc' = [pc EXCEPT ![t] = "unlinking"]
    /\ UNCHANGED <<m_RecvMsgList, push, m_pThreadMutex, threadSize, pJobBuf, handled, running>>

(* pop_front() of an empty list would be undefined as well; with the mutex *)
(* held since TakeFront the front is still there.                          *)
UnlinkMessage(t) ==
    /\ pc[t] = "unlinking"
    /\ m_RecvMsgList # <<>>
    /\ m_RecvMsgList' = Tail(m_RecvMsgList)
    /\ handled' = Append(handled, pJobBuf[t])
    /\ pc' = [pc EXCEPT ![t] = "unlocking"]
    /\ UNCHANGED <<size, push, m_pThreadMutex, threadSize, pJobBuf, running>>

UnlockThreadMutex(t) ==
    /\ pc[t] = "unlocking"
    /\ m_pThreadMutex' = Nobody
    /\ pc' = [pc EXCEPT ![t] = "handling"]
    /\ UNCHANGED <<m_RecvMsgList, size, push, threadSize, pJobBuf, handled, running>>

RecvMsgHandled(t) ==        \* RecvMsgHandleProc, then FreeMemory(pJobBuf)
    /\ pc[t] = "handling"
    /\ pc' = [pc EXCEPT ![t] = "locking"]
    /\ pJobBuf' = [pJobBuf EXCEPT ![t] = 0]
    /\ UNCHANGED <<m_RecvMsgList, size, push, m_pThreadMutex, threadSize, handled, running>>

PushStep == LinkMessage \/ LoadSizeToPush \/ StoreSizeToPush \/ SignalThread

ThreadStep(t) ==
    \/ LockThreadMutex(t) \/ TestSize(t) \/ WaitForSignal(t) \/ WakeSpuriously(t)
    \/ TakeFront(t) \/ TakeFromEmptyList(t)
    \/ LoadSizeToPop(t) \/ StoreSizeToPop(t) \/ UnlinkMessage(t)
    \/ UnlockThreadMutex(t) \/ RecvMsgHandled(t)

Next == running /\ (PushStep \/ \E t \in Threads : ThreadStep(t))

Spec == Init /\ [][Next]_vars

-----------------------------------------------------------------------------
(* Properties.                                                             *)

(* Every variable has the type of the C++ member or local it stands for;   *)
(* the length field is a size_t.                                           *)
TypeOK ==
    /\ m_RecvMsgList \in Seq(Nat)
    /\ size \in Nat
    /\ arrived \in Nat
    /\ producer \in {"receiving", "linked", "loaded", "signalling"}
    /\ producerSize \in Nat
    /\ m_pThreadMutex \in Threads \cup {Nobody}
    /\ pc \in [Threads -> {"locking", "testing", "empty", "waiting", "front", "popping",
                           "loaded", "unlinking", "unlocking", "handling"}]
    /\ threadSize \in [Threads -> Nat]
    /\ pJobBuf \in [Threads -> Nat]
    /\ handled \in Seq(Nat)
    /\ running \in BOOLEAN

(* Each message is handed to one thread, once, in the order of arrival:    *)
(* what the threads have taken and what is still linked is exactly what    *)
(* has arrived.  front() and pop_front() are two calls, and only the mutex *)
(* of the pool keeps two threads from taking the same front.               *)
TakenOnceInOrder == handled \o m_RecvMsgList = [i \in 1 .. arrived |-> i]

(* The length field is at least 1 when pop_front decrements it, so it never*)
(* wraps around, although the epoll thread may overwrite it at any moment. *)
SizeNeverWraps == \A t \in Threads : pc[t] = "loaded" => threadSize[t] >= 1

(* After the test of size there is a message in the list, as the comment in*)
(* ThreadFunc says.                                                        *)
FrontExists == \A t \in Threads : pc[t] = "front" => m_RecvMsgList # <<>>

(* A message that has been pushed and signalled has a thread that is awake *)
(* to handle it, unless a race has spoilt the length field.  The signal is *)
(* sent without m_pThreadMutex: a thread that has found the list empty and *)
(* does not wait yet misses it.                                            *)
MessageTriggersThread ==
    producer = "receiving" /\ m_RecvMsgList # <<>> /\ size = Len(m_RecvMsgList)
      => Waiters # Threads
=============================================================================

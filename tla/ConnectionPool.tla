--------------------------- MODULE ConnectionPool ---------------------------
(***************************************************************************)
(* The connection objects of one worker process: who holds them, when they *)
(* are recycled and when they are handed out again.                        *)
(*                                                                         *)
(*   m_ConnectionList       every object ever allocated                    *)
(*   m_FreeConnectionList   objects that GetConnection may hand out        *)
(*   m_RecyConnectionList   closed objects that wait                       *)
(*                          Sock_RecyConnectionWaitTime seconds            *)
(*                                                                         *)
(* The actors are the epoll thread (accepts, reads, closes), the logic     *)
(* threads (handle messages, cut clients that do not read their replies)   *)
(* and DelayRecoveryConnectionThread (the recycler).  A handler keeps a    *)
(* bare pointer to an object for as long as it runs: nothing but the delay *)
(* keeps the object from being handed to another client meanwhile.         *)
(*                                                                         *)
(* The heartbeat timer is off here (Sock_WaitTimeEnable # 1).  An object   *)
(* is its index in m_ConnectionList.  m_ConnectionMutex is held only inside*)
(* single actions; m_RecyConnQueueMutex is held by the recycler across the *)
(* steps of a scan.                                                        *)
(***************************************************************************)
EXTENDS Integers, Sequences, FiniteSets

CONSTANTS
    EpollCreateConnectCount,         \* clients allowed online, first pool size
    ListenPortCount,                 \* listening sockets, one object each
    DelayRecoveryConnectionWaitTime, \* seconds a closed object must wait
    EPOLL_MAX_EVENTS,                \* events fetched by one epoll_wait
    Epoll,                           \* the epoll thread
    LogicThreads,                    \* the threads of the message thread pool
    Fds,                             \* descriptor numbers accept can return
    SlowClients,                     \* may a client let its replies pile up?
    MaxHandlingTime,                 \* seconds a handler holds a pointer at most
    MaxPending,                      \* bound: messages waiting for a thread
    MaxTime                          \* bound: seconds modelled

ASSUME PoolConstants ==
    /\ EpollCreateConnectCount \in Nat
    /\ ListenPortCount \in Nat \ {0}
    /\ DelayRecoveryConnectionWaitTime \in Nat
    /\ EPOLL_MAX_EVENTS \in Nat \ {0}
    /\ Epoll \notin LogicThreads
    /\ Fds \subseteq Nat \ {0}
    /\ SlowClients \in BOOLEAN
    /\ MaxHandlingTime \in Nat
    /\ MaxPending \in Nat
    /\ MaxTime \in Nat

VARIABLES
    m_ConnectionList,                \* Seq of [currSequence, putRecyConnQueueTime, sockFd]
    m_TotalConnectionCount,
    m_FreeConnectionList,            \* Seq of objects
    m_FreeConnectionCount,
    m_RecyConnectionList,            \* set of objects: the push scans for duplicates
    m_DelayRecoveryConnectionCount,
    m_OnLineUserCount,
    socketOf,                        \* kernel: the object an open descriptor serves
    batch,                           \* m_Events: objects whose event is not handled yet
    msgs,                            \* messages no logic thread has taken yet
    pc, conn, fd, since,             \* per thread: step, pConn, loaded sockFd, start
    recycler,                        \* step of DelayRecoveryConnectionThread
    CurrentTime,                     \* its reading of the clock
    now,                             \* time(NULL)
    running                          \* FALSE once the worker has called exit(0)

lists   == <<m_ConnectionList, m_TotalConnectionCount, m_FreeConnectionList,
             m_FreeConnectionCount>>
recy    == <<m_RecyConnectionList, m_DelayRecoveryConnectionCount>>
threads == <<pc, conn, fd, since>>
scan    == <<recycler, CurrentTime>>
vars    == <<lists, recy, m_OnLineUserCount, socketOf, batch, msgs, threads,
             scan, now, running>>

Threads == {Epoll} \cup LogicThreads
NoConn  == 0
NoFd    == 0
Closed       == 0    \* the descriptor is not open
Unregistered == -1   \* accepted, not in the epoll set yet

Larger(a, b) == IF a >= b THEN a ELSE b

Objects   == 1 .. Len(m_ConnectionList)
Listeners == 1 .. ListenPortCount
FreeSet   == {m_FreeConnectionList[i] : i \in 1 .. Len(m_FreeConnectionList)}
Sequence(c) == m_ConnectionList[c].currSequence
PutTime(c)  == m_ConnectionList[c].putRecyConnQueueTime
SockFd(c)   == m_ConnectionList[c].sockFd

-----------------------------------------------------------------------------
(* Initial state: Init has filled the pool, InitEpoll has taken one object *)
(* per listening socket (allocating when there are more ports than objects).*)

FirstSequence(c) ==
    IF c \in Listeners /\ c <= EpollCreateConnectCount THEN 2 ELSE 1

Init ==
    /\ m_ConnectionList =
         [c \in 1 .. Larger(EpollCreateConnectCount, ListenPortCount) |->
            [currSequence |-> FirstSequence(c), putRecyConnQueueTime |-> 0, sockFd |-> NoFd]]
    /\ m_TotalConnectionCount = Len(m_ConnectionList)
    /\ m_FreeConnectionList =
         [i \in 1 .. Len(m_ConnectionList) - ListenPortCount |-> ListenPortCount + i]
    /\ m_FreeConnectionCount = Len(m_ConnectionList) - ListenPortCount
    /\ m_RecyConnectionList = {}
    /\ m_DelayRecoveryConnectionCount = 0
    /\ m_OnLineUserCount = 0
    /\ socketOf = [f \in Fds |-> Closed]
    /\ batch = {}
    /\ msgs = {}
    /\ pc = [t \in Threads |-> "idle"]
    /\ conn = [t \in Threads |-> NoConn]
    /\ fd = [t \in Threads |-> NoFd]
    /\ since = [t \in Threads |-> 0]
    /\ recycler = "sleeping"
    /\ CurrentTime = 0
    /\ now = 0
    /\ running = TRUE

-----------------------------------------------------------------------------
(* The epoll thread: one epoll_wait, then its events one after the other.  *)

Registered == {c \in Objects : \E f \in Fds : socketOf[f] = c}

EpollWait ==
    /\ pc[Epoll] = "idle"
    /\ batch = {}
    /\ \E events \in SUBSET (Listeners \cup Registered) :
         /\ events # {}
         /\ Cardinality(events) <= EPOLL_MAX_EVENTS
         /\ batch' = events
    /\ since' = [since EXCEPT ![Epoll] = now]
    /\ UNCHANGED <<lists, recy, m_OnLineUserCount, socketOf, msgs, pc, conn, fd,
                   scan, now, running>>

HandleEvent(c) == pc[Epoll] = "idle" /\ c \in batch /\ batch' = batch \ {c}

(* The two admission checks.  The first compares an int with a uint32_t:   *)
(* a negative count counts as too many clients.                            *)
TooManyOnline == m_OnLineUserCount < 0 \/ m_OnLineUserCount >= EpollCreateConnectCount
NeverExhausted == FALSE    \* faulty: no limit on the pool
PoolExhausted ==
    /\ Len(m_ConnectionList) > EpollCreateConnectCount * 5
    /\ Len(m_FreeConnectionList) < EpollCreateConnectCount

ClosedFds == {f \in Fds : socketOf[f] = Closed}

(* accept fails (EAGAIN, ECONNABORTED, EMFILE, ...), or the client is      *)
(* refused and its descriptor closed at once.                              *)
AcceptNothing(c) ==
    /\ c \in Listeners
    /\ HandleEvent(c)
    /\ UNCHANGED <<lists, recy, m_OnLineUserCount, socketOf, msgs, threads, scan,
                   now, running>>

AcceptClient(c) ==
    /\ c \in Listeners
    /\ HandleEvent(c)
    /\ ~TooManyOnline
    /\ ~PoolExhausted
    /\ \E f \in ClosedFds :
         /\ \A g \in ClosedFds : f <= g
         /\ socketOf' = [socketOf EXCEPT ![f] = Unregistered]
         /\ fd' = [fd EXCEPT ![Epoll] = f]
    /\ pc' = [pc EXCEPT ![Epoll] = "accepted"]
    /\ UNCHANGED <<lists, recy, m_OnLineUserCount, msgs, conn, since, scan, now, running>>

(* GetConnection: the oldest free object, or a new one.                    *)
ReuseConnection ==
    /\ m_FreeConnectionList # <<>>
    /\ LET c == Head(m_FreeConnectionList) IN
         /\ m_ConnectionList' = [m_ConnectionList EXCEPT
              ![c].currSequence = @ + 1, ![c].sockFd = fd[Epoll]]
         /\ conn' = [conn EXCEPT ![Epoll] = c]
    /\ m_FreeConnectionList' = Tail(m_FreeConnectionList)
    /\ m_FreeConnectionCount' = m_FreeConnectionCount - 1
    /\ UNCHANGED m_TotalConnectionCount

UnlistedConnection ==      \* faulty: the new object is not put in m_ConnectionList
    /\ m_FreeConnectionList = <<>>
    /\ conn' = [conn EXCEPT ![Epoll] = Len(m_ConnectionList) + 1]
    /\ m_TotalConnectionCount' = m_TotalConnectionCount + 1
    /\ UNCHANGED <<m_ConnectionList, m_FreeConnectionList, m_FreeConnectionCount>>

AllocateConnection ==
    /\ m_FreeConnectionList = <<>>
    /\ m_ConnectionList' = Append(m_ConnectionList,
         [currSequence |-> 1, putRecyConnQueueTime |-> 0, sockFd |-> fd[Epoll]])
    /\ conn' = [conn EXCEPT ![Epoll] = Len(m_ConnectionList) + 1]
    /\ m_TotalConnectionCount' = m_TotalConnectionCount + 1
    /\ UNCHANGED <<m_FreeConnectionList, m_FreeConnectionCount>>

GetConnection ==
    /\ pc[Epoll] = "accepted"
    /\ ReuseConnection \/ AllocateConnection
    /\ pc' = [pc EXCEPT ![Epoll] = "opening"]
    /\ UNCHANGED <<recy, m_OnLineUserCount, socketOf, batch, msgs, fd, since, scan,
                   now, running>>

(* EPOLL_CTL_ADD, then the client counts as online.                        *)
OpeningEnds ==
    /\ pc[Epoll] = "opening"
    /\ pc' = [pc EXCEPT ![Epoll] = "idle"]
    /\ conn' = [conn EXCEPT ![Epoll] = NoConn]
    /\ fd' = [fd EXCEPT ![Epoll] = NoFd]
    /\ UNCHANGED <<recy, batch, msgs, since, scan, now>>

UnregisteredClient ==      \* faulty: EPOLL_CTL_ADD is forgotten
    /\ OpeningEnds
    /\ m_OnLineUserCount' = m_OnLineUserCount + 1
    /\ UNCHANGED <<lists, socketOf, running>>

RegisterClient ==
    /\ OpeningEnds
    /\ socketOf[fd[Epoll]] = Unregistered
    /\ socketOf' = [socketOf EXCEPT ![fd[Epoll]] = conn[Epoll]]
    /\ m_OnLineUserCount' = m_OnLineUserCount + 1
    /\ UNCHANGED <<lists, running>>

(* Another thread, closing a stale number, has closed this descriptor:     *)
(* EPOLL_CTL_ADD fails and the worker exits; the object that               *)
(* CloseConnectionImmediately frees first goes with the process.           *)
RegisterFails ==
    /\ pc[Epoll] = "opening"
    /\ socketOf[fd[Epoll]] # Unregistered
    /\ running' = FALSE
    /\ UNCHANGED <<lists, recy, m_OnLineUserCount, socketOf, batch, msgs, threads,
                   scan, now>>

(* EpollEventReadRequestHandler.  recv on a descriptor that another thread *)
(* has closed fails; on an open one it may return anything.                *)
Readable(c) == SockFd(c) \in Fds /\ socketOf[SockFd(c)] # Closed

ReadPart(c) ==      \* part of a packet, EAGAIN or EINTR
    /\ c \notin Listeners
    /\ Readable(c)
    /\ HandleEvent(c)
    /\ UNCHANGED <<lists, recy, m_OnLineUserCount, socketOf, msgs, threads, scan,
                   now, running>>

ReadMessage(c) ==   \* the packet is complete: queue it with the sequence
    /\ c \notin Listeners
    /\ Readable(c)
    /\ HandleEvent(c)
    /\ Cardinality(msgs) < MaxPending
    /\ msgs' = msgs \cup {[conn |-> c, currSequence |-> Sequence(c)]}
    /\ UNCHANGED <<lists, recy, m_OnLineUserCount, socketOf, threads, scan, now, running>>

ReadClose(c) ==     \* peer gone, socket error or flood: CloseConnectionToRecy
    /\ c \notin Listeners
    /\ HandleEvent(c)
    /\ pc' = [pc EXCEPT ![Epoll] = "closing"]
    /\ conn' = [conn EXCEPT ![Epoll] = c]
    /\ UNCHANGED <<lists, recy, m_OnLineUserCount, socketOf, msgs, fd, since, scan,
                   now, running>>

-----------------------------------------------------------------------------
(* The logic threads: RecvMsgHandleProc.                                   *)

HandleMessage(t, m) ==       \* the sequence check passed
    /\ pc[t] = "idle"
    /\ m.currSequence = Sequence(m.conn)
    /\ msgs' = msgs \ {m}
    /\ pc' = [pc EXCEPT ![t] = "handling"]
    /\ conn' = [conn EXCEPT ![t] = m.conn]
    /\ since' = [since EXCEPT ![t] = now]
    /\ UNCHANGED <<lists, recy, m_OnLineUserCount, socketOf, batch, fd, scan, now, running>>

ExitOnStaleMessage(t, m) ==  \* the sequence check failed: exit(0)
    /\ pc[t] = "idle"
    /\ m.currSequence # Sequence(m.conn)
    /\ running' = FALSE
    /\ UNCHANGED <<lists, recy, m_OnLineUserCount, socketOf, batch, msgs, threads,
                   scan, now>>

(* PushSendMsgToSendListAndSem finds more than MAX_EACHCONN_SENDCOUNT      *)
(* replies waiting and closes the connection; it then still counts the     *)
(* reply on the object.                                                    *)
CutSlowClient(t) ==
    /\ SlowClients
    /\ pc[t] = "handling"
    /\ pc' = [pc EXCEPT ![t] = "closing"]
    /\ UNCHANGED <<lists, recy, m_OnLineUserCount, socketOf, batch, msgs, conn, fd,
                   since, scan, now, running>>

HandlerReturns(t) ==
    /\ pc[t] \in {"handling", "leaving"}
    /\ pc' = [pc EXCEPT ![t] = "idle"]
    /\ conn' = [conn EXCEPT ![t] = NoConn]
    /\ UNCHANGED <<lists, recy, m_OnLineUserCount, socketOf, batch, msgs, fd, since,
                   scan, now, running>>

-----------------------------------------------------------------------------
(* CloseConnectionToRecy, by the epoll thread or by a logic thread.  The   *)
(* test sockFd != -1 is always true: sockFd is a uint16_t.                 *)

LoadFd(t) ==
    /\ pc[t] = "closing"
    /\ fd' = [fd EXCEPT ![t] = SockFd(conn[t])]
    /\ pc' = [pc EXCEPT ![t] = "fdLoaded"]
    /\ UNCHANGED <<lists, recy, m_OnLineUserCount, socketOf, batch, msgs, conn,
                   since, scan, now, running>>

CloseFd(t) ==
    /\ pc[t] = "fdLoaded"
    /\ socketOf' = [f \in Fds |-> IF f = fd[t] THEN Closed ELSE socketOf[f]]
    /\ m_ConnectionList' = [m_ConnectionList EXCEPT ![conn[t]].sockFd = NoFd]
    /\ fd' = [fd EXCEPT ![t] = NoFd]
    /\ pc' = [pc EXCEPT ![t] = "fdClosed"]
    /\ UNCHANGED <<m_TotalConnectionCount, m_FreeConnectionList, m_FreeConnectionCount,
                   recy, m_OnLineUserCount, batch, msgs, conn, since, scan, now, running>>

Enqueue(c, step) ==
    /\ m_ConnectionList' = [m_ConnectionList EXCEPT
         ![c].putRecyConnQueueTime = now, ![c].currSequence = @ + step]
    /\ m_RecyConnectionList' = m_RecyConnectionList \cup {c}
    /\ m_DelayRecoveryConnectionCount' = m_DelayRecoveryConnectionCount + 1
    /\ m_OnLineUserCount' = m_OnLineUserCount - 1
    /\ UNCHANGED <<m_TotalConnectionCount, m_FreeConnectionList, m_FreeConnectionCount>>

EnqueueAgain(c) == Enqueue(c, 1)      \* faulty: the list is not searched first

EnqueueSameSequence(c) ==             \* faulty: currSequence stays
    IF c \in m_RecyConnectionList
    THEN UNCHANGED <<lists, recy, m_OnLineUserCount>>
    ELSE Enqueue(c, 0)

(* PushConnectToRecyQueue returns at once when the object is queued already.*)
EnqueueOnce(c) ==
    IF c \in m_RecyConnectionList
    THEN UNCHANGED <<lists, recy, m_OnLineUserCount>>
    ELSE Enqueue(c, 1)

PushConnectToRecyQueue(t) ==
    /\ pc[t] = "fdClosed"
    /\ recycler # "scanning"     \* m_RecyConnQueueMutex is free
    /\ EnqueueOnce(conn[t])
    /\ pc' = [pc EXCEPT ![t] = IF t = Epoll THEN "idle" ELSE "leaving"]
    /\ conn' = [conn EXCEPT ![t] = IF t = Epoll THEN NoConn ELSE @]
    /\ UNCHANGED <<socketOf, batch, msgs, fd, since, scan, now, running>>

-----------------------------------------------------------------------------
(* DelayRecoveryConnectionThread reads the clock, then takes the mutex,    *)
(* then frees every expired object, one FreeConnection at a time.          *)

WakeForTwo ==      \* faulty: off by one, a lone object is never looked at
    /\ recycler = "sleeping"
    /\ m_DelayRecoveryConnectionCount > 1
    /\ now > CurrentTime
    /\ recycler' = "locking"
    /\ CurrentTime' = now
    /\ UNCHANGED <<lists, recy, m_OnLineUserCount, socketOf, batch, msgs, threads,
                   now, running>>

WakeRecycler ==    \* usleep(1000 ms): never twice in one second
    /\ recycler = "sleeping"
    /\ m_DelayRecoveryConnectionCount > 0
    /\ now > CurrentTime
    /\ recycler' = "locking"
    /\ CurrentTime' = now
    /\ UNCHANGED <<lists, recy, m_OnLineUserCount, socketOf, batch, msgs, threads,
                   now, running>>

LockRecyQueue ==
    /\ recycler = "locking"
    /\ recycler' = "scanning"
    /\ UNCHANGED <<lists, recy, m_OnLineUserCount, socketOf, batch, msgs, threads,
                   CurrentTime, now, running>>

ExpiredEarly(c) ==      \* faulty: one second too soon
    PutTime(c) + DelayRecoveryConnectionWaitTime <= CurrentTime + 1
Expired(c) == PutTime(c) + DelayRecoveryConnectionWaitTime <= CurrentTime

FreeConnection(c) ==
    /\ m_ConnectionList' = [m_ConnectionList EXCEPT ![c].currSequence = @ + 1]
    /\ m_FreeConnectionList' = Append(m_FreeConnectionList, c)
    /\ m_FreeConnectionCount' = m_FreeConnectionCount + 1
    /\ UNCHANGED m_TotalConnectionCount

RecycleUnerased(c) ==   \* faulty: the object stays in m_RecyConnectionList
    /\ recycler = "scanning"
    /\ Expired(c)
    /\ FreeConnection(c)
    /\ UNCHANGED <<recy, m_OnLineUserCount, socketOf, batch, msgs, threads, scan, now, running>>

RecycleConnection(c) ==
    /\ recycler = "scanning"
    /\ Expired(c)
    /\ m_RecyConnectionList' = m_RecyConnectionList \ {c}
    /\ m_DelayRecoveryConnectionCount' = m_DelayRecoveryConnectionCount - 1
    /\ FreeConnection(c)
    /\ UNCHANGED <<m_OnLineUserCount, socketOf, batch, msgs, threads, scan, now, running>>

UnlockRecyQueue ==
    /\ recycler = "scanning"
    /\ \A c \in m_RecyConnectionList : ~Expired(c)
    /\ recycler' = "sleeping"
    /\ UNCHANGED <<lists, recy, m_OnLineUserCount, socketOf, batch, msgs, threads,
                   CurrentTime, now, running>>

-----------------------------------------------------------------------------
(* Time.  A handler keeps its pointer for at most MaxHandlingTime seconds. *)

Busy(t) == pc[t] # "idle" \/ (t = Epoll /\ batch # {})

Tick ==
    /\ now < MaxTime
    /\ \A t \in Threads : Busy(t) => now - since[t] < MaxHandlingTime
    /\ now' = now + 1
    /\ UNCHANGED <<lists, recy, m_OnLineUserCount, socketOf, batch, msgs, threads,
                   scan, running>>

EpollHandles ==
    \E c \in batch :
      AcceptNothing(c) \/ AcceptClient(c) \/ ReadPart(c) \/ ReadMessage(c) \/ ReadClose(c)

EpollStep ==
    \/ EpollWait
    \/ EpollHandles
    \/ GetConnection
    \/ RegisterClient
    \/ RegisterFails

LogicStep(t) ==
    \/ \E m \in msgs : HandleMessage(t, m) \/ ExitOnStaleMessage(t, m)
    \/ CutSlowClient(t)
    \/ HandlerReturns(t)

CloseStep(t) == LoadFd(t) \/ CloseFd(t) \/ PushConnectToRecyQueue(t)

RecyclerStep ==
    \/ WakeRecycler
    \/ LockRecyQueue
    \/ \E c \in m_RecyConnectionList : RecycleConnection(c)
    \/ UnlockRecyQueue

Next ==
    /\ running
    /\ \/ EpollStep
       \/ \E t \in LogicThreads : LogicStep(t)
       \/ \E t \in Threads : CloseStep(t)
       \/ RecyclerStep
       \/ Tick

Spec == Init /\ [][Next]_vars

(* Every thread that can go on does: the scheduler is fair to threads, a   *)
(* handler returns, and time passes.  Nothing makes a client act.          *)
FairSpec ==
    /\ Spec
    /\ WF_vars(running /\ EpollHandles)
    /\ WF_vars(running /\ GetConnection)
    /\ WF_vars(running /\ (RegisterClient \/ RegisterFails))
    /\ \A t \in LogicThreads : WF_vars(running /\ HandlerReturns(t))
    /\ \A t \in Threads : WF_vars(running /\ CloseStep(t))
    /\ WF_vars(running /\ RecyclerStep)
    /\ WF_vars(running /\ Tick)

-----------------------------------------------------------------------------
(* Properties.                                                             *)

ConnectionRecord == [currSequence : Nat, putRecyConnQueueTime : Nat, sockFd : Fds \cup {NoFd}]

(* Every variable has the type of the C++ member it stands for.            *)
TypeOK ==
    /\ m_ConnectionList \in Seq(ConnectionRecord)
    /\ m_TotalConnectionCount \in Nat
    /\ m_FreeConnectionList \in Seq(Objects)
    /\ m_FreeConnectionCount \in Int
    /\ m_RecyConnectionList \subseteq Objects
    /\ m_DelayRecoveryConnectionCount \in Int
    /\ m_OnLineUserCount \in Int
    /\ socketOf \in [Fds -> Objects \cup {Closed, Unregistered}]
    /\ batch \subseteq Objects
    /\ msgs \subseteq [conn : Objects, currSequence : Nat]
    /\ pc \in [Threads -> {"idle", "accepted", "opening", "handling", "closing",
                           "fdLoaded", "fdClosed", "leaving"}]
    /\ conn \in [Threads -> Objects \cup {NoConn}]
    /\ fd \in [Threads -> Fds \cup {NoFd}]
    /\ since \in [Threads -> Nat]
    /\ recycler \in {"sleeping", "locking", "scanning"}
    /\ CurrentTime \in Nat
    /\ now \in Nat
    /\ running \in BOOLEAN

Opening == IF pc[Epoll] = "opening" THEN {conn[Epoll]} ELSE {}
InUse   == Objects \ (Listeners \cup FreeSet \cup m_RecyConnectionList)

(* An object is in one place at a time: never twice on the free list, never*)
(* free and waiting at once, and a listening socket's object is neither.   *)
(* FreeConnection has no check of its own, so a second close that slips    *)
(* past PushConnectToRecyQueue would hand one object to two clients.       *)
OnePlace ==
    /\ \A i, j \in 1 .. Len(m_FreeConnectionList) :
         m_FreeConnectionList[i] = m_FreeConnectionList[j] => i = j
    /\ FreeSet \cap m_RecyConnectionList = {}
    /\ Listeners \cap (FreeSet \cup m_RecyConnectionList) = {}

(* The four counters, changed far from one another and without the lists'  *)
(* mutexes, always say what the lists say; the online count is exactly the *)
(* number of objects that serve a client, whatever closed twice.           *)
CountersAgree ==
    /\ m_TotalConnectionCount = Len(m_ConnectionList)
    /\ m_FreeConnectionCount = Len(m_FreeConnectionList)
    /\ m_DelayRecoveryConnectionCount = Cardinality(m_RecyConnectionList)
    /\ m_OnLineUserCount = Cardinality(InUse \ Opening)

(* Clients that connect and leave at once make the pool grow, because a    *)
(* closed object waits before it is reused: the two admission checks keep  *)
(* the pool within five times the configured size plus one.                *)
PoolBounded ==
    Len(m_ConnectionList) <= Larger(EpollCreateConnectCount * 5 + 1, ListenPortCount)

Held == batch \cup {conn[t] : t \in {u \in Threads : pc[u] \notin {"idle", "accepted"}}}

(* As long as handlers are faster than the recycling delay, an object that *)
(* a thread still points to (a fetched event, a message being handled, a   *)
(* close under way) is not on the free list, so it is not handed to another*)
(* client under the handler's feet.                                        *)
HeldNotFree ==
    MaxHandlingTime < DelayRecoveryConnectionWaitTime => Held \cap FreeSet = {}

(* The sequence check is exact: a queued message whose sequence equals its *)
(* object's current one belongs to the client the object serves now, never *)
(* to a client that has left, and no message is ahead of its object.       *)
SequenceCheckExact ==
    \A m \in msgs :
      /\ m.currSequence <= Sequence(m.conn)
      /\ m.currSequence = Sequence(m.conn) => m.conn \in InUse \ Opening

Closing(c) == \E t \in Threads : conn[t] = c /\ pc[t] \in {"closing", "fdLoaded", "fdClosed"}

(* No client is lost: an object that serves a client has an open descriptor*)
(* in the epoll set that delivers its events, or a thread is closing it.   *)
NoClientLost == \A c \in InUse \ Opening : c \in Registered \/ Closing(c)

(* A message for a client that has left is discarded and the worker goes on.*)
WorkerSurvives == running

PlaceOf(c) ==
    IF c \in FreeSet THEN "free" ELSE IF c \in m_RecyConnectionList THEN "waiting" ELSE "used"

Pool == INSTANCE DelayedPool WITH
    Delay    <- DelayRecoveryConnectionWaitTime,
    place    <- [c \in Objects |-> PlaceOf(c)],
    released <- [c \in Objects |-> IF c \in m_RecyConnectionList THEN PutTime(c) ELSE 0],
    clock    <- now

(* The lists, counters and threads implement the abstract pool: an object  *)
(* goes from free to used to waiting to free, one step at a time, and stays*)
(* in waiting for the whole delay, whoever closes it and how often.        *)
ImplementsDelayedPool == Pool!PoolSpec

(* A closed object comes back to the free list (within the modelled time), *)
(* unless the worker exits.                                                *)
ClosedIsRecycled ==
    \A c \in 1 .. EpollCreateConnectCount * 5 + 1 :
      c \in m_RecyConnectionList /\ now + DelayRecoveryConnectionWaitTime < MaxTime
        ~> c \in FreeSet \/ ~running

=============================================================================

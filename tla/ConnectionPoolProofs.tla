------------------------ MODULE ConnectionPoolProofs ------------------------
(***************************************************************************)
(* Proofs about ConnectionPool for every value of its constants.           *)
(***************************************************************************)
EXTENDS ConnectionPool, SequenceTheorems, FiniteSetTheorems, TLAPS

(* Which step of which thread holds what.                                  *)
StepInv ==
    /\ pc[Epoll] \in {"idle", "accepted", "opening", "closing", "fdLoaded", "fdClosed"}
    /\ pc[Epoll] \in {"accepted", "opening"} => fd[Epoll] \in Fds
    /\ \A t \in LogicThreads : pc[t] \notin {"accepted", "opening"}
    /\ \A t \in Threads :
         pc[t] \in {"opening", "handling", "closing", "fdLoaded", "fdClosed", "leaving"}
           => conn[t] \in Objects \ Listeners
    /\ \A m \in msgs : m.conn \notin Listeners
    /\ \A i \in 1 .. Len(m_FreeConnectionList) : m_FreeConnectionList[i] \notin Listeners
    /\ m_RecyConnectionList \cap Listeners = {}
    /\ ListenPortCount <= Len(m_ConnectionList)

TypeInv == TypeOK /\ StepInv

(* A function on 1 .. n is a sequence of length n.                          *)
LEMMA FunctionIsSequence ==
    ASSUME NEW S, NEW n \in Nat, NEW f \in [1 .. n -> S]
    PROVE  f \in Seq(S) /\ Len(f) = n
<1>1. f \in Seq(S)
  BY SeqDef
<1>2. DOMAIN f = 1 .. Len(f) /\ DOMAIN f = 1 .. n /\ Len(f) \in Nat
  BY <1>1, LenProperties
<1>3. QED
  BY <1>1, <1>2

(* Writing the record of one object leaves a list of records of the same   *)
(* length that differs at that object only.                                *)
LEMMA UpdateObject ==
    ASSUME NEW s \in Seq(ConnectionRecord), NEW c \in 1 .. Len(s), NEW r \in ConnectionRecord,
           NEW u, u = [s EXCEPT ![c] = r]
    PROVE  /\ u \in Seq(ConnectionRecord)
           /\ Len(u) = Len(s)
           /\ \A d \in 1 .. Len(s) : u[d] = IF d = c THEN r ELSE s[d]
  BY ExceptSeq

(* The three ways the code writes a connection object.                     *)
LEMMA RecordUpdates ==
    ASSUME NEW x \in ConnectionRecord, NEW n \in Nat, NEW p \in Nat, NEW f \in Fds \cup {NoFd}
    PROVE  /\ [x EXCEPT !.currSequence = n, !.sockFd = f] \in ConnectionRecord
           /\ [x EXCEPT !.putRecyConnQueueTime = p, !.currSequence = n] \in ConnectionRecord
           /\ [x EXCEPT !.currSequence = n] \in ConnectionRecord
           /\ [x EXCEPT !.sockFd = f] \in ConnectionRecord
<1>1. [x EXCEPT !.currSequence = n, !.sockFd = f] \in ConnectionRecord
  BY DEF ConnectionRecord
<1>2. [x EXCEPT !.putRecyConnQueueTime = p, !.currSequence = n] \in ConnectionRecord
  BY DEF ConnectionRecord
<1>3. [x EXCEPT !.currSequence = n] \in ConnectionRecord
  BY DEF ConnectionRecord
<1>4. [x EXCEPT !.sockFd = f] \in ConnectionRecord
  BY DEF ConnectionRecord
<1>5. QED
  BY <1>1, <1>2, <1>3, <1>4

(* A field of every object after one object's record became r.             *)
OnlyChanged(c, sequence, put, sock) ==
    /\ m_ConnectionList' \in Seq(ConnectionRecord)
    /\ Len(m_ConnectionList') = Len(m_ConnectionList)
    /\ \A d \in Objects :
         /\ Sequence(d)' = IF d = c THEN sequence ELSE Sequence(d)
         /\ PutTime(d)' = IF d = c THEN put ELSE PutTime(d)
         /\ SockFd(d)' = IF d = c THEN sock ELSE SockFd(d)

LEMMA ObjectFields ==
    ASSUME TypeOK
    PROVE  /\ m_ConnectionList \in Seq(ConnectionRecord)
           /\ Len(m_ConnectionList) \in Nat
           /\ \A c \in Objects :
                /\ m_ConnectionList[c] \in ConnectionRecord
                /\ Sequence(c) \in Nat /\ PutTime(c) \in Nat /\ SockFd(c) \in Fds \cup {NoFd}
<1>1. m_ConnectionList \in [1 .. Len(m_ConnectionList) -> ConnectionRecord]
  BY LenProperties DEF TypeOK
<1>2. \A c \in Objects : m_ConnectionList[c] \in ConnectionRecord
  BY <1>1 DEF Objects
<1>3. QED
  BY <1>2, LenProperties DEF TypeOK, ConnectionRecord, Sequence, PutTime, SockFd

(* Writing the record of object c changes its fields and no other object's. *)
LEMMA OneRecordChanged ==
    ASSUME TypeOK, NEW c \in Objects, NEW r \in ConnectionRecord,
           m_ConnectionList' = [m_ConnectionList EXCEPT ![c] = r]
    PROVE  OnlyChanged(c, r.currSequence, r.putRecyConnQueueTime, r.sockFd)
<1>1. /\ m_ConnectionList' \in Seq(ConnectionRecord)
      /\ Len(m_ConnectionList') = Len(m_ConnectionList)
      /\ \A d \in Objects : m_ConnectionList'[d] = IF d = c THEN r ELSE m_ConnectionList[d]
  BY ObjectFields, UpdateObject DEF Objects
<1>2. ASSUME NEW d \in Objects
      PROVE  /\ Sequence(d)' = IF d = c THEN r.currSequence ELSE Sequence(d)
             /\ PutTime(d)' = IF d = c THEN r.putRecyConnQueueTime ELSE PutTime(d)
             /\ SockFd(d)' = IF d = c THEN r.sockFd ELSE SockFd(d)
  <2>1. CASE d = c
    BY <1>1, <2>1 DEF Sequence, PutTime, SockFd
  <2>2. CASE d # c
    BY <1>1, <2>2 DEF Sequence, PutTime, SockFd
  <2>3. QED
    BY <2>1, <2>2
<1>3. QED
  BY <1>1, <1>2 DEF OnlyChanged

(* GetConnection with a free object: it leaves the front of the free list  *)
(* with a new sequence and the accepted descriptor.                        *)
LEMMA ReuseEffect ==
    ASSUME TypeOK, fd[Epoll] \in Fds, ReuseConnection,
           NEW c, c = Head(m_FreeConnectionList)
    PROVE  /\ c \in Objects
           /\ conn' = [conn EXCEPT ![Epoll] = c]
           /\ OnlyChanged(c, Sequence(c) + 1, PutTime(c), fd[Epoll])
<1> DEFINE x == m_ConnectionList[c]
           r == [x EXCEPT !.currSequence = Sequence(c) + 1, !.sockFd = fd[Epoll]]
<1>1. c \in Objects
  BY HeadTailProperties DEF ReuseConnection, TypeOK
<1>2. x \in ConnectionRecord /\ Sequence(c) + 1 \in Nat
  BY <1>1, ObjectFields
<1>3. r \in ConnectionRecord
  BY <1>2, RecordUpdates
<1>4. m_ConnectionList' = [m_ConnectionList EXCEPT ![c] = r]
  BY <1>1, ObjectFields DEF ReuseConnection, Objects, Sequence
<1>5. OnlyChanged(c, r.currSequence, r.putRecyConnQueueTime, r.sockFd)
  BY <1>1, <1>3, <1>4, OneRecordChanged
<1>6. /\ r.currSequence = Sequence(c) + 1
      /\ r.putRecyConnQueueTime = PutTime(c)
      /\ r.sockFd = fd[Epoll]
  BY <1>2 DEF ConnectionRecord, PutTime
<1>7. conn' = [conn EXCEPT ![Epoll] = c]
  BY DEF ReuseConnection
<1> HIDE DEF r
<1>8. QED
  BY <1>1, <1>5, <1>6, <1>7

(* GetConnection with no free object: a new one goes to the end.           *)
LEMMA AllocateEffect ==
    ASSUME TypeOK, fd[Epoll] \in Fds, AllocateConnection,
           NEW n, n = Len(m_ConnectionList) + 1
    PROVE  /\ m_ConnectionList' \in Seq(ConnectionRecord)
           /\ Len(m_ConnectionList') = n
           /\ Objects' = Objects \cup {n} /\ n \notin Objects
           /\ conn' = [conn EXCEPT ![Epoll] = n]
           /\ \A d \in Objects : /\ Sequence(d)' = Sequence(d)
                                 /\ PutTime(d)' = PutTime(d)
                                 /\ SockFd(d)' = SockFd(d)
           /\ Sequence(n)' = 1 /\ SockFd(n)' = fd[Epoll]
<1> DEFINE r == [currSequence |-> 1, putRecyConnQueueTime |-> 0, sockFd |-> fd[Epoll]]
<1>1. r \in ConnectionRecord
  BY DEF ConnectionRecord
<1>2. /\ m_ConnectionList' \in Seq(ConnectionRecord)
      /\ Len(m_ConnectionList') = n
      /\ \A d \in Objects : m_ConnectionList'[d] = m_ConnectionList[d]
      /\ m_ConnectionList'[n] = r
  BY <1>1, AppendProperties DEF AllocateConnection, TypeOK, Objects
<1>3. QED
  BY <1>2, ObjectFields DEF AllocateConnection, Objects, Sequence, PutTime, SockFd

(* close(pConn->sockFd); pConn->sockFd = -1.                               *)
LEMMA CloseEffect ==
    ASSUME TypeOK, NEW t \in Threads, CloseFd(t), NEW c \in Objects, c = conn[t]
    PROVE  OnlyChanged(c, Sequence(c), PutTime(c), NoFd)
<1> DEFINE x == m_ConnectionList[c]
           r == [x EXCEPT !.sockFd = NoFd]
<1>1. x \in ConnectionRecord /\ r \in ConnectionRecord
  BY ObjectFields, RecordUpdates DEF NoFd
<1>2. m_ConnectionList' = [m_ConnectionList EXCEPT ![c] = r]
  BY ObjectFields DEF CloseFd, Objects
<1>3. OnlyChanged(c, r.currSequence, r.putRecyConnQueueTime, r.sockFd)
  BY <1>1, <1>2, OneRecordChanged
<1>4. r.currSequence = Sequence(c) /\ r.putRecyConnQueueTime = PutTime(c) /\ r.sockFd = NoFd
  BY <1>1 DEF ConnectionRecord, Sequence, PutTime
<1> HIDE DEF r
<1>5. QED
  BY <1>3, <1>4

(* PushConnectToRecyQueue of an object that is not queued yet.             *)
LEMMA EnqueueEffect ==
    ASSUME TypeOK, NEW c \in Objects, c \notin m_RecyConnectionList, EnqueueOnce(c)
    PROVE  /\ OnlyChanged(c, Sequence(c) + 1, now, SockFd(c))
           /\ m_RecyConnectionList' = m_RecyConnectionList \cup {c}
           /\ m_DelayRecoveryConnectionCount' = m_DelayRecoveryConnectionCount + 1
           /\ m_OnLineUserCount' = m_OnLineUserCount - 1
           /\ UNCHANGED <<m_TotalConnectionCount, m_FreeConnectionList, m_FreeConnectionCount>>
<1> DEFINE x == m_ConnectionList[c]
           r == [x EXCEPT !.putRecyConnQueueTime = now, !.currSequence = Sequence(c) + 1]
<1>1. x \in ConnectionRecord /\ Sequence(c) + 1 \in Nat /\ now \in Nat
  BY ObjectFields DEF TypeOK
<1>2. r \in ConnectionRecord
  BY <1>1, RecordUpdates DEF NoFd
<1>3. Enqueue(c, 1)
  BY DEF EnqueueOnce
<1>4. m_ConnectionList' = [m_ConnectionList EXCEPT ![c] = r]
  BY <1>3, ObjectFields DEF Enqueue, Objects, Sequence
<1>5. OnlyChanged(c, r.currSequence, r.putRecyConnQueueTime, r.sockFd)
  BY <1>2, <1>4, OneRecordChanged
<1>6. /\ r.currSequence = Sequence(c) + 1
      /\ r.putRecyConnQueueTime = now
      /\ r.sockFd = SockFd(c)
  BY <1>1 DEF ConnectionRecord, SockFd
<1>7. /\ m_RecyConnectionList' = m_RecyConnectionList \cup {c}
      /\ m_DelayRecoveryConnectionCount' = m_DelayRecoveryConnectionCount + 1
      /\ m_OnLineUserCount' = m_OnLineUserCount - 1
      /\ UNCHANGED <<m_TotalConnectionCount, m_FreeConnectionList, m_FreeConnectionCount>>
  BY <1>3 DEF Enqueue
<1> HIDE DEF r
<1>8. QED
  BY <1>5, <1>6, <1>7

(* FreeConnection: one more sequence step, and the end of the free list.   *)
LEMMA FreeEffect ==
    ASSUME TypeOK, NEW c \in Objects, FreeConnection(c)
    PROVE  OnlyChanged(c, Sequence(c) + 1, PutTime(c), SockFd(c))
<1> DEFINE x == m_ConnectionList[c]
           r == [x EXCEPT !.currSequence = Sequence(c) + 1]
<1>1. x \in ConnectionRecord /\ Sequence(c) + 1 \in Nat
  BY ObjectFields
<1>2. r \in ConnectionRecord
  BY <1>1, RecordUpdates DEF NoFd
<1>3. m_ConnectionList' = [m_ConnectionList EXCEPT ![c] = r]
  BY ObjectFields DEF FreeConnection, Objects, Sequence
<1>4. OnlyChanged(c, r.currSequence, r.putRecyConnQueueTime, r.sockFd)
  BY <1>2, <1>3, OneRecordChanged
<1>5. /\ r.currSequence = Sequence(c) + 1
      /\ r.putRecyConnQueueTime = PutTime(c)
      /\ r.sockFd = SockFd(c)
  BY <1>1 DEF ConnectionRecord, PutTime, SockFd
<1> HIDE DEF r
<1>6. QED
  BY <1>4, <1>5

(* The initial pool is well typed.                                         *)
LEMMA InitTypeInv == Init => TypeInv
<1> SUFFICES ASSUME Init PROVE TypeInv
  OBVIOUS
<1> USE PoolConstants
<1> DEFINE n == Larger(EpollCreateConnectCount, ListenPortCount)
<1>1. n \in Nat /\ ListenPortCount <= n
  BY DEF Larger
<1>2. /\ m_ConnectionList \in Seq(ConnectionRecord)
      /\ Len(m_ConnectionList) = n
  <2>1. \A c \in 1 .. n :
          [currSequence |-> FirstSequence(c), putRecyConnQueueTime |-> 0, sockFd |-> NoFd]
            \in ConnectionRecord
    BY DEF FirstSequence, ConnectionRecord, NoFd
  <2>2. m_ConnectionList \in [1 .. n -> ConnectionRecord]
    BY <2>1 DEF Init
  <2>3. QED
    BY <1>1, <2>2, FunctionIsSequence
<1>3. /\ m_FreeConnectionList \in Seq(Objects)
      /\ Len(m_FreeConnectionList) = n - ListenPortCount
  <2>1. n - ListenPortCount \in Nat
    BY <1>1
  <2>2. \A i \in 1 .. n - ListenPortCount : ListenPortCount + i \in Objects
    BY <1>1, <1>2 DEF Objects
  <2>3. m_FreeConnectionList \in [1 .. n - ListenPortCount -> Objects]
    BY <1>2, <2>2 DEF Init
  <2>4. QED
    BY <2>1, <2>3, FunctionIsSequence
<1>4. QED
  BY <1>1, <1>2, <1>3 DEF Init, TypeInv, Listeners, TypeOK, StepInv, Threads, Objects, NoConn, NoFd,
     Closed, Unregistered

(* Every step keeps the types and the steps of the threads consistent.      *)
LEMMA NextTypeInv == TypeInv /\ [Next]_vars => TypeInv'
<1> SUFFICES ASSUME TypeInv, [Next]_vars PROVE TypeInv'
  OBVIOUS
<1> USE PoolConstants DEF TypeInv, lists, recy, threads, scan
<1>1. CASE UNCHANGED vars
  BY <1>1 DEF vars, TypeOK, StepInv, Objects, Threads
<1>2. CASE EpollWait
  BY <1>2 DEF EpollWait, TypeOK, StepInv, Objects, Registered, Listeners, Threads
<1>3. ASSUME NEW c \in batch, AcceptNothing(c) PROVE TypeInv'
  BY <1>3 DEF AcceptNothing, HandleEvent, TypeOK, StepInv, Objects, Threads
<1>4. ASSUME NEW c \in batch, AcceptClient(c) PROVE TypeInv'
  BY <1>4 DEF AcceptClient, HandleEvent, ClosedFds, TypeOK, StepInv, Objects, Threads
<1>5. ASSUME NEW c \in batch, ReadPart(c) PROVE TypeInv'
  BY <1>5 DEF ReadPart, HandleEvent, TypeOK, StepInv, Objects, Threads
<1>6. ASSUME NEW c \in batch, ReadMessage(c) PROVE TypeInv'
  <2>1. c \in Objects \ Listeners /\ Sequence(c) \in Nat
    BY <1>6, ObjectFields DEF ReadMessage, TypeOK
  <2>2. [conn |-> c, currSequence |-> Sequence(c)] \in [conn : Objects, currSequence : Nat]
    BY <2>1
  <2>3. /\ msgs' \subseteq [conn : Objects, currSequence : Nat]
        /\ \A m \in msgs' : m.conn \notin Listeners
    BY <1>6, <2>1, <2>2 DEF ReadMessage, TypeOK, StepInv
  <2>4. QED
    BY <1>6, <2>3 DEF ReadMessage, HandleEvent, TypeOK, StepInv, Objects, Threads
<1>7. ASSUME NEW c \in batch, ReadClose(c) PROVE TypeInv'
  BY <1>7 DEF ReadClose, HandleEvent, TypeOK, StepInv, Objects, Threads
<1>8. CASE GetConnection
  <2>1. fd[Epoll] \in Fds
    BY <1>8 DEF GetConnection, StepInv
  <2>2. CASE ReuseConnection
    <3> DEFINE c == Head(m_FreeConnectionList)
               rest == Tail(m_FreeConnectionList)
    <3>1. /\ c \in Objects
          /\ OnlyChanged(c, Sequence(c) + 1, PutTime(c), fd[Epoll])
      BY <2>1, <2>2, ReuseEffect
    <3>2. /\ rest \in Seq(Objects)
          /\ \A i \in 1 .. Len(rest) : rest[i] \notin Listeners
          /\ c \notin Listeners
      <4>1. m_FreeConnectionList \in Seq(Objects) /\ m_FreeConnectionList # <<>>
        BY <2>2 DEF ReuseConnection, TypeOK
      <4>2. /\ rest \in Seq(Objects)
            /\ Len(m_FreeConnectionList) \in Nat
            /\ Len(rest) = Len(m_FreeConnectionList) - 1
            /\ c = m_FreeConnectionList[1]
            /\ \A i \in 1 .. Len(rest) : rest[i] = m_FreeConnectionList[i + 1]
        BY <4>1, HeadTailProperties, LenProperties
      <4>3. 1 \in 1 .. Len(m_FreeConnectionList)
        BY <4>1, <4>2, EmptySeq
      <4>4. \A i \in 1 .. Len(rest) : i + 1 \in 1 .. Len(m_FreeConnectionList)
        BY <4>2
      <4> HIDE DEF rest, c
      <4>5. QED
        BY <4>2, <4>3, <4>4 DEF StepInv
    <3>3. Objects' = Objects
      BY <3>1 DEF OnlyChanged, Objects
    <3>4. /\ m_FreeConnectionList' = rest
          /\ m_FreeConnectionCount' = m_FreeConnectionCount - 1
          /\ conn' = [conn EXCEPT ![Epoll] = c]
          /\ UNCHANGED m_TotalConnectionCount
          /\ m_ConnectionList' \in Seq(ConnectionRecord)
          /\ Len(m_ConnectionList') = Len(m_ConnectionList)
      BY <2>2, <3>1 DEF ReuseConnection, OnlyChanged
    <3> HIDE DEF c, rest
    <3>5. TypeOK'
      BY <1>8, <3>1, <3>2, <3>3, <3>4 DEF GetConnection, TypeOK, Threads
    <3>6. StepInv'
      BY <1>8, <2>1, <3>1, <3>2, <3>3, <3>4 DEF GetConnection, TypeOK, StepInv, Threads, Listeners
    <3>7. QED
      BY <3>5, <3>6
  <2>3. CASE AllocateConnection
    <3> DEFINE n == Len(m_ConnectionList) + 1
    <3>1. /\ m_ConnectionList' \in Seq(ConnectionRecord)
          /\ Len(m_ConnectionList') = n
          /\ Objects' = Objects \cup {n}
      BY <2>1, <2>3, AllocateEffect
    <3>2. n \notin Listeners
      BY ObjectFields DEF Listeners, StepInv
    <3>3. m_FreeConnectionList' \in Seq(Objects')
      BY <2>3, EmptySeq DEF AllocateConnection
    <3>4. QED
      BY <1>8, <2>1, <2>3, <3>1, <3>2, <3>3, ObjectFields
         DEF GetConnection, AllocateConnection, TypeOK, StepInv, Threads
  <2>4. QED
    BY <1>8, <2>2, <2>3 DEF GetConnection
<1>9. CASE RegisterClient
  BY <1>9 DEF RegisterClient, OpeningEnds, TypeOK, StepInv, Objects, Threads
<1>10. CASE RegisterFails
  BY <1>10 DEF RegisterFails, TypeOK, StepInv, Objects, Threads
<1>11. ASSUME NEW t \in LogicThreads, NEW m \in msgs, HandleMessage(t, m) PROVE TypeInv'
  BY <1>11 DEF HandleMessage, TypeOK, StepInv, Objects, Threads
<1>12. ASSUME NEW t \in LogicThreads, NEW m \in msgs, ExitOnStaleMessage(t, m) PROVE TypeInv'
  BY <1>12 DEF ExitOnStaleMessage, TypeOK, StepInv, Objects, Threads
<1>13. ASSUME NEW t \in LogicThreads, CutSlowClient(t) PROVE TypeInv'
  BY <1>13 DEF CutSlowClient, TypeOK, StepInv, Objects, Threads
<1>14. ASSUME NEW t \in LogicThreads, HandlerReturns(t) PROVE TypeInv'
  BY <1>14 DEF HandlerReturns, TypeOK, StepInv, Objects, Threads
<1>15. ASSUME NEW t \in Threads, LoadFd(t) PROVE TypeInv'
  BY <1>15, ObjectFields DEF LoadFd, TypeOK, StepInv, Objects, Threads
<1>16. ASSUME NEW t \in Threads, CloseFd(t) PROVE TypeInv'
  <2>1. conn[t] \in Objects
    BY <1>16 DEF CloseFd, StepInv
  <2>2. OnlyChanged(conn[t], Sequence(conn[t]), PutTime(conn[t]), NoFd)
    BY <1>16, <2>1, CloseEffect
  <2>3. QED
    BY <1>16, <2>2 DEF CloseFd, OnlyChanged, TypeOK, StepInv, Objects, Threads
<1>17. ASSUME NEW t \in Threads, PushConnectToRecyQueue(t) PROVE TypeInv'
  <2>1. conn[t] \in Objects \ Listeners /\ EnqueueOnce(conn[t])
    BY <1>17 DEF PushConnectToRecyQueue, StepInv
  <2>2. CASE conn[t] \in m_RecyConnectionList
    BY <1>17, <2>1, <2>2
       DEF PushConnectToRecyQueue, EnqueueOnce, TypeOK, StepInv, Objects, Threads
  <2>3. CASE conn[t] \notin m_RecyConnectionList
    <3>1. /\ OnlyChanged(conn[t], Sequence(conn[t]) + 1, now, SockFd(conn[t]))
          /\ m_RecyConnectionList' = m_RecyConnectionList \cup {conn[t]}
          /\ m_DelayRecoveryConnectionCount' \in Int
          /\ m_OnLineUserCount' \in Int
          /\ UNCHANGED <<m_TotalConnectionCount, m_FreeConnectionList, m_FreeConnectionCount>>
      BY <2>1, <2>3, EnqueueEffect DEF TypeOK
    <3>2. QED
      BY <1>17, <2>1, <3>1
         DEF PushConnectToRecyQueue, OnlyChanged, TypeOK, StepInv, Objects, Threads
  <2>4. QED
    BY <2>2, <2>3
<1>18. CASE WakeRecycler
  BY <1>18 DEF WakeRecycler, TypeOK, StepInv, Objects, Threads
<1>19. CASE LockRecyQueue
  BY <1>19 DEF LockRecyQueue, TypeOK, StepInv, Objects, Threads
<1>20. ASSUME NEW c \in m_RecyConnectionList, RecycleConnection(c) PROVE TypeInv'
  <2>1. c \in Objects /\ c \notin Listeners
    BY DEF TypeOK, StepInv
  <2>2. OnlyChanged(c, Sequence(c) + 1, PutTime(c), SockFd(c))
    BY <1>20, <2>1, FreeEffect DEF RecycleConnection
  <2>3. /\ m_FreeConnectionList' \in Seq(Objects)
        /\ \A i \in 1 .. Len(m_FreeConnectionList') : m_FreeConnectionList'[i] \notin Listeners
    <3>1. /\ m_FreeConnectionList' = Append(m_FreeConnectionList, c)
          /\ m_FreeConnectionList \in Seq(Objects)
          /\ \A i \in 1 .. Len(m_FreeConnectionList) : m_FreeConnectionList[i] \notin Listeners
      BY <1>20 DEF RecycleConnection, FreeConnection, TypeOK, StepInv
    <3>2. QED
      BY <2>1, <3>1, AppendProperties, LenProperties
  <2>4. Objects' = Objects /\ m_ConnectionList' \in Seq(ConnectionRecord)
        /\ Len(m_ConnectionList') = Len(m_ConnectionList)
    BY <2>2 DEF OnlyChanged, Objects
  <2>5. TypeOK'
    <3>1. /\ m_FreeConnectionCount' \in Int /\ m_DelayRecoveryConnectionCount' \in Int
          /\ m_RecyConnectionList' \subseteq Objects
      <4>1. /\ m_FreeConnectionCount' = m_FreeConnectionCount + 1
            /\ m_DelayRecoveryConnectionCount' = m_DelayRecoveryConnectionCount - 1
            /\ m_RecyConnectionList' = m_RecyConnectionList \ {c}
        BY <1>20 DEF RecycleConnection, FreeConnection
      <4>2. /\ m_FreeConnectionCount \in Int /\ m_DelayRecoveryConnectionCount \in Int
            /\ m_RecyConnectionList \subseteq Objects
        BY DEF TypeOK
      <4>3. QED
        BY <4>1, <4>2
    <3>2. UNCHANGED <<m_TotalConnectionCount, m_OnLineUserCount, socketOf, batch, msgs,
                      pc, conn, fd, since, recycler, CurrentTime, now, running>>
      BY <1>20 DEF RecycleConnection, FreeConnection
    <3>3. QED
      BY <2>3, <2>4, <3>1, <3>2 DEF TypeOK
  <2>6. StepInv'
    BY <1>20, <2>3, <2>4 DEF RecycleConnection, FreeConnection, StepInv, Listeners
  <2>7. QED
    BY <2>5, <2>6
<1>21. CASE UnlockRecyQueue
  BY <1>21 DEF UnlockRecyQueue, TypeOK, StepInv, Objects, Threads
<1>22. CASE Tick
  BY <1>22 DEF Tick, TypeOK, StepInv, Objects, Threads
<1>23. QED
  BY <1>1, <1>2, <1>3, <1>4, <1>5, <1>6, <1>7, <1>8, <1>9, <1>10, <1>11, <1>12, <1>13,
     <1>14, <1>15, <1>16, <1>17, <1>18, <1>19, <1>20, <1>21, <1>22
     DEF Next, EpollStep, EpollHandles, LogicStep, CloseStep, RecyclerStep

(* Every variable keeps its type: no list ever holds anything but objects, *)
(* every object's descriptor, put time and sequence are in range, and a    *)
(* thread's pointer is an object or null.                                  *)
THEOREM TypeCorrect == Spec => []TypeOK
<1>1. TypeInv => TypeOK
  BY DEF TypeInv
<1>2. QED
  BY <1>1, InitTypeInv, NextTypeInv, PTL DEF Spec

-----------------------------------------------------------------------------
(* The pool stays bounded.                                                 *)

(* Between the admission checks and GetConnection only the recycler touches*)
(* the lists, and it only adds free objects: what the checks saw still     *)
(* holds when the object is taken.                                         *)
Admitted ==
    pc[Epoll] = "accepted" =>
      /\ EpollCreateConnectCount > 0
      /\ \/ Len(m_ConnectionList) <= EpollCreateConnectCount * 5
         \/ Len(m_FreeConnectionList) >= EpollCreateConnectCount

BoundInv == PoolBounded /\ Admitted

(* The first pool is within the bound and nothing has been accepted yet.    *)
LEMMA InitBoundInv == Init => BoundInv
<1> SUFFICES ASSUME Init PROVE BoundInv
  OBVIOUS
<1> USE PoolConstants
<1> DEFINE n == Larger(EpollCreateConnectCount, ListenPortCount)
<1>1. n \in Nat /\ n <= Larger(EpollCreateConnectCount * 5 + 1, ListenPortCount)
  BY DEF Larger
<1>2. Len(m_ConnectionList) = n
  <2>1. m_ConnectionList \in [1 .. n -> {m_ConnectionList[c] : c \in 1 .. n}]
    BY DEF Init
  <2>2. QED
    BY <1>1, <2>1, FunctionIsSequence
<1>3. pc[Epoll] = "idle"
  BY DEF Init, Threads
<1>4. QED
  BY <1>1, <1>2, <1>3 DEF BoundInv, PoolBounded, Admitted

(* A step that keeps the number of objects, takes none off the free list   *)
(* and accepts no client keeps the bound.                                  *)
LEMMA QuietStep ==
    ASSUME TypeInv, BoundInv,
           Len(m_ConnectionList') = Len(m_ConnectionList),
           Len(m_FreeConnectionList') \in Nat,
           Len(m_FreeConnectionList') >= Len(m_FreeConnectionList),
           pc[Epoll]' = "accepted" => pc[Epoll] = "accepted"
    PROVE  BoundInv'
<1>1. PoolBounded'
  BY DEF BoundInv, PoolBounded
<1>2. Admitted'
  BY PoolConstants, LenProperties DEF BoundInv, Admitted, TypeInv, TypeOK
<1>3. QED
  BY <1>1, <1>2 DEF BoundInv

(* Every step keeps the bound.                                             *)
LEMMA NextBoundInv == TypeInv /\ BoundInv /\ [Next]_vars => BoundInv'
<1> SUFFICES ASSUME TypeInv, BoundInv, [Next]_vars PROVE BoundInv'
  OBVIOUS
<1> USE PoolConstants DEF lists, recy, threads, scan
<1>1. Len(m_ConnectionList) \in Nat /\ Len(m_FreeConnectionList) \in Nat
  BY LenProperties DEF TypeInv, TypeOK
<1>2. pc \in [Threads -> {pc[t] : t \in Threads}] /\ Epoll \in Threads
  BY DEF TypeInv, TypeOK, Threads
<1>3. CASE \/ UNCHANGED vars
           \/ EpollWait
           \/ \E c \in batch : AcceptNothing(c) \/ ReadPart(c) \/ ReadMessage(c) \/ ReadClose(c)
           \/ RegisterClient \/ RegisterFails
  <2>1. /\ UNCHANGED <<m_FreeConnectionList, m_ConnectionList>>
        /\ pc[Epoll]' = "accepted" => pc[Epoll] = "accepted"
    BY <1>2, <1>3
       DEF vars, EpollWait, AcceptNothing, ReadPart, ReadMessage, ReadClose, RegisterClient,
           OpeningEnds, RegisterFails
  <2>2. QED
    BY <1>1, <2>1, QuietStep
<1>4. CASE \/ \E t \in LogicThreads : LogicStep(t)
           \/ WakeRecycler \/ LockRecyQueue \/ UnlockRecyQueue \/ Tick
  <2>1. /\ UNCHANGED <<m_FreeConnectionList, m_ConnectionList>>
        /\ pc[Epoll]' = "accepted" => pc[Epoll] = "accepted"
    BY <1>2, <1>4
       DEF LogicStep, HandleMessage, ExitOnStaleMessage, CutSlowClient, HandlerReturns,
           WakeRecycler, LockRecyQueue, UnlockRecyQueue, Tick
  <2>2. QED
    BY <1>1, <2>1, QuietStep
<1>5. ASSUME NEW c \in batch, AcceptClient(c) PROVE BoundInv'
  <2>1. UNCHANGED <<m_FreeConnectionList, m_ConnectionList>>
    BY <1>5 DEF AcceptClient
  <2>2. EpollCreateConnectCount > 0
    BY <1>5 DEF AcceptClient, TooManyOnline, TypeInv, TypeOK
  <2>3. \/ Len(m_ConnectionList) <= EpollCreateConnectCount * 5
        \/ Len(m_FreeConnectionList) >= EpollCreateConnectCount
    BY <1>1, <1>5 DEF AcceptClient, PoolExhausted
  <2>4. QED
    BY <2>1, <2>2, <2>3 DEF BoundInv, PoolBounded, Admitted
<1>6. CASE GetConnection
  <2>1. pc[Epoll] = "accepted" /\ fd[Epoll] \in Fds /\ pc[Epoll]' = "opening"
    BY <1>2, <1>6 DEF GetConnection, TypeInv, StepInv
  <2>2. Admitted'
    BY <2>1 DEF Admitted
  <2>3. CASE ReuseConnection
    <3>1. Len(m_ConnectionList') = Len(m_ConnectionList)
      BY <2>1, <2>3, ReuseEffect DEF OnlyChanged, TypeInv
    <3>2. QED
      BY <2>2, <3>1 DEF BoundInv, PoolBounded
  <2>4. CASE AllocateConnection
    <3>1. Len(m_ConnectionList') = Len(m_ConnectionList) + 1
      BY <2>1, <2>4, AllocateEffect DEF TypeInv
    <3>2. Len(m_FreeConnectionList) = 0
      BY <2>4 DEF AllocateConnection
    <3>3. Len(m_ConnectionList) <= EpollCreateConnectCount * 5
      BY <2>1, <3>2 DEF BoundInv, Admitted
    <3>4. QED
      BY <1>1, <2>2, <3>1, <3>3 DEF BoundInv, PoolBounded, Larger
  <2>5. QED
    BY <1>6, <2>3, <2>4 DEF GetConnection
<1>7. ASSUME NEW t \in Threads, LoadFd(t) PROVE BoundInv'
  <2>1. /\ UNCHANGED <<m_FreeConnectionList, m_ConnectionList>>
        /\ pc[Epoll]' = "accepted" => pc[Epoll] = "accepted"
    BY <1>2, <1>7 DEF LoadFd
  <2>2. QED
    BY <1>1, <2>1, QuietStep
<1>8. ASSUME NEW t \in Threads, CloseFd(t) PROVE BoundInv'
  <2>1. Len(m_ConnectionList') = Len(m_ConnectionList)
    BY <1>8, CloseEffect DEF CloseFd, OnlyChanged, TypeInv, StepInv
  <2>2. /\ UNCHANGED m_FreeConnectionList
        /\ pc[Epoll]' = "accepted" => pc[Epoll] = "accepted"
    BY <1>2, <1>8 DEF CloseFd
  <2>3. QED
    BY <1>1, <2>1, <2>2, QuietStep
<1>9. ASSUME NEW t \in Threads, PushConnectToRecyQueue(t) PROVE BoundInv'
  <2>1. conn[t] \in Objects /\ EnqueueOnce(conn[t])
    BY <1>9 DEF PushConnectToRecyQueue, TypeInv, StepInv
  <2>2. /\ Len(m_ConnectionList') = Len(m_ConnectionList)
        /\ UNCHANGED m_FreeConnectionList
    <3>1. CASE conn[t] \in m_RecyConnectionList
      BY <2>1, <3>1 DEF EnqueueOnce
    <3>2. CASE conn[t] \notin m_RecyConnectionList
      BY <2>1, <3>2, EnqueueEffect DEF OnlyChanged, TypeInv
    <3>3. QED
      BY <3>1, <3>2
  <2>3. pc[Epoll]' = "accepted" => pc[Epoll] = "accepted"
    BY <1>2, <1>9 DEF PushConnectToRecyQueue
  <2>4. QED
    BY <1>1, <2>2, <2>3, QuietStep
<1>10. ASSUME NEW c \in m_RecyConnectionList, RecycleConnection(c) PROVE BoundInv'
  <2>1. c \in Objects /\ FreeConnection(c) /\ UNCHANGED pc
    BY <1>10 DEF RecycleConnection, TypeInv, TypeOK
  <2>2. Len(m_ConnectionList') = Len(m_ConnectionList)
    BY <2>1, FreeEffect DEF OnlyChanged, TypeInv
  <2>3. Len(m_FreeConnectionList') = Len(m_FreeConnectionList) + 1
    BY <2>1, AppendProperties DEF FreeConnection, TypeInv, TypeOK
  <2>4. QED
    BY <1>1, <2>1, <2>2, <2>3, QuietStep
<1>11. QED
  BY <1>3, <1>4, <1>5, <1>6, <1>7, <1>8, <1>9, <1>10
     DEF Next, EpollStep, EpollHandles, CloseStep, RecyclerStep

(* However fast clients come and go, the pool never holds more than five   *)
(* times the configured number of objects plus one (or one per listening   *)
(* socket, when there are more of those).                                  *)
THEOREM PoolIsBounded == Spec => []PoolBounded
<1>1. BoundInv => PoolBounded
  BY DEF BoundInv
<1>2. QED
  BY <1>1, InitTypeInv, NextTypeInv, InitBoundInv, NextBoundInv, PTL DEF Spec

=============================================================================

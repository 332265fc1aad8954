-------------------------- MODULE RecyclingProofs --------------------------
(***************************************************************************)
(* Delayed recycling is safe for every pool size, number of threads, set of*)
(* descriptors and speed of the clock, as long as no handler runs for the  *)
(* whole recycling delay.                                                  *)
(***************************************************************************)
EXTENDS ConnectionPoolProofs

-----------------------------------------------------------------------------
(* The inductive invariant.                                                *)

Closers == {"closing", "fdLoaded", "fdClosed"}

(* The objects thread t points to.                                         *)
HeldBy(t) ==
    (IF t = Epoll THEN batch ELSE {}) \cup (IF pc[t] \in {"idle", "accepted"} THEN {} ELSE {conn[t]})

(* A handler started in the past, at most MaxHandlingTime ago, and the     *)
(* recycler's reading of the clock is not ahead of the clock.              *)
TimeInv ==
    /\ CurrentTime <= now
    /\ \A t \in Threads : Busy(t) => since[t] <= now /\ now - since[t] <= MaxHandlingTime

(* An object that a thread points to is not free, and if it waits for its  *)
(* delay it was put there after the thread got hold of it.                 *)
HeldInv ==
    \A t \in Threads : \A c \in HeldBy(t) :
      /\ c \notin FreeSet
      /\ c \in m_RecyConnectionList => PutTime(c) >= since[t]

(* An open descriptor serves an object in use that knows the descriptor by *)
(* its number.                                                             *)
SocketInv ==
    \A f \in Fds : socketOf[f] \in Objects => socketOf[f] \in InUse /\ SockFd(socketOf[f]) = f

(* The client that is being accepted is known to nobody else yet.          *)
OpeningInv ==
    pc[Epoll] = "opening" =>
      /\ conn[Epoll] \in InUse
      /\ SockFd(conn[Epoll]) = fd[Epoll]
      /\ conn[Epoll] \notin batch
      /\ \A t \in LogicThreads : pc[t] # "idle" => conn[t] # conn[Epoll]

(* A thread about to close has loaded the object's descriptor, or another  *)
(* thread has closed it meanwhile; a waiting object has no descriptor.     *)
CloseInv ==
    /\ \A t \in Threads :
         /\ pc[t] = "fdLoaded" => fd[t] = SockFd(conn[t]) \/ SockFd(conn[t]) = NoFd
         /\ pc[t] = "fdClosed" => SockFd(conn[t]) = NoFd
    /\ \A c \in m_RecyConnectionList : SockFd(c) = NoFd

SafeInv ==
    /\ TimeInv
    /\ HeldInv
    /\ SocketInv
    /\ OpeningInv
    /\ CloseInv
    /\ SequenceCheckExact
    /\ OnePlace

-----------------------------------------------------------------------------
(* The free list as a set.                                                 *)

FreeDistinct ==
    \A i, j \in 1 .. Len(m_FreeConnectionList) :
      m_FreeConnectionList[i] = m_FreeConnectionList[j] => i = j

(* A step that touches none of the lists leaves every object in its place. *)
LEMMA SamePlaces ==
    ASSUME UNCHANGED <<m_ConnectionList, m_FreeConnectionList, m_RecyConnectionList>>
    PROVE  Objects' = Objects /\ FreeSet' = FreeSet /\ InUse' = InUse
<1>1. Objects' = Objects
  BY DEF Objects
<1>2. FreeSet' = FreeSet
  BY DEF FreeSet
<1>3. QED
  BY <1>1, <1>2 DEF InUse, Listeners

(* Taking the oldest free object removes it, and nothing else, from the    *)
(* free set.                                                               *)
LEMMA TakeHead ==
    ASSUME TypeOK, FreeDistinct, m_FreeConnectionList # <<>>,
           m_FreeConnectionList' = Tail(m_FreeConnectionList),
           NEW c, c = Head(m_FreeConnectionList)
    PROVE  c \in FreeSet /\ FreeSet' = FreeSet \ {c} /\ FreeDistinct'
<1> DEFINE s == m_FreeConnectionList
           rest == Tail(s)
<1>1. /\ s \in Seq(Objects) /\ Len(s) \in Nat \ {0}
      /\ Len(rest) = Len(s) - 1
      /\ \A i \in 1 .. Len(rest) : rest[i] = s[i + 1]
  BY EmptySeq, HeadTailProperties DEF TypeOK
<1>2. c = s[1]
  BY <1>1
<1>3. c \in FreeSet
  BY <1>1, <1>2 DEF FreeSet
<1>4. \A i \in 1 .. Len(rest) : i + 1 \in 1 .. Len(s) /\ i + 1 # 1
  BY <1>1
<1>5. \A j \in 1 .. Len(s) : j # 1 => j - 1 \in 1 .. Len(rest) /\ s[j] = rest[j - 1]
  <2>1. ASSUME NEW j \in 1 .. Len(s), j # 1 PROVE j - 1 \in 1 .. Len(rest) /\ (j - 1) + 1 = j
    BY <1>1, <2>1
  <2>2. QED
    BY <1>1, <2>1
<1>6. m_FreeConnectionList' = rest
  OBVIOUS
<1> HIDE DEF rest
<1>7. FreeSet' = {rest[i] : i \in 1 .. Len(rest)}
  BY <1>6 DEF FreeSet
<1>8. ASSUME NEW d \in FreeSet, d # c PROVE d \in FreeSet'
  <2>1. PICK j \in 1 .. Len(s) : d = s[j]
    BY DEF FreeSet
  <2>2. QED
    BY <1>2, <1>5, <1>7, <1>8, <2>1
<1>9. ASSUME NEW d \in FreeSet' PROVE d \in FreeSet /\ d # c
  <2>1. PICK i \in 1 .. Len(rest) : d = rest[i]
    BY <1>7, <1>9
  <2>2. d = s[i + 1] /\ i + 1 \in 1 .. Len(s) /\ i + 1 # 1
    BY <1>1, <1>4, <2>1
  <2>3. QED
    BY <1>1, <1>2, <2>2 DEF FreeSet, FreeDistinct
<1>10. FreeDistinct'
  <2>1. ASSUME NEW i \in 1 .. Len(rest), NEW j \in 1 .. Len(rest), rest[i] = rest[j]
        PROVE  i = j
    <3>1. s[i + 1] = s[j + 1]
      BY <1>1, <2>1
    <3>2. i + 1 = j + 1
      BY <1>4, <3>1 DEF FreeDistinct
    <3>3. QED
      BY <1>1, <3>2
  <2>2. QED
    BY <1>6, <2>1 DEF FreeDistinct
<1>11. QED
  BY <1>3, <1>8, <1>9, <1>10

(* FreeConnection of an object that is not free adds it to the free set.   *)
LEMMA PutLast ==
    ASSUME TypeOK, FreeDistinct, NEW c \in Objects, c \notin FreeSet,
           m_FreeConnectionList' = Append(m_FreeConnectionList, c)
    PROVE  FreeSet' = FreeSet \cup {c} /\ FreeDistinct'
<1> DEFINE s == m_FreeConnectionList
           more == Append(s, c)
<1>1. /\ s \in Seq(Objects) /\ Len(s) \in Nat
      /\ Len(more) = Len(s) + 1
      /\ \A i \in 1 .. Len(s) : more[i] = s[i]
      /\ more[Len(s) + 1] = c
  BY AppendProperties, LenProperties DEF TypeOK
<1>2. m_FreeConnectionList' = more
  OBVIOUS
<1> HIDE DEF more
<1>3. FreeSet' = {more[i] : i \in 1 .. Len(s) + 1}
  BY <1>1, <1>2 DEF FreeSet
<1>4. \A i \in 1 .. Len(s) + 1 : i \in 1 .. Len(s) \/ i = Len(s) + 1
  BY <1>1
<1>5. 1 .. Len(s) \subseteq 1 .. Len(s) + 1 /\ Len(s) + 1 \in 1 .. Len(s) + 1
  BY <1>1
<1>6. FreeSet' = FreeSet \cup {c}
  <2>1. ASSUME NEW d \in FreeSet' PROVE d \in FreeSet \cup {c}
    BY <1>1, <1>3, <1>4, <2>1 DEF FreeSet
  <2>2. ASSUME NEW d \in FreeSet \cup {c} PROVE d \in FreeSet'
    BY <1>1, <1>3, <1>5, <2>2 DEF FreeSet
  <2>3. QED
    BY <2>1, <2>2
<1>7. FreeDistinct'
  <2>1. \A i \in 1 .. Len(s) : more[i] # c
    BY <1>1 DEF FreeSet
  <2>2. ASSUME NEW i \in 1 .. Len(s) + 1, NEW j \in 1 .. Len(s) + 1, more[i] = more[j]
        PROVE  i = j
    BY <1>1, <1>4, <2>1, <2>2 DEF FreeDistinct
  <2>3. QED
    BY <1>1, <1>2, <2>2 DEF FreeDistinct
<1>8. QED
  BY <1>6, <1>7

-----------------------------------------------------------------------------
(* The initial state is safe: no thread holds anything, no client is open. *)

LEMMA InitSafeInv == Init => SafeInv
<1> SUFFICES ASSUME Init PROVE SafeInv
  OBVIOUS
<1> USE PoolConstants DEF Init, Threads
<1>1. TypeInv
  BY InitTypeInv
<1>2. m_RecyConnectionList = {} /\ batch = {} /\ msgs = {} /\ \A t \in Threads : pc[t] = "idle"
  OBVIOUS
<1>3. TimeInv
  BY <1>2 DEF TimeInv, Busy
<1>4. HeldInv
  BY <1>2 DEF HeldInv, HeldBy
<1>5. SocketInv
  BY DEF SocketInv, Objects, Closed
<1>6. OpeningInv /\ CloseInv
  BY <1>2 DEF OpeningInv, CloseInv
<1>7. SequenceCheckExact
  BY <1>2 DEF SequenceCheckExact
<1>8. OnePlace
  <2> DEFINE n == Larger(EpollCreateConnectCount, ListenPortCount)
  <2>1. n \in Nat /\ ListenPortCount <= n
    BY DEF Larger
  <2>2. Len(m_ConnectionList) = n
    <3>1. m_ConnectionList \in [1 .. n -> {m_ConnectionList[c] : c \in 1 .. n}]
      OBVIOUS
    <3>2. QED
      BY <2>1, <3>1, FunctionIsSequence
  <2>3. n - ListenPortCount \in Nat
    BY <2>1
  <2>4. Len(m_FreeConnectionList) = n - ListenPortCount
    <3> DEFINE k == n - ListenPortCount
               S == {m_FreeConnectionList[i] : i \in 1 .. k}
    <3>1. m_FreeConnectionList \in [1 .. k -> S]
      BY <2>2
    <3>2. k \in Nat
      BY <2>3
    <3> HIDE DEF k, S
    <3>3. Len(m_FreeConnectionList) = k
      BY <3>1, <3>2, FunctionIsSequence
    <3>4. QED
      BY <3>3 DEF k
  <2>5. \A i \in 1 .. Len(m_FreeConnectionList) : m_FreeConnectionList[i] = ListenPortCount + i
    BY <2>2, <2>4
  <2> HIDE DEF n, Init
  <2>6. \A i, j \in 1 .. Len(m_FreeConnectionList) :
          m_FreeConnectionList[i] = m_FreeConnectionList[j] => i = j
    BY <2>3, <2>4, <2>5
  <2>7. FreeSet \cap Listeners = {}
    BY <1>1 DEF TypeInv, StepInv, FreeSet
  <2>8. QED
    BY <1>2, <2>6, <2>7 DEF OnePlace
<1>9. QED
  BY <1>3, <1>4, <1>5, <1>6, <1>7, <1>8 DEF SafeInv

-----------------------------------------------------------------------------
(* Steps that leave the lists alone.                                       *)

(* The part of the invariant that says nothing about the clock.            *)
PlacesInv ==
    /\ HeldInv
    /\ SocketInv
    /\ OpeningInv
    /\ CloseInv
    /\ SequenceCheckExact
    /\ OnePlace

(* What a step that changes neither lists nor descriptors keeps anyway.    *)
LEMMA SameLists ==
    ASSUME PlacesInv, UNCHANGED <<lists, recy, socketOf>>
    PROVE  /\ Objects' = Objects /\ FreeSet' = FreeSet /\ InUse' = InUse
           /\ SocketInv' /\ OnePlace'
           /\ \A c \in m_RecyConnectionList' : SockFd(c)' = NoFd
<1> USE DEF lists, recy
<1>1. Objects' = Objects /\ FreeSet' = FreeSet /\ InUse' = InUse
  BY SamePlaces
<1>2. SocketInv'
  BY <1>1 DEF PlacesInv, SocketInv, SockFd
<1>3. OnePlace'
  BY <1>1 DEF PlacesInv, OnePlace, Listeners
<1>4. \A c \in m_RecyConnectionList' : SockFd(c)' = NoFd
  BY DEF PlacesInv, CloseInv, SockFd
<1>5. QED
  BY <1>1, <1>2, <1>3, <1>4

(* A step of the clock, of the recycler outside FreeConnection, or of a    *)
(* worker that exits: no list, descriptor or thread changes.               *)
LEMMA StillStep ==
    ASSUME PlacesInv, UNCHANGED <<lists, recy, socketOf, threads, batch, msgs>>
    PROVE  PlacesInv'
<1>1. /\ Objects' = Objects /\ FreeSet' = FreeSet /\ InUse' = InUse
      /\ SocketInv' /\ OnePlace'
      /\ \A c \in m_RecyConnectionList' : SockFd(c)' = NoFd
  BY SameLists
<1> USE DEF lists, recy, threads
<1>2. HeldInv'
  BY <1>1 DEF PlacesInv, HeldInv, HeldBy, PutTime, Threads
<1>3. OpeningInv'
  BY <1>1 DEF PlacesInv, OpeningInv, SockFd
<1>4. CloseInv'
  BY <1>1 DEF PlacesInv, CloseInv, SockFd, Threads
<1>5. SequenceCheckExact'
  BY <1>1 DEF PlacesInv, SequenceCheckExact, Sequence, Opening
<1>6. QED
  BY <1>1, <1>2, <1>3, <1>4, <1>5 DEF PlacesInv

(* Fetching events: a registered object is in use, so neither free nor     *)
(* waiting when the epoll thread gets hold of it.                          *)
LEMMA EpollWaitSafe ==
    ASSUME TypeInv, PlacesInv, EpollWait
    PROVE  PlacesInv'
<1> USE DEF EpollWait, TypeInv
<1>1. /\ Objects' = Objects /\ FreeSet' = FreeSet /\ InUse' = InUse
      /\ SocketInv' /\ OnePlace'
      /\ \A c \in m_RecyConnectionList' : SockFd(c)' = NoFd
  BY SameLists
<1> USE DEF lists, recy
<1>2. \A c \in batch' : c \notin FreeSet /\ c \notin m_RecyConnectionList
  BY DEF PlacesInv, SocketInv, Registered, InUse, OnePlace
<1>3. HeldInv'
  <2>1. ASSUME NEW t \in Threads, NEW c \in HeldBy(t)', t = Epoll
        PROVE  c \notin FreeSet' /\ c \notin m_RecyConnectionList'
    BY <1>1, <1>2, <2>1 DEF HeldBy
  <2>2. ASSUME NEW t \in Threads, NEW c \in HeldBy(t)', t # Epoll
        PROVE  c \notin FreeSet' /\ (c \in m_RecyConnectionList' => PutTime(c)' >= since'[t])
    BY <1>1, <2>2 DEF PlacesInv, HeldInv, HeldBy, PutTime, TypeOK, Threads
  <2>3. QED
    BY <2>1, <2>2 DEF HeldInv, Threads
<1>4. OpeningInv'
  BY DEF OpeningInv
<1>5. CloseInv'
  BY <1>1 DEF PlacesInv, CloseInv, SockFd, Threads
<1>6. SequenceCheckExact'
  BY <1>1 DEF PlacesInv, SequenceCheckExact, Sequence, Opening
<1>7. QED
  BY <1>1, <1>3, <1>4, <1>5, <1>6 DEF PlacesInv

(* A read event that ends without a complete packet, or an accept that     *)
(* fails, only drops the event.                                            *)
LEMMA DropEventSafe ==
    ASSUME PlacesInv, UNCHANGED <<lists, recy, socketOf, threads, msgs>>, batch' \subseteq batch
    PROVE  PlacesInv'
<1>1. /\ Objects' = Objects /\ FreeSet' = FreeSet /\ InUse' = InUse
      /\ SocketInv' /\ OnePlace'
      /\ \A c \in m_RecyConnectionList' : SockFd(c)' = NoFd
  BY SameLists
<1> USE DEF lists, recy, threads
<1>2. HeldInv'
  BY <1>1 DEF PlacesInv, HeldInv, HeldBy, PutTime, Threads
<1>3. OpeningInv'
  BY <1>1 DEF PlacesInv, OpeningInv, SockFd
<1>4. CloseInv'
  BY <1>1 DEF PlacesInv, CloseInv, SockFd, Threads
<1>5. SequenceCheckExact'
  BY <1>1 DEF PlacesInv, SequenceCheckExact, Sequence, Opening
<1>6. QED
  BY <1>1, <1>2, <1>3, <1>4, <1>5 DEF PlacesInv

(* accept gives a descriptor no object knows yet.                          *)
LEMMA AcceptClientSafe ==
    ASSUME TypeInv, PlacesInv, NEW c \in batch, AcceptClient(c)
    PROVE  PlacesInv'
<1> USE DEF AcceptClient, HandleEvent, lists, recy
<1>1. Objects' = Objects /\ FreeSet' = FreeSet /\ InUse' = InUse
  BY SamePlaces
<1>2. PICK f \in ClosedFds : socketOf' = [socketOf EXCEPT ![f] = Unregistered]
  OBVIOUS
<1>3. pc' = [pc EXCEPT ![Epoll] = "accepted"] /\ DOMAIN pc = Threads /\ pc[Epoll] = "idle"
  BY DEF TypeInv, TypeOK
<1>4. HeldInv'
  BY <1>1, <1>3 DEF PlacesInv, HeldInv, HeldBy, PutTime, Threads
<1>5. SocketInv'
  BY <1>1, <1>2
     DEF PlacesInv, SocketInv, SockFd, TypeInv, TypeOK, Objects, Unregistered, ClosedFds
<1>6. OpeningInv'
  BY <1>3 DEF OpeningInv, Threads
<1>7. CloseInv'
  BY <1>3 DEF PlacesInv, CloseInv, SockFd, Threads, TypeInv, TypeOK
<1>8. SequenceCheckExact'
  BY <1>1, <1>3 DEF PlacesInv, SequenceCheckExact, Sequence, Opening, Threads
<1>9. OnePlace'
  BY <1>1 DEF PlacesInv, OnePlace, Listeners
<1>10. QED
  BY <1>4, <1>5, <1>6, <1>7, <1>8, <1>9 DEF PlacesInv

(* A complete packet can only come from an object that serves a client: a  *)
(* waiting object has no descriptor and a fetched one is not free.         *)
LEMMA ReadMessageSafe ==
    ASSUME TypeInv, PlacesInv, NEW c \in batch, ReadMessage(c)
    PROVE  PlacesInv'
<1> USE DEF ReadMessage, HandleEvent
<1>1. /\ Objects' = Objects /\ FreeSet' = FreeSet /\ InUse' = InUse
      /\ SocketInv' /\ OnePlace'
      /\ \A d \in m_RecyConnectionList' : SockFd(d)' = NoFd
  BY SameLists
<1> USE DEF lists, recy, threads
<1>2. HeldInv'
  BY <1>1 DEF PlacesInv, HeldInv, HeldBy, PutTime, Threads
<1>3. OpeningInv'
  BY <1>1 DEF PlacesInv, OpeningInv, SockFd
<1>4. CloseInv'
  BY <1>1 DEF PlacesInv, CloseInv, SockFd, Threads
<1>5. c \in InUse \ Opening /\ Sequence(c) \in Nat
  <2>1. c \in Objects /\ c \notin Listeners
    BY DEF TypeInv, TypeOK
  <2>2. c \notin FreeSet
    BY DEF PlacesInv, HeldInv, HeldBy, Threads
  <2>3. NoFd \notin Fds
    BY PoolConstants DEF NoFd
  <2>4. c \notin m_RecyConnectionList
    BY <2>3 DEF PlacesInv, CloseInv, Readable
  <2>5. Opening = {}
    BY DEF Opening
  <2>6. QED
    BY <2>1, <2>2, <2>4, <2>5, ObjectFields DEF InUse, TypeInv
<1>6. SequenceCheckExact'
  <2>1. ASSUME NEW m \in msgs'
        PROVE  /\ m.currSequence <= Sequence(m.conn)
               /\ m.currSequence = Sequence(m.conn) => m.conn \in InUse \ Opening
    <3>1. CASE m \in msgs
      BY <3>1 DEF PlacesInv, SequenceCheckExact
    <3>2. CASE m = [conn |-> c, currSequence |-> Sequence(c)]
      BY <1>5, <3>2
    <3>3. QED
      BY <3>1, <3>2
  <2>2. QED
    BY <1>1, <2>1 DEF SequenceCheckExact, Sequence, Opening
<1>7. QED
  BY <1>1, <1>2, <1>3, <1>4, <1>6 DEF PlacesInv

(* The epoll thread starts to close an object it fetched an event for.     *)
LEMMA ReadCloseSafe ==
    ASSUME TypeInv, PlacesInv, NEW c \in batch, ReadClose(c)
    PROVE  PlacesInv'
<1> USE DEF ReadClose, HandleEvent
<1>1. /\ Objects' = Objects /\ FreeSet' = FreeSet /\ InUse' = InUse
      /\ SocketInv' /\ OnePlace'
      /\ \A d \in m_RecyConnectionList' : SockFd(d)' = NoFd
  BY SameLists
<1> USE DEF lists, recy
<1>2. /\ pc' = [pc EXCEPT ![Epoll] = "closing"] /\ conn' = [conn EXCEPT ![Epoll] = c]
      /\ DOMAIN pc = Threads /\ DOMAIN conn = Threads
  BY DEF TypeInv, TypeOK
<1>3. HeldInv'
  BY <1>1, <1>2 DEF PlacesInv, HeldInv, HeldBy, PutTime, Threads
<1>4. OpeningInv'
  BY <1>2 DEF OpeningInv, Threads
<1>5. CloseInv'
  BY <1>1, <1>2 DEF PlacesInv, CloseInv, SockFd, Threads
<1>6. SequenceCheckExact'
  BY <1>1, <1>2 DEF PlacesInv, SequenceCheckExact, Sequence, Opening, Threads
<1>7. QED
  BY <1>1, <1>3, <1>4, <1>5, <1>6 DEF PlacesInv

(* EPOLL_CTL_ADD links the accepted descriptor with the object that holds  *)
(* its number.                                                             *)
LEMMA RegisterClientSafe ==
    ASSUME TypeInv, PlacesInv, RegisterClient
    PROVE  PlacesInv'
<1> USE DEF RegisterClient, OpeningEnds, lists, recy
<1>1. Objects' = Objects /\ FreeSet' = FreeSet /\ InUse' = InUse
  BY SamePlaces
<1>2. /\ pc' = [pc EXCEPT ![Epoll] = "idle"] /\ conn' = [conn EXCEPT ![Epoll] = NoConn]
      /\ fd' = [fd EXCEPT ![Epoll] = NoFd]
      /\ DOMAIN pc = Threads /\ DOMAIN conn = Threads /\ DOMAIN fd = Threads
  BY DEF TypeInv, TypeOK
<1>3. HeldInv'
  BY <1>1, <1>2 DEF PlacesInv, HeldInv, HeldBy, PutTime, Threads
<1>4. SocketInv'
  BY <1>1 DEF PlacesInv, SocketInv, OpeningInv, SockFd, TypeInv, TypeOK
<1>5. OpeningInv'
  BY <1>2 DEF OpeningInv, Threads
<1>6. CloseInv'
  BY <1>2 DEF PlacesInv, CloseInv, SockFd, Threads
<1>7. SequenceCheckExact'
  BY <1>1, <1>2 DEF PlacesInv, SequenceCheckExact, Sequence, Opening, Threads
<1>8. OnePlace'
  BY <1>1 DEF PlacesInv, OnePlace, Listeners
<1>9. QED
  BY <1>3, <1>4, <1>5, <1>6, <1>7, <1>8 DEF PlacesInv

(* The sequence check lets a logic thread take an object only while it     *)
(* serves the message's own client.                                        *)
LEMMA HandleMessageSafe ==
    ASSUME TypeInv, PlacesInv, NEW t \in LogicThreads, NEW m \in msgs, HandleMessage(t, m)
    PROVE  PlacesInv'
<1> USE DEF HandleMessage
<1>1. /\ Objects' = Objects /\ FreeSet' = FreeSet /\ InUse' = InUse
      /\ SocketInv' /\ OnePlace'
      /\ \A d \in m_RecyConnectionList' : SockFd(d)' = NoFd
  BY SameLists
<1> USE DEF lists, recy
<1>2. /\ pc' = [pc EXCEPT ![t] = "handling"] /\ conn' = [conn EXCEPT ![t] = m.conn]
      /\ since' = [since EXCEPT ![t] = now]
      /\ DOMAIN pc = Threads /\ DOMAIN conn = Threads /\ DOMAIN since = Threads
      /\ t # Epoll /\ t \in Threads
  BY PoolConstants DEF TypeInv, TypeOK, Threads
<1>3. m.conn \in InUse \ Opening
  BY DEF PlacesInv, SequenceCheckExact
<1>4. HeldInv'
  BY <1>1, <1>2, <1>3 DEF PlacesInv, HeldInv, HeldBy, PutTime, Threads, InUse
<1>5. OpeningInv'
  BY <1>1, <1>2, <1>3 DEF PlacesInv, OpeningInv, SockFd, Opening, Threads
<1>6. CloseInv'
  BY <1>1, <1>2 DEF PlacesInv, CloseInv, SockFd, Threads
<1>7. SequenceCheckExact'
  BY <1>1, <1>2 DEF PlacesInv, SequenceCheckExact, Sequence, Opening, Threads
<1>8. QED
  BY <1>1, <1>4, <1>5, <1>6, <1>7 DEF PlacesInv

(* A handler that goes on to close its client, or that ends.               *)
LEMMA HandlerStepSafe ==
    ASSUME TypeInv, PlacesInv, NEW t \in LogicThreads, CutSlowClient(t) \/ HandlerReturns(t)
    PROVE  PlacesInv'
<1> USE DEF CutSlowClient, HandlerReturns
<1>1. /\ Objects' = Objects /\ FreeSet' = FreeSet /\ InUse' = InUse
      /\ SocketInv' /\ OnePlace'
      /\ \A d \in m_RecyConnectionList' : SockFd(d)' = NoFd
  BY SameLists
<1> USE DEF lists, recy
<1>2. /\ DOMAIN pc = Threads /\ DOMAIN conn = Threads /\ t # Epoll /\ t \in Threads
      /\ UNCHANGED <<fd, since, batch, msgs>>
  BY PoolConstants DEF TypeInv, TypeOK, Threads
<1>3. \/ pc[t] = "handling" /\ pc' = [pc EXCEPT ![t] = "closing"] /\ conn' = conn
      \/ pc' = [pc EXCEPT ![t] = "idle"] /\ conn' = [conn EXCEPT ![t] = NoConn]
  OBVIOUS
<1>4. HeldInv'
  BY <1>1, <1>2, <1>3 DEF PlacesInv, HeldInv, HeldBy, PutTime, Threads
<1>5. OpeningInv'
  BY <1>1, <1>2, <1>3 DEF PlacesInv, OpeningInv, SockFd, Threads
<1>6. CloseInv'
  BY <1>1, <1>2, <1>3 DEF PlacesInv, CloseInv, SockFd, Threads
<1>7. SequenceCheckExact'
  BY <1>1, <1>2, <1>3 DEF PlacesInv, SequenceCheckExact, Sequence, Opening, Threads
<1>8. QED
  BY <1>1, <1>4, <1>5, <1>6, <1>7 DEF PlacesInv

(* Loading the number that is about to be closed.                          *)
LEMMA LoadFdSafe ==
    ASSUME TypeInv, PlacesInv, NEW t \in Threads, LoadFd(t)
    PROVE  PlacesInv'
<1> USE DEF LoadFd
<1>1. /\ Objects' = Objects /\ FreeSet' = FreeSet /\ InUse' = InUse
      /\ SocketInv' /\ OnePlace'
      /\ \A d \in m_RecyConnectionList' : SockFd(d)' = NoFd
  BY SameLists
<1> USE DEF lists, recy
<1>2. /\ DOMAIN pc = Threads /\ DOMAIN fd = Threads
      /\ pc' = [pc EXCEPT ![t] = "fdLoaded"] /\ fd' = [fd EXCEPT ![t] = SockFd(conn[t])]
  BY DEF TypeInv, TypeOK
<1>3. HeldInv'
  BY <1>1, <1>2 DEF PlacesInv, HeldInv, HeldBy, PutTime, Threads
<1>4. OpeningInv'
  BY <1>1, <1>2 DEF PlacesInv, OpeningInv, SockFd, Threads
<1>5. CloseInv'
  BY <1>1, <1>2 DEF PlacesInv, CloseInv, SockFd, Threads
<1>6. SequenceCheckExact'
  BY <1>1, <1>2 DEF PlacesInv, SequenceCheckExact, Sequence, Opening, Threads
<1>7. QED
  BY <1>1, <1>3, <1>4, <1>5, <1>6 DEF PlacesInv

(* Closing the loaded number: whatever descriptor it hits, the closing     *)
(* thread's own object has none afterwards, and is not the one being       *)
(* opened.                                                                 *)
LEMMA CloseFdSafe ==
    ASSUME TypeInv, PlacesInv, NEW t \in Threads, CloseFd(t)
    PROVE  PlacesInv'
<1> DEFINE c == conn[t]
<1>1. c \in Objects /\ t \in Threads
  BY DEF CloseFd, TypeInv, StepInv
<1>2. /\ OnlyChanged(c, Sequence(c), PutTime(c), NoFd)
      /\ \A d \in Objects : SockFd(d) \in Fds \cup {NoFd}
  BY <1>1, CloseEffect, ObjectFields DEF TypeInv
<1>3. /\ UNCHANGED <<m_FreeConnectionList, m_RecyConnectionList, batch, msgs, conn, since>>
      /\ DOMAIN pc = Threads /\ DOMAIN fd = Threads /\ pc[t] = "fdLoaded"
      /\ pc' = [pc EXCEPT ![t] = "fdClosed"] /\ fd' = [fd EXCEPT ![t] = NoFd]
      /\ socketOf' = [f \in Fds |-> IF f = fd[t] THEN Closed ELSE socketOf[f]]
  BY DEF CloseFd, recy, TypeInv, TypeOK
<1>4. Objects' = Objects
  BY <1>2 DEF OnlyChanged, Objects
<1>5. FreeSet' = FreeSet
  BY <1>3 DEF FreeSet
<1>6. InUse' = InUse
  BY <1>3, <1>4, <1>5 DEF InUse, Listeners
<1>7. \A d \in Objects : /\ Sequence(d)' = Sequence(d) /\ PutTime(d)' = PutTime(d)
                         /\ SockFd(d)' = IF d = c THEN NoFd ELSE SockFd(d)
  BY <1>2 DEF OnlyChanged
<1>8. \A u \in Threads : pc[u] \in {"fdLoaded", "fdClosed", "opening"} => conn[u] \in Objects
  BY DEF TypeInv, StepInv
<1> HIDE DEF c
<1>9. HeldInv'
  <2>1. \A u \in Threads : HeldBy(u)' \subseteq HeldBy(u)
    BY <1>3 DEF HeldBy
  <2>2. m_RecyConnectionList \subseteq Objects
    BY DEF TypeInv, TypeOK
  <2>3. ASSUME NEW u \in Threads, NEW d \in HeldBy(u)'
        PROVE  /\ d \notin FreeSet'
               /\ d \in m_RecyConnectionList' => PutTime(d)' >= since'[u]
    BY <1>3, <1>5, <1>7, <2>1, <2>2 DEF PlacesInv, HeldInv
  <2>4. QED
    BY <2>3 DEF HeldInv, Threads
<1>10. SocketInv'
  <2>1. NoFd \notin Fds /\ Closed \notin Objects
    BY PoolConstants DEF NoFd, Closed, Objects
  <2>2. fd[t] = SockFd(c) \/ SockFd(c) = NoFd
    BY <1>3 DEF PlacesInv, CloseInv, c
  <2>3. ASSUME NEW f \in Fds, socketOf'[f] \in Objects
        PROVE  socketOf'[f] \in InUse /\ m_ConnectionList'[socketOf'[f]].sockFd = f
    <3>1. socketOf'[f] = socketOf[f] /\ f # fd[t]
      BY <1>3, <2>1, <2>3
    <3>2. socketOf[f] \in InUse /\ SockFd(socketOf[f]) = f
      BY <2>3, <3>1 DEF PlacesInv, SocketInv
    <3>3. socketOf[f] # c
      BY <2>1, <2>2, <3>1, <3>2
    <3>4. m_ConnectionList'[socketOf[f]].sockFd = f
      BY <1>7, <2>3, <3>1, <3>2, <3>3 DEF SockFd
    <3>5. QED
      BY <3>1, <3>2, <3>4
  <2>4. QED
    BY <1>4, <1>6, <2>3 DEF SocketInv, SockFd
<1>11. OpeningInv'
  <2>1. SUFFICES ASSUME pc'[Epoll] = "opening" PROVE OpeningInv'
    BY DEF OpeningInv
  <2>2. pc[Epoll] = "opening" /\ t # Epoll /\ Epoll \in Threads
    BY <1>3, <2>1 DEF Threads
  <2>3. /\ conn[Epoll] \in InUse /\ SockFd(conn[Epoll]) = fd[Epoll] /\ conn[Epoll] \notin batch
        /\ \A u \in LogicThreads : pc[u] # "idle" => conn[u] # conn[Epoll]
    BY <2>2 DEF PlacesInv, OpeningInv
  <2>4. c # conn[Epoll] /\ conn[Epoll] \in Objects
    BY <1>3, <1>8, <2>2, <2>3 DEF Threads, c
  <2>5. m_ConnectionList'[conn[Epoll]].sockFd = fd[Epoll]
    BY <1>7, <2>3, <2>4 DEF SockFd
  <2>6. QED
    BY <1>3, <1>6, <2>2, <2>3, <2>5 DEF OpeningInv, SockFd, Threads
<1>12. CloseInv'
  <2>1. \A d \in m_RecyConnectionList' : SockFd(d)' = NoFd
    BY <1>3, <1>7 DEF PlacesInv, CloseInv, TypeInv, TypeOK
  <2>2. ASSUME NEW u \in Threads, pc'[u] = "fdLoaded"
        PROVE  fd'[u] = m_ConnectionList'[conn[u]].sockFd \/ m_ConnectionList'[conn[u]].sockFd = NoFd
    BY <1>3, <1>7, <1>8, <2>2 DEF PlacesInv, CloseInv, SockFd
  <2>3. ASSUME NEW u \in Threads, pc'[u] = "fdClosed"
        PROVE  m_ConnectionList'[conn[u]].sockFd = NoFd
    BY <1>1, <1>3, <1>7, <1>8, <2>3 DEF PlacesInv, CloseInv, SockFd, c
  <2>4. QED
    BY <1>3, <2>1, <2>2, <2>3 DEF CloseInv, SockFd, Threads
<1>13. SequenceCheckExact'
  <2>1. \A m \in msgs : m.conn \in Objects
    BY DEF TypeInv, TypeOK
  <2>2. Opening' = Opening
    BY <1>3 DEF Opening, Threads
  <2>3. \A m \in msgs : m_ConnectionList'[m.conn].currSequence = Sequence(m.conn)
    BY <1>7, <2>1 DEF Sequence
  <2>4. QED
    BY <1>3, <1>6, <2>2, <2>3 DEF PlacesInv, SequenceCheckExact, Sequence
<1>14. OnePlace'
  BY <1>3, <1>5 DEF PlacesInv, OnePlace, Listeners
<1>15. QED
  BY <1>9, <1>10, <1>11, <1>12, <1>13, <1>14 DEF PlacesInv

(* A second close of an object that waits already changes no list.         *)
LEMMA PushAgainSafe ==
    ASSUME TypeInv, PlacesInv, NEW t \in Threads, PushConnectToRecyQueue(t),
           conn[t] \in m_RecyConnectionList
    PROVE  PlacesInv'
<1> USE DEF PushConnectToRecyQueue, EnqueueOnce
<1>1. /\ Objects' = Objects /\ FreeSet' = FreeSet /\ InUse' = InUse
      /\ SocketInv' /\ OnePlace'
      /\ \A d \in m_RecyConnectionList' : SockFd(d)' = NoFd
  BY SameLists
<1> USE DEF lists, recy
<1>2. /\ DOMAIN pc = Threads /\ DOMAIN conn = Threads
      /\ pc' = [pc EXCEPT ![t] = IF t = Epoll THEN "idle" ELSE "leaving"]
      /\ conn' = [conn EXCEPT ![t] = IF t = Epoll THEN NoConn ELSE @]
      /\ UNCHANGED <<m_ConnectionList, m_RecyConnectionList, fd, since, batch, msgs>>
      /\ pc[t] = "fdClosed"
  BY DEF TypeInv, TypeOK
<1>3. HeldInv'
  BY <1>1, <1>2 DEF PlacesInv, HeldInv, HeldBy, PutTime, Threads
<1>4. OpeningInv'
  BY <1>1, <1>2 DEF PlacesInv, OpeningInv, SockFd, Threads
<1>5. CloseInv'
  BY <1>1, <1>2 DEF PlacesInv, CloseInv, SockFd, Threads
<1>6. SequenceCheckExact'
  BY <1>1, <1>2 DEF PlacesInv, SequenceCheckExact, Sequence, Opening, Threads
<1>7. QED
  BY <1>1, <1>3, <1>4, <1>5, <1>6 DEF PlacesInv

(* The first close puts the object on the recycling list with a put time   *)
(* that no thread's pointer predates, and moves its sequence past every    *)
(* queued message.                                                         *)
LEMMA PushSafe ==
    ASSUME TypeInv, TimeInv, PlacesInv, NEW t \in Threads, PushConnectToRecyQueue(t),
           conn[t] \notin m_RecyConnectionList
    PROVE  PlacesInv'
<1> DEFINE c == conn[t]
<1>1. c \in Objects /\ c \notin Listeners /\ t \in Threads /\ pc[t] = "fdClosed" /\ EnqueueOnce(c)
  BY DEF PushConnectToRecyQueue, TypeInv, StepInv
<1>2. /\ OnlyChanged(c, Sequence(c) + 1, now, SockFd(c))
      /\ m_RecyConnectionList' = m_RecyConnectionList \cup {c}
      /\ UNCHANGED m_FreeConnectionList
  BY <1>1, EnqueueEffect DEF TypeInv
<1>3. /\ UNCHANGED <<socketOf, batch, msgs, fd, since>>
      /\ DOMAIN pc = Threads /\ DOMAIN conn = Threads
      /\ pc' = [pc EXCEPT ![t] = IF t = Epoll THEN "idle" ELSE "leaving"]
      /\ conn' = [conn EXCEPT ![t] = IF t = Epoll THEN NoConn ELSE @]
  BY DEF PushConnectToRecyQueue, TypeInv, TypeOK
<1>4. Objects' = Objects
  BY <1>2 DEF OnlyChanged, Objects
<1>5. FreeSet' = FreeSet
  BY <1>2 DEF FreeSet
<1>6. InUse' = InUse \ {c}
  BY <1>2, <1>4, <1>5 DEF InUse, Listeners
<1>7. \A d \in Objects : /\ Sequence(d)' = IF d = c THEN Sequence(d) + 1 ELSE Sequence(d)
                         /\ PutTime(d)' = IF d = c THEN now ELSE PutTime(d)
                         /\ SockFd(d)' = SockFd(d)
  BY <1>2 DEF OnlyChanged
<1>8. SockFd(c) = NoFd /\ c \notin FreeSet
  BY <1>1 DEF PlacesInv, CloseInv, HeldInv, HeldBy
<1>9. NoFd \notin Fds
  BY PoolConstants DEF NoFd
<1>10. \A u \in Threads : pc[u] \in {"fdLoaded", "fdClosed", "opening"} => conn[u] \in Objects
  BY DEF TypeInv, StepInv
<1>11. \A u \in Threads : pc'[u] \in {"fdLoaded", "fdClosed", "opening"} =>
         u # t /\ pc'[u] = pc[u] /\ conn'[u] = conn[u]
  BY <1>3
<1>12. pc[Epoll] = "opening" => conn[Epoll] # c
  BY <1>1 DEF PlacesInv, OpeningInv, Threads
<1> HIDE DEF c
<1>13. HeldInv'
  <2>1. \A u \in Threads : HeldBy(u)' \subseteq HeldBy(u)
    BY <1>1, <1>3 DEF HeldBy
  <2>2. m_RecyConnectionList \subseteq Objects
    BY DEF TypeInv, TypeOK
  <2>3. \A u \in Threads : \A d \in HeldBy(u) : now >= since[u]
    BY DEF TimeInv, Busy, HeldBy
  <2>4. ASSUME NEW u \in Threads, NEW d \in HeldBy(u)'
        PROVE  /\ d \notin FreeSet'
               /\ d \in m_RecyConnectionList' => PutTime(d)' >= since'[u]
    BY <1>1, <1>2, <1>3, <1>5, <1>7, <2>1, <2>2, <2>3, <2>4 DEF PlacesInv, HeldInv
  <2>5. QED
    BY <2>4 DEF HeldInv, Threads
<1>14. SocketInv'
  <2>1. ASSUME NEW f \in Fds, socketOf[f] \in Objects
        PROVE  socketOf[f] \in InUse \ {c} /\ m_ConnectionList'[socketOf[f]].sockFd = f
    <3>1. socketOf[f] \in InUse /\ SockFd(socketOf[f]) = f
      BY <2>1 DEF PlacesInv, SocketInv
    <3>2. socketOf[f] # c
      BY <1>8, <1>9, <3>1
    <3>3. QED
      BY <1>7, <2>1, <3>1, <3>2 DEF SockFd
  <2>2. QED
    BY <1>3, <1>4, <1>6, <2>1 DEF SocketInv, SockFd
<1>15. OpeningInv'
  <2>1. SUFFICES ASSUME pc'[Epoll] = "opening" PROVE OpeningInv'
    BY DEF OpeningInv
  <2>2. pc[Epoll] = "opening" /\ t # Epoll /\ conn'[Epoll] = conn[Epoll] /\ conn[Epoll] \in Objects
    BY <1>10, <1>11, <2>1 DEF Threads
  <2>3. /\ conn[Epoll] \in InUse \ {c}
        /\ SockFd(conn[Epoll]) = fd[Epoll] /\ conn[Epoll] \notin batch
        /\ \A u \in LogicThreads : pc[u] # "idle" => conn[u] # conn[Epoll]
    BY <1>12, <2>2 DEF PlacesInv, OpeningInv
  <2>4. m_ConnectionList'[conn[Epoll]].sockFd = fd[Epoll]
    BY <1>7, <2>2, <2>3 DEF SockFd
  <2>5. \A u \in LogicThreads : conn'[u] = conn[u] /\ (pc'[u] # "idle" => pc[u] # "idle")
    BY <1>1, <1>3, PoolConstants DEF Threads
  <2>6. QED
    BY <1>3, <1>6, <2>2, <2>3, <2>4, <2>5 DEF OpeningInv, SockFd
<1>16. CloseInv'
  <2>1. m_RecyConnectionList \subseteq Objects
    BY DEF TypeInv, TypeOK
  <2>2. \A d \in m_RecyConnectionList' : SockFd(d)' = NoFd
    BY <1>1, <1>2, <1>7, <1>8, <2>1 DEF PlacesInv, CloseInv
  <2>3. \A u \in Threads : pc[u] \in {"fdLoaded", "fdClosed"} =>
          m_ConnectionList'[conn[u]].sockFd = SockFd(conn[u])
    BY <1>7, <1>10 DEF SockFd
  <2>4. QED
    BY <1>3, <1>11, <2>2, <2>3 DEF PlacesInv, CloseInv, SockFd, Threads
<1>17. SequenceCheckExact'
  <2>1. \A m \in msgs : m.conn \in Objects /\ m.currSequence \in Nat
    BY DEF TypeInv, TypeOK
  <2>2. Opening' = Opening
    BY <1>1, <1>3, <1>11 DEF Opening, Threads
  <2>3. ASSUME NEW m \in msgs
        PROVE  /\ m.currSequence <= m_ConnectionList'[m.conn].currSequence
               /\ m.currSequence = m_ConnectionList'[m.conn].currSequence =>
                    m.conn \in (InUse \ {c}) \ Opening
    <3>1. /\ m.currSequence <= Sequence(m.conn)
          /\ m.currSequence = Sequence(m.conn) => m.conn \in InUse \ Opening
      BY DEF PlacesInv, SequenceCheckExact
    <3>2. Sequence(m.conn) \in Nat
      BY <2>1, ObjectFields DEF TypeInv
    <3>3. CASE m.conn = c
      <4>1. m_ConnectionList'[m.conn].currSequence = Sequence(m.conn) + 1
        BY <1>7, <2>1, <3>3 DEF Sequence
      <4>2. QED
        BY <2>1, <3>1, <3>2, <4>1
    <3>4. CASE m.conn # c
      <4>1. m_ConnectionList'[m.conn].currSequence = Sequence(m.conn)
        BY <1>7, <2>1, <3>4 DEF Sequence
      <4>2. QED
        BY <3>1, <3>4, <4>1
    <3>5. QED
      BY <3>3, <3>4
  <2>4. QED
    BY <1>3, <1>6, <2>2, <2>3 DEF SequenceCheckExact, Sequence
<1>18. OnePlace'
  BY <1>1, <1>2, <1>5, <1>8 DEF PlacesInv, OnePlace, Listeners
<1>19. QED
  BY <1>13, <1>14, <1>15, <1>16, <1>17, <1>18 DEF PlacesInv

(* An expired object is held by nobody: whoever held it when it was put on *)
(* the recycling list has returned since, because no handler runs for the  *)
(* whole delay.                                                            *)
LEMMA ExpiredNotHeld ==
    ASSUME MaxHandlingTime < DelayRecoveryConnectionWaitTime,
           TypeInv, TimeInv, PlacesInv, NEW c \in m_RecyConnectionList, Expired(c)
    PROVE  \A t \in Threads : c \notin HeldBy(t)
<1> SUFFICES ASSUME NEW t \in Threads, c \in HeldBy(t) PROVE FALSE
  OBVIOUS
<1>1. PutTime(c) >= since[t]
  BY DEF PlacesInv, HeldInv
<1>2. Busy(t)
  BY DEF HeldBy, Busy
<1>3. since[t] <= now /\ now - since[t] <= MaxHandlingTime /\ CurrentTime <= now
  BY <1>2 DEF TimeInv
<1>4. /\ PutTime(c) \in Nat /\ since[t] \in Nat /\ now \in Nat /\ CurrentTime \in Nat
  BY ObjectFields DEF TypeInv, TypeOK
<1>5. PutTime(c) + DelayRecoveryConnectionWaitTime <= CurrentTime
  BY DEF Expired
<1>6. QED
  BY <1>1, <1>3, <1>4, <1>5, PoolConstants

(* So FreeConnection puts an object on the free list once, and under       *)
(* nobody's feet.                                                          *)
LEMMA RecycleSafe ==
    ASSUME MaxHandlingTime < DelayRecoveryConnectionWaitTime,
           TypeInv, TimeInv, PlacesInv, NEW c \in m_RecyConnectionList, RecycleConnection(c)
    PROVE  PlacesInv'
<1>1. c \in Objects /\ c \notin Listeners /\ FreeConnection(c)
  BY DEF RecycleConnection, TypeInv, TypeOK, StepInv
<1>2. /\ OnlyChanged(c, Sequence(c) + 1, PutTime(c), SockFd(c))
      /\ m_RecyConnectionList' = m_RecyConnectionList \ {c}
      /\ UNCHANGED <<socketOf, batch, msgs, pc, conn, fd, since>>
  BY <1>1, FreeEffect DEF RecycleConnection, TypeInv, threads
<1>3. \A t \in Threads : c \notin HeldBy(t)
  BY ExpiredNotHeld DEF RecycleConnection
<1>4. c \notin FreeSet
  BY DEF PlacesInv, OnePlace
<1>5. FreeSet' = FreeSet \cup {c} /\ FreeDistinct'
  BY <1>1, <1>4, PutLast DEF FreeConnection, TypeInv, PlacesInv, OnePlace, FreeDistinct
<1>6. Objects' = Objects
  BY <1>2 DEF OnlyChanged, Objects
<1>7. InUse' = InUse
  BY <1>2, <1>5, <1>6 DEF InUse, Listeners
<1>8. \A d \in Objects : /\ Sequence(d)' = IF d = c THEN Sequence(d) + 1 ELSE Sequence(d)
                         /\ PutTime(d)' = PutTime(d)
                         /\ SockFd(d)' = SockFd(d)
  BY <1>2 DEF OnlyChanged
<1>9. m_RecyConnectionList \subseteq Objects
  BY DEF TypeInv, TypeOK
<1>10. \A t \in Threads : pc[t] \in {"fdLoaded", "fdClosed", "opening"} => conn[t] \in Objects
  BY DEF TypeInv, StepInv
<1>11. HeldInv'
  <2>1. \A t \in Threads : HeldBy(t)' = HeldBy(t)
    BY <1>2 DEF HeldBy
  <2>2. ASSUME NEW t \in Threads, NEW d \in HeldBy(t)'
        PROVE  /\ d \notin FreeSet'
               /\ d \in m_RecyConnectionList' => PutTime(d)' >= since'[t]
    BY <1>2, <1>3, <1>5, <1>8, <1>9, <2>1, <2>2 DEF PlacesInv, HeldInv
  <2>3. QED
    BY <2>2 DEF HeldInv, Threads
<1>12. SocketInv'
  <2>1. \A f \in Fds : socketOf[f] \in Objects =>
          m_ConnectionList'[socketOf[f]].sockFd = SockFd(socketOf[f])
    BY <1>8 DEF SockFd
  <2>2. QED
    BY <1>2, <1>6, <1>7, <2>1 DEF PlacesInv, SocketInv, SockFd
<1>13. OpeningInv'
  <2>1. pc[Epoll] = "opening" => m_ConnectionList'[conn[Epoll]].sockFd = SockFd(conn[Epoll])
    BY <1>8, <1>10 DEF SockFd, Threads
  <2>2. QED
    BY <1>2, <1>7, <2>1 DEF PlacesInv, OpeningInv, SockFd
<1>14. CloseInv'
  <2>1. \A d \in m_RecyConnectionList' : SockFd(d)' = NoFd
    BY <1>2, <1>8, <1>9 DEF PlacesInv, CloseInv
  <2>2. \A t \in Threads : pc[t] \in {"fdLoaded", "fdClosed"} =>
          m_ConnectionList'[conn[t]].sockFd = SockFd(conn[t])
    BY <1>8, <1>10 DEF SockFd
  <2>3. QED
    BY <1>2, <2>1, <2>2 DEF PlacesInv, CloseInv, SockFd, Threads
<1>15. SequenceCheckExact'
  <2>1. \A m \in msgs : m.conn \in Objects /\ m.currSequence \in Nat
    BY DEF TypeInv, TypeOK
  <2>2. Opening' = Opening
    BY <1>2 DEF Opening
  <2>3. ASSUME NEW m \in msgs
        PROVE  /\ m.currSequence <= m_ConnectionList'[m.conn].currSequence
               /\ m.currSequence = m_ConnectionList'[m.conn].currSequence =>
                    m.conn \in InUse \ Opening
    <3>1. /\ m.currSequence <= Sequence(m.conn)
          /\ m.currSequence = Sequence(m.conn) => m.conn \in InUse \ Opening
      BY DEF PlacesInv, SequenceCheckExact
    <3>2. Sequence(m.conn) \in Nat
      BY <2>1, ObjectFields DEF TypeInv
    <3>3. \/ m_ConnectionList'[m.conn].currSequence = Sequence(m.conn) + 1
          \/ m_ConnectionList'[m.conn].currSequence = Sequence(m.conn)
      BY <1>8, <2>1 DEF Sequence
    <3>4. QED
      BY <2>1, <3>1, <3>2, <3>3
  <2>4. QED
    BY <1>2, <1>7, <2>2, <2>3 DEF SequenceCheckExact, Sequence
<1>16. OnePlace'
  BY <1>1, <1>2, <1>5 DEF PlacesInv, OnePlace, FreeDistinct, Listeners
<1>17. QED
  BY <1>11, <1>12, <1>13, <1>14, <1>15, <1>16 DEF PlacesInv

(* GetConnection takes an object nobody points to: a free one, or a new    *)
(* one.                                                                    *)
LEMMA ReuseSafe ==
    ASSUME TypeInv, PlacesInv, GetConnection, ReuseConnection
    PROVE  PlacesInv'
<1> DEFINE c == Head(m_FreeConnectionList)
<1>1. pc[Epoll] = "accepted" /\ fd[Epoll] \in Fds /\ Epoll \in Threads /\ Epoll \notin LogicThreads
  BY PoolConstants DEF GetConnection, TypeInv, StepInv, Threads
<1>2. /\ c \in Objects
      /\ conn' = [conn EXCEPT ![Epoll] = c]
      /\ OnlyChanged(c, Sequence(c) + 1, PutTime(c), fd[Epoll])
  BY <1>1, ReuseEffect DEF TypeInv
<1>3. /\ c \in FreeSet /\ FreeSet' = FreeSet \ {c} /\ FreeDistinct'
  BY TakeHead DEF ReuseConnection, TypeInv, PlacesInv, OnePlace, FreeDistinct
<1>4. /\ UNCHANGED <<m_RecyConnectionList, socketOf, batch, msgs, fd, since>>
      /\ DOMAIN pc = Threads /\ DOMAIN conn = Threads
      /\ pc' = [pc EXCEPT ![Epoll] = "opening"]
  BY DEF GetConnection, recy, TypeInv, TypeOK
<1> HIDE DEF c
<1>5. Objects' = Objects
  BY <1>2 DEF OnlyChanged, Objects
<1>6. c \notin m_RecyConnectionList /\ c \notin Listeners /\ c \notin InUse
  BY <1>3 DEF PlacesInv, OnePlace, InUse
<1>7. InUse' = InUse \cup {c}
  BY <1>2, <1>3, <1>4, <1>5, <1>6 DEF InUse, Listeners
<1>8. \A d \in Objects : /\ Sequence(d)' = IF d = c THEN Sequence(d) + 1 ELSE Sequence(d)
                         /\ PutTime(d)' = PutTime(d)
                         /\ SockFd(d)' = IF d = c THEN fd[Epoll] ELSE SockFd(d)
  BY <1>2 DEF OnlyChanged
<1>9. m_RecyConnectionList \subseteq Objects
  BY DEF TypeInv, TypeOK
<1>10. \A t \in Threads : pc[t] \in {"fdLoaded", "fdClosed"} => conn[t] \in Objects
  BY DEF TypeInv, StepInv
<1>11. \A t \in Threads : c \notin HeldBy(t)
  BY <1>3 DEF PlacesInv, HeldInv
<1>12. HeldInv'
  <2>1. \A t \in Threads : HeldBy(t)' \subseteq HeldBy(t) \cup (IF t = Epoll THEN {c} ELSE {})
    BY <1>1, <1>2, <1>4 DEF HeldBy
  <2>2. ASSUME NEW t \in Threads, NEW d \in HeldBy(t)'
        PROVE  /\ d \notin FreeSet'
               /\ d \in m_RecyConnectionList' => PutTime(d)' >= since'[t]
    BY <1>3, <1>4, <1>6, <1>8, <1>9, <2>1, <2>2 DEF PlacesInv, HeldInv
  <2>3. QED
    BY <2>2 DEF HeldInv, Threads
<1>13. SocketInv'
  <2>1. ASSUME NEW f \in Fds, socketOf[f] \in Objects
        PROVE  socketOf[f] \in InUse \cup {c} /\ m_ConnectionList'[socketOf[f]].sockFd = f
    <3>1. socketOf[f] \in InUse /\ SockFd(socketOf[f]) = f
      BY <2>1 DEF PlacesInv, SocketInv
    <3>2. QED
      BY <1>6, <1>8, <2>1, <3>1 DEF SockFd
  <2>2. QED
    BY <1>4, <1>5, <1>7, <2>1 DEF SocketInv, SockFd
<1>14. OpeningInv'
  <2>1. conn'[Epoll] = c /\ c \in InUse' /\ c \notin batch
    BY <1>1, <1>2, <1>4, <1>7, <1>11 DEF HeldBy
  <2>2. m_ConnectionList'[c].sockFd = fd[Epoll]
    BY <1>2, <1>8 DEF SockFd
  <2>3. ASSUME NEW t \in LogicThreads, pc[t] # "idle" PROVE conn[t] # c
    BY <1>1, <1>11, <2>3 DEF HeldBy, TypeInv, StepInv, Threads
  <2>4. \A t \in LogicThreads : pc'[t] = pc[t] /\ conn'[t] = conn[t]
    BY <1>1, <1>2, <1>4 DEF Threads
  <2>5. QED
    BY <1>4, <2>1, <2>2, <2>3, <2>4 DEF OpeningInv, SockFd
<1>15. CloseInv'
  <2>1. \A d \in m_RecyConnectionList' : SockFd(d)' = NoFd
    BY <1>4, <1>6, <1>8, <1>9 DEF PlacesInv, CloseInv
  <2>2. \A t \in Threads : pc'[t] \in {"fdLoaded", "fdClosed"} =>
          /\ pc'[t] = pc[t] /\ conn'[t] = conn[t] /\ conn[t] \in HeldBy(t)
          /\ m_ConnectionList'[conn[t]].sockFd = SockFd(conn[t])
    BY <1>2, <1>4, <1>8, <1>10, <1>11 DEF SockFd, HeldBy
  <2>3. QED
    BY <1>4, <2>1, <2>2 DEF PlacesInv, CloseInv, SockFd, Threads
<1>16. SequenceCheckExact'
  <2>1. \A m \in msgs : m.conn \in Objects /\ m.currSequence \in Nat
    BY DEF TypeInv, TypeOK
  <2>2. Opening' = {c} /\ Opening = {}
    BY <1>1, <1>2, <1>4 DEF Opening
  <2>3. ASSUME NEW m \in msgs
        PROVE  /\ m.currSequence <= m_ConnectionList'[m.conn].currSequence
               /\ m.currSequence = m_ConnectionList'[m.conn].currSequence =>
                    m.conn \in (InUse \cup {c}) \ {c}
    <3>1. /\ m.currSequence <= Sequence(m.conn)
          /\ m.currSequence = Sequence(m.conn) => m.conn \in InUse
      BY DEF PlacesInv, SequenceCheckExact
    <3>2. Sequence(m.conn) \in Nat
      BY <2>1, ObjectFields DEF TypeInv
    <3>3. m_ConnectionList'[m.conn].currSequence =
            IF m.conn = c THEN Sequence(m.conn) + 1 ELSE Sequence(m.conn)
      BY <1>8, <2>1 DEF Sequence
    <3>4. QED
      BY <2>1, <3>1, <3>2, <3>3
  <2>4. QED
    BY <1>4, <1>7, <2>2, <2>3 DEF SequenceCheckExact, Sequence
<1>17. OnePlace'
  BY <1>3, <1>4 DEF PlacesInv, OnePlace, FreeDistinct, Listeners
<1>18. QED
  BY <1>12, <1>13, <1>14, <1>15, <1>16, <1>17 DEF PlacesInv

(* A new object is known to nobody.                                        *)
LEMMA AllocateSafe ==
    ASSUME TypeInv, PlacesInv, GetConnection, AllocateConnection
    PROVE  PlacesInv'
<1>0. PICK n : n = Len(m_ConnectionList) + 1
  OBVIOUS
<1>1. pc[Epoll] = "accepted" /\ fd[Epoll] \in Fds /\ Epoll \in Threads /\ Epoll \notin LogicThreads
  BY PoolConstants DEF GetConnection, TypeInv, StepInv, Threads
<1>2. /\ Objects' = Objects \cup {n} /\ n \notin Objects
      /\ conn' = [conn EXCEPT ![Epoll] = n]
      /\ \A d \in Objects : /\ Sequence(d)' = Sequence(d)
                            /\ PutTime(d)' = PutTime(d)
                            /\ SockFd(d)' = SockFd(d)
      /\ SockFd(n)' = fd[Epoll]
  BY <1>0, <1>1, AllocateEffect DEF TypeInv
<1>3. /\ UNCHANGED <<m_FreeConnectionList, m_RecyConnectionList, socketOf, batch, msgs, fd, since>>
      /\ m_FreeConnectionList = <<>>
      /\ DOMAIN pc = Threads /\ DOMAIN conn = Threads
      /\ pc' = [pc EXCEPT ![Epoll] = "opening"]
  BY DEF GetConnection, AllocateConnection, recy, TypeInv, TypeOK
<1>4. n \notin Listeners /\ n # Unregistered /\ n # Closed
  BY <1>0, ObjectFields, PoolConstants DEF Listeners, TypeInv, StepInv, Unregistered, Closed
<1>5. FreeSet' = FreeSet
  BY <1>3 DEF FreeSet
<1>6. FreeSet \subseteq Objects /\ m_RecyConnectionList \subseteq Objects
  <2>1. FreeSet = {}
    BY <1>3 DEF FreeSet
  <2>2. QED
    BY <2>1 DEF TypeInv, TypeOK
<1>7. InUse' = InUse \cup {n}
  BY <1>2, <1>3, <1>4, <1>5, <1>6 DEF InUse, Listeners
<1>8. \A t \in Threads : pc[t] \in {"opening", "handling", "closing", "fdLoaded", "fdClosed", "leaving"}
        => conn[t] \in Objects
  BY DEF TypeInv, StepInv
<1>9. HeldInv'
  <2>1. \A t \in Threads : HeldBy(t)' \subseteq HeldBy(t) \cup (IF t = Epoll THEN {n} ELSE {})
    BY <1>1, <1>2, <1>3 DEF HeldBy
  <2>2. ASSUME NEW t \in Threads, NEW d \in HeldBy(t)'
        PROVE  /\ d \notin FreeSet'
               /\ d \in m_RecyConnectionList' => PutTime(d)' >= since'[t]
    BY <1>2, <1>3, <1>5, <1>6, <2>1, <2>2 DEF PlacesInv, HeldInv
  <2>3. QED
    BY <2>2 DEF HeldInv, Threads
<1>10. SocketInv'
  <2>1. ASSUME NEW f \in Fds, socketOf[f] \in Objects \cup {n}
        PROVE  socketOf[f] \in InUse \cup {n} /\ m_ConnectionList'[socketOf[f]].sockFd = f
    <3>1. socketOf[f] \in Objects
      BY <1>2, <1>4, <2>1 DEF TypeInv, TypeOK
    <3>2. socketOf[f] \in InUse /\ SockFd(socketOf[f]) = f
      BY <3>1 DEF PlacesInv, SocketInv
    <3>3. QED
      BY <1>2, <3>1, <3>2 DEF SockFd
  <2>2. QED
    BY <1>2, <1>3, <1>7, <2>1 DEF SocketInv, SockFd
<1>11. OpeningInv'
  <2>1. conn'[Epoll] = n /\ n \in InUse' /\ n \notin batch
    BY <1>1, <1>2, <1>3, <1>7 DEF TypeInv, TypeOK
  <2>2. m_ConnectionList'[n].sockFd = fd[Epoll]
    BY <1>2 DEF SockFd
  <2>3. ASSUME NEW t \in LogicThreads, pc[t] # "idle" PROVE conn[t] # n
    BY <1>2, <1>8, <2>3 DEF TypeInv, TypeOK, StepInv, Threads
  <2>4. \A t \in LogicThreads : pc'[t] = pc[t] /\ conn'[t] = conn[t]
    BY <1>1, <1>2, <1>3 DEF Threads
  <2>5. QED
    BY <1>3, <2>1, <2>2, <2>3, <2>4 DEF OpeningInv, SockFd
<1>12. CloseInv'
  <2>1. \A d \in m_RecyConnectionList' : SockFd(d)' = NoFd
    BY <1>2, <1>3, <1>6 DEF PlacesInv, CloseInv
  <2>2. \A t \in Threads : pc'[t] \in {"fdLoaded", "fdClosed"} =>
          /\ pc'[t] = pc[t] /\ conn'[t] = conn[t]
          /\ m_ConnectionList'[conn[t]].sockFd = SockFd(conn[t])
    BY <1>2, <1>3, <1>8 DEF SockFd
  <2>3. QED
    BY <1>3, <2>1, <2>2 DEF PlacesInv, CloseInv, SockFd, Threads
<1>13. SequenceCheckExact'
  <2>1. \A m \in msgs : m.conn \in Objects
    BY DEF TypeInv, TypeOK
  <2>2. Opening' = {n} /\ Opening = {}
    BY <1>1, <1>2, <1>3 DEF Opening
  <2>3. \A m \in msgs : m_ConnectionList'[m.conn].currSequence = Sequence(m.conn) /\ m.conn # n
    BY <1>2, <2>1 DEF Sequence
  <2>4. QED
    BY <1>3, <1>7, <2>2, <2>3 DEF PlacesInv, SequenceCheckExact, Sequence
<1>14. OnePlace'
  BY <1>3, <1>5 DEF PlacesInv, OnePlace, Listeners
<1>15. QED
  BY <1>9, <1>10, <1>11, <1>12, <1>13, <1>14 DEF PlacesInv

-----------------------------------------------------------------------------
(* Every step is safe.                                                     *)

(* A thread that becomes busy reads the clock, and the clock waits for a   *)
(* thread that has been busy for MaxHandlingTime.                          *)
LEMMA NextTimeInv == TypeInv /\ TimeInv /\ [Next]_vars => TimeInv'
<1> SUFFICES ASSUME TypeInv, TimeInv, [Next]_vars PROVE TimeInv'
  OBVIOUS
<1> USE DEF TimeInv, Busy
<1>1. /\ now \in Nat /\ CurrentTime \in Nat /\ since \in [Threads -> Nat]
      /\ DOMAIN pc = Threads /\ MaxHandlingTime \in Nat
  BY PoolConstants DEF TypeInv, TypeOK
<1>2. CASE Tick
  BY <1>1, <1>2 DEF Tick, scan, threads, Threads
<1>3. CASE WakeRecycler
  BY <1>1, <1>3 DEF WakeRecycler, threads, Threads
<1>4. CASE EpollWait
  BY <1>1, <1>4 DEF EpollWait, scan, Threads
<1>5. ASSUME NEW t \in LogicThreads, NEW m \in msgs, HandleMessage(t, m) PROVE TimeInv'
  BY <1>1, <1>5, PoolConstants DEF HandleMessage, scan, Threads
<1>6. ASSUME UNCHANGED <<now, CurrentTime, since>>, batch' \subseteq batch,
             \A t \in Threads : Busy(t)' => Busy(t)
      PROVE  TimeInv'
  BY <1>1, <1>6 DEF Threads
<1>7. CASE \/ UNCHANGED vars \/ GetConnection \/ RegisterClient \/ RegisterFails
           \/ LockRecyQueue \/ UnlockRecyQueue
           \/ \E c \in m_RecyConnectionList : RecycleConnection(c)
  BY <1>1, <1>6, <1>7
     DEF vars, GetConnection, RegisterClient, RegisterFails, OpeningEnds, LockRecyQueue,
         UnlockRecyQueue, RecycleConnection, threads, scan, Threads
<1>8. CASE EpollHandles
  <2>1. PICK c \in batch :
          AcceptNothing(c) \/ AcceptClient(c) \/ ReadPart(c) \/ ReadMessage(c) \/ ReadClose(c)
    BY <1>8 DEF EpollHandles
  <2>2. /\ UNCHANGED <<now, CurrentTime, since>>
        /\ batch' \subseteq batch /\ batch # {}
        /\ \A t \in Threads : pc'[t] = pc[t] \/ t = Epoll
    BY <1>1, <2>1
       DEF AcceptNothing, AcceptClient, ReadPart, ReadMessage, ReadClose, HandleEvent, threads, scan
  <2>3. QED
    BY <1>6, <2>2
<1>9. ASSUME NEW t \in LogicThreads, NEW m \in msgs, ExitOnStaleMessage(t, m) PROVE TimeInv'
  BY <1>6, <1>9 DEF ExitOnStaleMessage, threads, scan
<1>10. ASSUME NEW t \in LogicThreads, CutSlowClient(t) \/ HandlerReturns(t) PROVE TimeInv'
  BY <1>1, <1>6, <1>10 DEF CutSlowClient, HandlerReturns, scan, Threads
<1>11. ASSUME NEW t \in Threads, CloseStep(t) PROVE TimeInv'
  BY <1>1, <1>6, <1>11
     DEF CloseStep, LoadFd, CloseFd, PushConnectToRecyQueue, scan, Threads
<1>12. QED
  BY <1>2, <1>3, <1>4, <1>5, <1>7, <1>8, <1>9, <1>10, <1>11
     DEF Next, EpollStep, LogicStep, RecyclerStep

(* One step of anybody keeps the invariant; only the recycler needs the    *)
(* delay to be longer than a handler.                                      *)
LEMMA NextSafeInv ==
    ASSUME MaxHandlingTime < DelayRecoveryConnectionWaitTime
    PROVE  TypeInv /\ SafeInv /\ [Next]_vars => SafeInv'
<1> SUFFICES ASSUME TypeInv, SafeInv, [Next]_vars PROVE SafeInv'
  OBVIOUS
<1>1. TimeInv /\ PlacesInv
  BY DEF SafeInv, PlacesInv
<1>2. TimeInv'
  BY <1>1, NextTimeInv
<1>3. PlacesInv'
  <2>1. CASE UNCHANGED vars
    BY <1>1, <2>1, StillStep DEF vars
  <2>2. CASE EpollWait
    BY <1>1, <2>2, EpollWaitSafe
  <2>3. ASSUME NEW c \in batch, AcceptNothing(c) \/ ReadPart(c) PROVE PlacesInv'
    BY <1>1, <2>3, DropEventSafe DEF AcceptNothing, ReadPart, HandleEvent
  <2>4. ASSUME NEW c \in batch, AcceptClient(c) PROVE PlacesInv'
    BY <1>1, <2>4, AcceptClientSafe
  <2>5. ASSUME NEW c \in batch, ReadMessage(c) PROVE PlacesInv'
    BY <1>1, <2>5, ReadMessageSafe
  <2>6. ASSUME NEW c \in batch, ReadClose(c) PROVE PlacesInv'
    BY <1>1, <2>6, ReadCloseSafe
  <2>7. CASE GetConnection
    BY <1>1, <2>7, ReuseSafe, AllocateSafe DEF GetConnection
  <2>8. CASE RegisterClient
    BY <1>1, <2>8, RegisterClientSafe
  <2>9. CASE RegisterFails
    BY <1>1, <2>9, StillStep DEF RegisterFails
  <2>10. ASSUME NEW t \in LogicThreads, NEW m \in msgs, HandleMessage(t, m) PROVE PlacesInv'
    BY <1>1, <2>10, HandleMessageSafe
  <2>11. ASSUME NEW t \in LogicThreads, NEW m \in msgs, ExitOnStaleMessage(t, m) PROVE PlacesInv'
    BY <1>1, <2>11, StillStep DEF ExitOnStaleMessage
  <2>12. ASSUME NEW t \in LogicThreads, CutSlowClient(t) \/ HandlerReturns(t) PROVE PlacesInv'
    BY <1>1, <2>12, HandlerStepSafe
  <2>13. ASSUME NEW t \in Threads, LoadFd(t) PROVE PlacesInv'
    BY <1>1, <2>13, LoadFdSafe
  <2>14. ASSUME NEW t \in Threads, CloseFd(t) PROVE PlacesInv'
    BY <1>1, <2>14, CloseFdSafe
  <2>15. ASSUME NEW t \in Threads, PushConnectToRecyQueue(t) PROVE PlacesInv'
    BY <1>1, <2>15, PushAgainSafe, PushSafe
  <2>16. CASE WakeRecycler \/ LockRecyQueue \/ UnlockRecyQueue \/ Tick
    BY <1>1, <2>16, StillStep DEF WakeRecycler, LockRecyQueue, UnlockRecyQueue, Tick
  <2>17. ASSUME NEW c \in m_RecyConnectionList, RecycleConnection(c) PROVE PlacesInv'
    BY <1>1, <2>17, RecycleSafe
  <2>18. QED
    BY <2>1, <2>2, <2>3, <2>4, <2>5, <2>6, <2>7, <2>8, <2>9, <2>10, <2>11, <2>12, <2>13,
       <2>14, <2>15, <2>16, <2>17
       DEF Next, EpollStep, EpollHandles, LogicStep, CloseStep, RecyclerStep
<1>4. QED
  BY <1>2, <1>3 DEF SafeInv, PlacesInv

(* The invariant holds in every reachable state.                           *)
LEMMA AlwaysSafe ==
    ASSUME MaxHandlingTime < DelayRecoveryConnectionWaitTime
    PROVE  Spec => [](TypeInv /\ SafeInv)
  BY InitTypeInv, NextTypeInv, InitSafeInv, NextSafeInv, PTL DEF Spec

-----------------------------------------------------------------------------
(* The theorems.                                                           *)

(* No double free of an object: whatever closes twice, whoever holds it, an*)
(* object is on the free list at most once and never waits while it is     *)
(* free.                                                                   *)
THEOREM EveryObjectInOnePlace ==
    ASSUME MaxHandlingTime < DelayRecoveryConnectionWaitTime
    PROVE  Spec => []OnePlace
<1>1. SafeInv => OnePlace
  BY DEF SafeInv
<1>2. QED
  BY <1>1, AlwaysSafe, PTL

(* The delay does what it is for: an object a thread points to is never on *)
(* the free list.                                                          *)
THEOREM HeldObjectsAreNotFree == Spec => []HeldNotFree
<1>1. CASE MaxHandlingTime < DelayRecoveryConnectionWaitTime
  <2>1. TypeInv /\ SafeInv => HeldNotFree
    <3> SUFFICES ASSUME TypeInv, SafeInv, NEW c \in Held PROVE c \notin FreeSet
      BY DEF HeldNotFree
    <3>1. \E t \in Threads : c \in HeldBy(t)
      BY DEF Held, HeldBy, Threads
    <3>2. QED
      BY <3>1 DEF SafeInv, HeldInv
  <2>2. QED
    BY <1>1, <2>1, AlwaysSafe, PTL
<1>2. CASE ~(MaxHandlingTime < DelayRecoveryConnectionWaitTime)
  <2>1. HeldNotFree
    BY <1>2 DEF HeldNotFree
  <2>2. QED
    BY <2>1, PTL
<1>3. QED
  BY <1>1, <1>2

(* A message that passes the sequence check belongs to the client its      *)
(* object serves now.                                                      *)
THEOREM SequenceCheckIsExact ==
    ASSUME MaxHandlingTime < DelayRecoveryConnectionWaitTime
    PROVE  Spec => []SequenceCheckExact
<1>1. SafeInv => SequenceCheckExact
  BY DEF SafeInv
<1>2. QED
  BY <1>1, AlwaysSafe, PTL

=============================================================================

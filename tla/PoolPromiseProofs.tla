--------------------------- MODULE PoolPromiseProofs ---------------------------
(***************************************************************************)
(* What the pool promises the rest of the worker, for every value of the   *)
(* constants: it implements DelayedPool, its counters say what its lists   *)
(* say, and (when only the epoll thread closes) no client is lost.         *)
(***************************************************************************)
EXTENDS RecyclingProofs

-----------------------------------------------------------------------------
(* What a step can do to the places of the objects.                        *)

(* Nothing: every object stays where it is, with the time it was put there.*)
Stays ==
    /\ Objects' = Objects /\ FreeSet' = FreeSet /\ InUse' = InUse
    /\ UNCHANGED <<m_RecyConnectionList, m_TotalConnectionCount, m_FreeConnectionCount,
                   m_DelayRecoveryConnectionCount>>
    /\ Len(m_ConnectionList') = Len(m_ConnectionList)
    /\ Len(m_FreeConnectionList') = Len(m_FreeConnectionList)
    /\ \A d \in Objects : PutTime(d)' = PutTime(d)

(* Object c is handed out.                                                 *)
Taken(c) ==
    /\ c \in FreeSet /\ c \in Objects /\ c \notin m_RecyConnectionList
    /\ Objects' = Objects /\ FreeSet' = FreeSet \ {c} /\ InUse' = InUse \cup {c}
    /\ UNCHANGED <<m_RecyConnectionList, m_TotalConnectionCount,
                   m_DelayRecoveryConnectionCount>>
    /\ m_FreeConnectionCount' = m_FreeConnectionCount - 1
    /\ Len(m_ConnectionList') = Len(m_ConnectionList)
    /\ Len(m_FreeConnectionList') = Len(m_FreeConnectionList) - 1
    /\ \A d \in Objects : PutTime(d)' = PutTime(d)

(* A new object n is handed out.                                           *)
Added(n) ==
    /\ n = Len(m_ConnectionList) + 1 /\ n \notin Objects
    /\ n \notin FreeSet /\ n \notin m_RecyConnectionList
    /\ Objects' = Objects \cup {n} /\ FreeSet' = FreeSet /\ InUse' = InUse \cup {n}
    /\ UNCHANGED <<m_RecyConnectionList, m_FreeConnectionCount,
                   m_DelayRecoveryConnectionCount>>
    /\ m_TotalConnectionCount' = m_TotalConnectionCount + 1
    /\ Len(m_ConnectionList') = Len(m_ConnectionList) + 1
    /\ Len(m_FreeConnectionList') = Len(m_FreeConnectionList)
    /\ \A d \in Objects : PutTime(d)' = PutTime(d)

(* Object c is closed and starts to wait.                                  *)
Waits(c) ==
    /\ c \in Objects /\ c \notin Listeners /\ c \notin m_RecyConnectionList
    /\ Objects' = Objects /\ FreeSet' = FreeSet /\ InUse' = InUse \ {c}
    /\ m_RecyConnectionList' = m_RecyConnectionList \cup {c}
    /\ UNCHANGED <<m_TotalConnectionCount, m_FreeConnectionCount>>
    /\ m_DelayRecoveryConnectionCount' = m_DelayRecoveryConnectionCount + 1
    /\ Len(m_ConnectionList') = Len(m_ConnectionList)
    /\ Len(m_FreeConnectionList') = Len(m_FreeConnectionList)
    /\ \A d \in Objects : PutTime(d)' = IF d = c THEN now ELSE PutTime(d)

(* Object c has waited long enough and is free again.                      *)
Returns(c) ==
    /\ c \in m_RecyConnectionList /\ c \in Objects /\ c \notin FreeSet
    /\ PutTime(c) + DelayRecoveryConnectionWaitTime <= CurrentTime
    /\ Objects' = Objects /\ FreeSet' = FreeSet \cup {c} /\ InUse' = InUse
    /\ m_RecyConnectionList' = m_RecyConnectionList \ {c}
    /\ UNCHANGED m_TotalConnectionCount
    /\ m_FreeConnectionCount' = m_FreeConnectionCount + 1
    /\ m_DelayRecoveryConnectionCount' = m_DelayRecoveryConnectionCount - 1
    /\ Len(m_ConnectionList') = Len(m_ConnectionList)
    /\ Len(m_FreeConnectionList') = Len(m_FreeConnectionList) + 1
    /\ \A d \in Objects : PutTime(d)' = PutTime(d)

(* Most steps change no list.                                              *)
LEMMA ListsUnchanged ==
    ASSUME UNCHANGED <<lists, recy>>
    PROVE  Stays /\ UNCHANGED m_ConnectionList
<1> USE DEF lists, recy
<1>1. Objects' = Objects /\ FreeSet' = FreeSet /\ InUse' = InUse
  BY SamePlaces
<1>2. QED
  BY <1>1 DEF Stays, PutTime

(* close(2) changes no list either, only the object's descriptor.          *)
LEMMA CloseStays ==
    ASSUME TypeInv, NEW t \in Threads, CloseFd(t)
    PROVE  /\ Stays /\ conn[t] \in Objects
           /\ \A d \in Objects : SockFd(d)' = IF d = conn[t] THEN NoFd ELSE SockFd(d)
<1>1. PICK c \in Objects : c = conn[t]
  BY DEF CloseFd, TypeInv, StepInv
<1>2. OnlyChanged(c, Sequence(c), PutTime(c), NoFd)
  BY <1>1, CloseEffect DEF TypeInv
<1>3. UNCHANGED <<m_FreeConnectionList, m_RecyConnectionList, m_TotalConnectionCount,
                  m_FreeConnectionCount, m_DelayRecoveryConnectionCount>>
  BY DEF CloseFd, recy
<1>4. Objects' = Objects /\ FreeSet' = FreeSet
  BY <1>2, <1>3 DEF OnlyChanged, Objects, FreeSet
<1>5. InUse' = InUse
  BY <1>3, <1>4 DEF InUse, Listeners
<1>6. \A d \in Objects : /\ PutTime(d)' = PutTime(d)
                         /\ SockFd(d)' = IF d = c THEN NoFd ELSE SockFd(d)
  BY <1>2 DEF OnlyChanged
<1>7. Len(m_ConnectionList') = Len(m_ConnectionList)
  BY <1>2 DEF OnlyChanged
<1>8. QED
  BY <1>1, <1>3, <1>4, <1>5, <1>6, <1>7 DEF Stays

(* GetConnection with a free object.                                       *)
LEMMA ReuseTakes ==
    ASSUME TypeInv, OnePlace, GetConnection, ReuseConnection
    PROVE  \E c \in FreeSet :
             /\ Taken(c)
             /\ conn' = [conn EXCEPT ![Epoll] = c]
             /\ \A d \in Objects : SockFd(d)' = IF d = c THEN fd[Epoll] ELSE SockFd(d)
<1>1. PICK c : c = Head(m_FreeConnectionList)
  OBVIOUS
<1>2. fd[Epoll] \in Fds
  BY DEF GetConnection, TypeInv, StepInv
<1>3. /\ c \in Objects
      /\ conn' = [conn EXCEPT ![Epoll] = c]
      /\ OnlyChanged(c, Sequence(c) + 1, PutTime(c), fd[Epoll])
  BY <1>1, <1>2, ReuseEffect DEF TypeInv
<1>4. c \in FreeSet /\ FreeSet' = FreeSet \ {c}
  BY <1>1, TakeHead DEF ReuseConnection, TypeInv, OnePlace, FreeDistinct
<1>5. /\ UNCHANGED <<m_RecyConnectionList, m_TotalConnectionCount,
                     m_DelayRecoveryConnectionCount>>
      /\ m_FreeConnectionCount' = m_FreeConnectionCount - 1
  BY DEF GetConnection, ReuseConnection, recy
<1>6. Len(m_FreeConnectionList') = Len(m_FreeConnectionList) - 1
  BY EmptySeq, HeadTailProperties DEF ReuseConnection, TypeInv, TypeOK
<1>7. Objects' = Objects /\ Len(m_ConnectionList') = Len(m_ConnectionList)
  BY <1>3 DEF OnlyChanged, Objects
<1>8. c \notin m_RecyConnectionList /\ c \notin Listeners
  BY <1>4 DEF OnePlace
<1>9. InUse' = InUse \cup {c}
  BY <1>3, <1>4, <1>5, <1>7, <1>8 DEF InUse, Listeners
<1>10. \A d \in Objects : /\ PutTime(d)' = PutTime(d)
                          /\ SockFd(d)' = IF d = c THEN fd[Epoll] ELSE SockFd(d)
  BY <1>3 DEF OnlyChanged
<1>11. Taken(c)
  BY <1>3, <1>4, <1>5, <1>6, <1>7, <1>8, <1>9, <1>10 DEF Taken
<1>12. QED
  BY <1>3, <1>4, <1>10, <1>11

(* GetConnection with no free object.                                      *)
LEMMA AllocateAdds ==
    ASSUME TypeInv, GetConnection, AllocateConnection
    PROVE  \E n \in Objects' :
             /\ Added(n)
             /\ conn' = [conn EXCEPT ![Epoll] = n]
             /\ SockFd(n)' = fd[Epoll]
             /\ \A d \in Objects : SockFd(d)' = SockFd(d)
<1>1. PICK n : n = Len(m_ConnectionList) + 1
  OBVIOUS
<1>2. fd[Epoll] \in Fds
  BY DEF GetConnection, TypeInv, StepInv
<1>3. /\ Len(m_ConnectionList') = n
      /\ Objects' = Objects \cup {n} /\ n \notin Objects
      /\ conn' = [conn EXCEPT ![Epoll] = n]
      /\ \A d \in Objects : PutTime(d)' = PutTime(d) /\ SockFd(d)' = SockFd(d)
      /\ SockFd(n)' = fd[Epoll]
  BY <1>1, <1>2, AllocateEffect DEF TypeInv
<1>4. /\ UNCHANGED <<m_RecyConnectionList, m_FreeConnectionList, m_FreeConnectionCount,
                     m_DelayRecoveryConnectionCount>>
      /\ m_TotalConnectionCount' = m_TotalConnectionCount + 1
      /\ m_FreeConnectionList = <<>>
  BY DEF GetConnection, AllocateConnection, recy
<1>5. FreeSet' = FreeSet /\ FreeSet = {}
  BY <1>4 DEF FreeSet
<1>6. n \notin Listeners /\ n \notin m_RecyConnectionList
  BY <1>1, <1>3, ObjectFields, PoolConstants DEF Listeners, TypeInv, StepInv, TypeOK
<1>7. InUse' = InUse \cup {n}
  BY <1>3, <1>4, <1>5, <1>6 DEF InUse, Listeners
<1>8. Added(n)
  BY <1>1, <1>3, <1>4, <1>5, <1>6, <1>7 DEF Added
<1>9. QED
  BY <1>3, <1>8

(* The first close of an object.                                           *)
LEMMA PushWaits ==
    ASSUME TypeInv, NEW t \in Threads, PushConnectToRecyQueue(t),
           NEW c, c = conn[t], c \notin m_RecyConnectionList
    PROVE  /\ Waits(c)
           /\ m_OnLineUserCount' = m_OnLineUserCount - 1
           /\ \A d \in Objects : SockFd(d)' = SockFd(d)
<1>1. c \in Objects /\ c \notin Listeners /\ EnqueueOnce(c)
  BY DEF PushConnectToRecyQueue, TypeInv, StepInv
<1>2. /\ OnlyChanged(c, Sequence(c) + 1, now, SockFd(c))
      /\ m_RecyConnectionList' = m_RecyConnectionList \cup {c}
      /\ m_DelayRecoveryConnectionCount' = m_DelayRecoveryConnectionCount + 1
      /\ m_OnLineUserCount' = m_OnLineUserCount - 1
      /\ UNCHANGED <<m_TotalConnectionCount, m_FreeConnectionList, m_FreeConnectionCount>>
  BY <1>1, EnqueueEffect DEF TypeInv
<1>3. Objects' = Objects /\ FreeSet' = FreeSet /\ Len(m_ConnectionList') = Len(m_ConnectionList)
  BY <1>2 DEF OnlyChanged, Objects, FreeSet
<1>4. InUse' = InUse \ {c}
  BY <1>2, <1>3 DEF InUse, Listeners
<1>5. \A d \in Objects : /\ PutTime(d)' = IF d = c THEN now ELSE PutTime(d)
                         /\ SockFd(d)' = SockFd(d)
  BY <1>2 DEF OnlyChanged
<1>6. QED
  BY <1>1, <1>2, <1>3, <1>4, <1>5 DEF Waits

(* The recycler frees an object whose delay has passed.                    *)
LEMMA RecycleReturns ==
    ASSUME TypeInv, OnePlace, NEW c \in m_RecyConnectionList, RecycleConnection(c)
    PROVE  Returns(c) /\ \A d \in Objects : SockFd(d)' = SockFd(d)
<1>1. c \in Objects /\ c \notin Listeners /\ FreeConnection(c)
  BY DEF RecycleConnection, TypeInv, TypeOK, StepInv
<1>2. OnlyChanged(c, Sequence(c) + 1, PutTime(c), SockFd(c))
  BY <1>1, FreeEffect DEF TypeInv
<1>3. /\ m_RecyConnectionList' = m_RecyConnectionList \ {c}
      /\ m_DelayRecoveryConnectionCount' = m_DelayRecoveryConnectionCount - 1
      /\ m_FreeConnectionCount' = m_FreeConnectionCount + 1
      /\ UNCHANGED m_TotalConnectionCount
      /\ PutTime(c) + DelayRecoveryConnectionWaitTime <= CurrentTime
  BY DEF RecycleConnection, FreeConnection, Expired
<1>4. c \notin FreeSet
  BY DEF OnePlace
<1>5. FreeSet' = FreeSet \cup {c}
  BY <1>1, <1>4, PutLast DEF FreeConnection, TypeInv, OnePlace, FreeDistinct
<1>6. Len(m_FreeConnectionList') = Len(m_FreeConnectionList) + 1
  BY <1>1, AppendProperties DEF FreeConnection, TypeInv, TypeOK
<1>7. Objects' = Objects /\ Len(m_ConnectionList') = Len(m_ConnectionList)
  BY <1>2 DEF OnlyChanged, Objects
<1>8. InUse' = InUse
  BY <1>3, <1>5, <1>7 DEF InUse, Listeners
<1>9. \A d \in Objects : PutTime(d)' = PutTime(d) /\ SockFd(d)' = SockFd(d)
  BY <1>2 DEF OnlyChanged
<1>10. QED
  BY <1>1, <1>3, <1>4, <1>5, <1>6, <1>7, <1>8, <1>9 DEF Returns

-----------------------------------------------------------------------------
(* Each step moves at most one object, and the clock does not move with it.*)

LEMMA PlacesMove ==
    ASSUME TypeInv, SafeInv, [Next]_vars
    PROVE  \/ Stays /\ now' \in {now, now + 1}
           \/ \E c \in FreeSet : Taken(c) /\ now' = now
           \/ \E n \in Objects' : Added(n) /\ now' = now
           \/ \E c \in InUse : Waits(c) /\ now' = now
           \/ \E c \in m_RecyConnectionList : Returns(c) /\ now' = now
<1>1. OnePlace /\ HeldInv
  BY DEF SafeInv
<1>2. CASE UNCHANGED <<lists, recy>> /\ now' \in {now, now + 1}
  BY <1>2, ListsUnchanged
<1>3. CASE \/ UNCHANGED vars \/ EpollWait \/ RegisterClient \/ RegisterFails
           \/ \E c \in batch : \/ AcceptNothing(c) \/ AcceptClient(c) \/ ReadPart(c)
                               \/ ReadMessage(c) \/ ReadClose(c)
  BY <1>2, <1>3
     DEF vars, EpollWait, AcceptNothing, AcceptClient, ReadPart, ReadMessage, ReadClose,
         RegisterClient, OpeningEnds, RegisterFails
<1>4. CASE \/ \E t \in LogicThreads : LogicStep(t)
           \/ \E t \in Threads : LoadFd(t)
           \/ WakeRecycler \/ LockRecyQueue \/ UnlockRecyQueue \/ Tick
  BY <1>2, <1>4
     DEF LogicStep, HandleMessage, ExitOnStaleMessage, CutSlowClient, HandlerReturns, LoadFd,
         WakeRecycler, LockRecyQueue, UnlockRecyQueue, Tick
<1>5. CASE GetConnection
  <2>1. now' = now
    BY <1>5 DEF GetConnection
  <2>2. QED
    BY <1>1, <1>5, <2>1, ReuseTakes, AllocateAdds DEF GetConnection
<1>6. ASSUME NEW t \in Threads, CloseFd(t) PROVE Stays /\ now' = now
  BY <1>6, CloseStays DEF CloseFd
<1>7. ASSUME NEW t \in Threads, PushConnectToRecyQueue(t), conn[t] \in m_RecyConnectionList
      PROVE  Stays /\ now' = now
  BY <1>7, ListsUnchanged DEF PushConnectToRecyQueue, EnqueueOnce
<1>8. ASSUME NEW t \in Threads, PushConnectToRecyQueue(t), conn[t] \notin m_RecyConnectionList
      PROVE  \E c \in InUse : Waits(c) /\ now' = now
  <2>1. PICK c : c = conn[t]
    OBVIOUS
  <2>2. Waits(c) /\ now' = now
    BY <1>8, <2>1, PushWaits DEF PushConnectToRecyQueue
  <2>3. c \in HeldBy(t)
    BY <1>8, <2>1 DEF PushConnectToRecyQueue, HeldBy
  <2>4. c \in InUse
    BY <1>1, <2>2, <2>3 DEF HeldInv, Waits, InUse
  <2>5. QED
    BY <2>2, <2>4
<1>9. ASSUME NEW c \in m_RecyConnectionList, RecycleConnection(c)
      PROVE  Returns(c) /\ now' = now
  BY <1>1, <1>9, RecycleReturns DEF RecycleConnection
<1>10. QED
  BY <1>3, <1>4, <1>5, <1>6, <1>7, <1>8, <1>9
     DEF Next, EpollStep, EpollHandles, CloseStep, RecyclerStep

-----------------------------------------------------------------------------
(* The refinement: DelayedPool sees the place of every object and the time *)
(* a waiting one was released.                                             *)

ReleaseTime(c) == IF c \in m_RecyConnectionList THEN PutTime(c) ELSE 0

(* At first every object is free or used.                                  *)
LEMMA InitImplements == Init => Pool!PoolInit
<1> SUFFICES ASSUME Init PROVE Pool!PoolInit
  OBVIOUS
<1>1. TypeInv
  BY InitTypeInv
<1>2. m_RecyConnectionList = {} /\ now = 0
  BY DEF Init
<1>3. Len(m_ConnectionList) \in Nat
  BY <1>1, ObjectFields DEF TypeInv
<1>4. [c \in Objects |-> PlaceOf(c)] \in [1 .. Len(m_ConnectionList) -> {"free", "used"}]
  BY <1>2 DEF Objects, PlaceOf
<1>5. [c \in Objects |-> PlaceOf(c)] \in Seq({"free", "used"})
  BY <1>3, <1>4, FunctionIsSequence
<1>6. QED
  BY <1>2, <1>5 DEF Pool!PoolInit

(* Each step takes, adds, releases or recycles one object, advances the    *)
(* clock, or is invisible.                                                 *)
LEMMA NextImplements ==
    ASSUME TypeInv, SafeInv, [Next]_vars
    PROVE  [Pool!PoolNext]_(Pool!poolVars)
<1> DEFINE place == [c \in Objects |-> PlaceOf(c)]
           released == [c \in Objects |-> ReleaseTime(c)]
<1>0. PICK p : p = place
  OBVIOUS
<1>00. PICK r : r = released
  OBVIOUS
<1>1. /\ OnePlace /\ TimeInv
      /\ m_RecyConnectionList \subseteq Objects
      /\ now \in Nat /\ CurrentTime \in Nat /\ \A c \in Objects : PutTime(c) \in Nat
  BY ObjectFields DEF SafeInv, TypeInv, TypeOK
<1>2. /\ p = [c \in Objects |-> PlaceOf(c)]
      /\ r = [c \in Objects |-> IF c \in m_RecyConnectionList THEN PutTime(c) ELSE 0]
      /\ DOMAIN p = Objects /\ DOMAIN r = Objects
  BY <1>0, <1>00 DEF ReleaseTime
<1>3. CASE Stays /\ now' \in {now, now + 1}
  <2>1. place' = p
    BY <1>0, <1>3 DEF Stays, PlaceOf
  <2>2. released' = r
    BY <1>00, <1>1, <1>3 DEF Stays, ReleaseTime
  <2>3. CASE now' = now + 1
    <3>1. Pool!Tick
      BY <1>2, <2>1, <2>2, <2>3 DEF Pool!Tick, ReleaseTime
    <3>2. QED
      BY <3>1 DEF Pool!PoolNext
  <2>4. CASE now' = now
    BY <1>2, <2>1, <2>2, <2>4 DEF Pool!poolVars, ReleaseTime
  <2>5. QED
    BY <1>3, <2>3, <2>4
<1>4. ASSUME NEW c \in FreeSet, Taken(c), now' = now PROVE Pool!PoolNext
  <2>1. c \in Objects /\ p[c] = "free"
    BY <1>2, <1>4 DEF Taken, PlaceOf
  <2>2. place' = [p EXCEPT ![c] = "used"]
    BY <1>0, <1>1, <1>4 DEF Taken, PlaceOf
  <2>3. released' = r
    BY <1>00, <1>1, <1>4 DEF Taken, ReleaseTime
  <2>4. Pool!Take(c)
    BY <1>2, <1>4, <2>1, <2>2, <2>3 DEF Pool!Take, ReleaseTime
  <2>5. QED
    BY <1>2, <2>1, <2>4 DEF Pool!PoolNext
<1>5. ASSUME NEW n \in Objects', Added(n), now' = now PROVE Pool!PoolNext
  <2>1. \A c \in Objects : PlaceOf(c)' = PlaceOf(c) /\ ReleaseTime(c)' = ReleaseTime(c)
    BY <1>5 DEF Added, PlaceOf, ReleaseTime
  <2>2. PlaceOf(n)' = "used" /\ ReleaseTime(n)' = 0
    BY <1>5 DEF Added, PlaceOf, ReleaseTime
  <2>3. p \in Seq({"free", "used", "waiting"}) /\ r \in Seq(Nat) /\ Len(p) = n - 1 /\ Len(r) = n - 1
        /\ n - 1 \in Nat /\ Objects = 1 .. n - 1 /\ Objects' = 1 .. n
    <3>1. n - 1 = Len(m_ConnectionList) /\ n - 1 \in Nat /\ Objects = 1 .. n - 1
      BY <1>5, ObjectFields DEF Added, TypeInv, Objects
    <3>2. Objects' = 1 .. n
      BY <1>5, <3>1 DEF Added
    <3>3. p \in [1 .. n - 1 -> {"free", "used", "waiting"}] /\ r \in [1 .. n - 1 -> Nat]
      BY <1>1, <1>2, <3>1 DEF PlaceOf
    <3>4. QED
      BY <3>1, <3>2, <3>3, FunctionIsSequence
  <2>4. place' = Append(p, "used")
    <3>1. PICK q : q = Append(p, "used")
      OBVIOUS
    <3>2. /\ q \in Seq({"free", "used", "waiting"}) /\ Len(q) = n
          /\ \A c \in 1 .. n - 1 : q[c] = p[c]
          /\ q[n] = "used"
      BY <2>3, <3>1, AppendProperties
    <3>3. q = [c \in 1 .. n |-> q[c]]
      BY <3>2, LenProperties
    <3>4. place' = [c \in 1 .. n |-> PlaceOf(c)']
      BY <2>3
    <3>5. \A c \in 1 .. n : c \in 1 .. n - 1 \/ c = n
      BY <2>3
    <3>6. \A c \in 1 .. n : q[c] = PlaceOf(c)'
      BY <1>2, <2>1, <2>2, <2>3, <3>2, <3>5
    <3>7. QED
      BY <3>1, <3>3, <3>4, <3>6
  <2>5. released' = Append(r, 0)
    <3>1. PICK q : q = Append(r, 0)
      OBVIOUS
    <3>2. /\ q \in Seq(Nat) /\ Len(q) = n
          /\ \A c \in 1 .. n - 1 : q[c] = r[c]
          /\ q[n] = 0
      BY <2>3, <3>1, AppendProperties
    <3>3. q = [c \in 1 .. n |-> q[c]]
      BY <3>2, LenProperties
    <3>4. released' = [c \in 1 .. n |-> ReleaseTime(c)']
      BY <2>3
    <3>5. \A c \in 1 .. n : c \in 1 .. n - 1 \/ c = n
      BY <2>3
    <3>6. \A c \in 1 .. n : q[c] = ReleaseTime(c)'
      BY <1>00, <2>1, <2>2, <2>3, <3>2, <3>5
    <3>7. QED
      BY <3>1, <3>3, <3>4, <3>6
  <2>6. Pool!Grow
    BY <1>2, <1>5, <2>4, <2>5 DEF Pool!Grow, ReleaseTime
  <2>7. QED
    BY <2>6 DEF Pool!PoolNext
<1>6. ASSUME NEW c \in InUse, Waits(c), now' = now PROVE Pool!PoolNext
  <2>1. c \in Objects /\ p[c] = "used"
    BY <1>2, <1>6 DEF Waits, PlaceOf, InUse
  <2>2. place' = [p EXCEPT ![c] = "waiting"]
    BY <1>0, <1>1, <1>6 DEF Waits, PlaceOf, InUse
  <2>3. released' = [r EXCEPT ![c] = now]
    BY <1>00, <1>1, <1>6 DEF Waits, ReleaseTime
  <2>4. Pool!Release(c)
    BY <1>2, <1>6, <2>1, <2>2, <2>3 DEF Pool!Release, ReleaseTime
  <2>5. QED
    BY <1>2, <2>1, <2>4 DEF Pool!PoolNext
<1>7. ASSUME NEW c \in m_RecyConnectionList, Returns(c), now' = now PROVE Pool!PoolNext
  <2>1. c \in Objects /\ p[c] = "waiting" /\ r[c] = PutTime(c)
    BY <1>2, <1>7 DEF Returns, PlaceOf
  <2>2. place' = [p EXCEPT ![c] = "free"]
    BY <1>0, <1>1, <1>7 DEF Returns, PlaceOf
  <2>3. released' = [r EXCEPT ![c] = 0]
    BY <1>00, <1>1, <1>7 DEF Returns, ReleaseTime
  <2>4. now >= r[c] + DelayRecoveryConnectionWaitTime
    BY <1>1, <1>7, <2>1, PoolConstants DEF Returns, TimeInv
  <2>5. Pool!Recycle(c)
    BY <1>2, <1>7, <2>1, <2>2, <2>3, <2>4 DEF Pool!Recycle, ReleaseTime
  <2>6. QED
    BY <1>2, <2>1, <2>5 DEF Pool!PoolNext
<1>8. QED
  BY <1>3, <1>4, <1>5, <1>6, <1>7, PlacesMove

(* The lists, counters and threads implement the abstract pool: an object  *)
(* is handed out, released, kept for the whole delay and only then handed  *)
(* out again, whatever is closed twice or at the same time.                *)
THEOREM ImplementsPool ==
    ASSUME MaxHandlingTime < DelayRecoveryConnectionWaitTime
    PROVE  Spec => ImplementsDelayedPool
<1>1. TypeInv /\ SafeInv /\ [Next]_vars => [Pool!PoolNext]_(Pool!poolVars)
  BY NextImplements
<1>2. QED
  BY <1>1, InitImplements, AlwaysSafe, PTL DEF Spec, ImplementsDelayedPool, Pool!PoolSpec

-----------------------------------------------------------------------------
(* The counters.                                                           *)

(* The objects that serve a client that counts as online.                  *)
Serving == InUse \ Opening

(* Opening belongs to the epoll thread: another thread's step changes      *)
(* neither its program counter nor its pointer.                            *)
LEMMA OpeningKept ==
    ASSUME \/ UNCHANGED <<pc, conn>>
           \/ pc[Epoll] # "opening" /\ pc'[Epoll] # "opening"
           \/ pc'[Epoll] = pc[Epoll] /\ conn'[Epoll] = conn[Epoll]
    PROVE  Opening' = Opening
  BY DEF Opening

(* One client at a time comes online or leaves, and it is counted in the   *)
(* same step.                                                              *)
LEMMA ServingMoves ==
    ASSUME TypeInv, SafeInv, [Next]_vars
    PROVE  \/ Serving' = Serving /\ m_OnLineUserCount' = m_OnLineUserCount
           \/ \E c \in Objects : /\ c \notin Serving
                                 /\ Serving' = Serving \cup {c}
                                 /\ m_OnLineUserCount' = m_OnLineUserCount + 1
           \/ \E c \in Serving : /\ Serving' = Serving \ {c}
                                 /\ m_OnLineUserCount' = m_OnLineUserCount - 1
<1>1. /\ OnePlace /\ HeldInv /\ OpeningInv
      /\ DOMAIN pc = Threads /\ DOMAIN conn = Threads
      /\ Epoll \in Threads /\ Epoll \notin LogicThreads
  BY PoolConstants DEF SafeInv, TypeInv, TypeOK, Threads
<1>2. ASSUME InUse' = InUse, Opening' = Opening, m_OnLineUserCount' = m_OnLineUserCount
      PROVE  Serving' = Serving /\ m_OnLineUserCount' = m_OnLineUserCount
  BY <1>2 DEF Serving
<1>3. CASE \/ UNCHANGED vars \/ EpollWait \/ RegisterFails
           \/ \E c \in batch : \/ AcceptNothing(c) \/ AcceptClient(c) \/ ReadPart(c)
                               \/ ReadMessage(c) \/ ReadClose(c)
  <2>1. UNCHANGED <<lists, recy, m_OnLineUserCount>>
    BY <1>3
       DEF vars, EpollWait, AcceptNothing, AcceptClient, ReadPart, ReadMessage, ReadClose,
           RegisterFails
  <2>2. \/ UNCHANGED <<pc, conn>>
        \/ pc[Epoll] # "opening" /\ pc'[Epoll] # "opening"
    BY <1>1, <1>3
       DEF vars, EpollWait, AcceptNothing, AcceptClient, ReadPart, ReadMessage, ReadClose,
           RegisterFails, HandleEvent, threads
  <2>3. Opening' = Opening
    BY <2>2, OpeningKept
  <2>4. QED
    BY <1>2, <2>1, <2>3, ListsUnchanged DEF Stays
<1>4. CASE \/ \E t \in LogicThreads : LogicStep(t)
           \/ \E t \in Threads : LoadFd(t)
           \/ WakeRecycler \/ LockRecyQueue \/ UnlockRecyQueue \/ Tick
  <2>1. UNCHANGED <<lists, recy, m_OnLineUserCount>>
    BY <1>4
       DEF LogicStep, HandleMessage, ExitOnStaleMessage, CutSlowClient, HandlerReturns, LoadFd,
           WakeRecycler, LockRecyQueue, UnlockRecyQueue, Tick
  <2>2. \/ pc[Epoll] # "opening" /\ pc'[Epoll] # "opening"
        \/ pc'[Epoll] = pc[Epoll] /\ conn'[Epoll] = conn[Epoll]
    BY <1>1, <1>4
       DEF LogicStep, HandleMessage, ExitOnStaleMessage, CutSlowClient, HandlerReturns, LoadFd,
           WakeRecycler, LockRecyQueue, UnlockRecyQueue, Tick, threads
  <2>3. Opening' = Opening
    BY <2>2, OpeningKept
  <2>4. QED
    BY <1>2, <2>1, <2>3, ListsUnchanged DEF Stays
<1>5. CASE GetConnection
  <2>1. /\ pc[Epoll] = "accepted" /\ pc'[Epoll] = "opening"
        /\ m_OnLineUserCount' = m_OnLineUserCount
    BY <1>1, <1>5 DEF GetConnection
  <2>2. PICK c : InUse' = InUse \cup {c} /\ c \notin InUse /\ conn'[Epoll] = c
    <3>1. CASE ReuseConnection
      <4>1. PICK c \in FreeSet : Taken(c) /\ conn' = [conn EXCEPT ![Epoll] = c]
        BY <1>1, <1>5, <3>1, ReuseTakes
      <4>2. QED
        BY <1>1, <4>1 DEF Taken, InUse
    <3>2. CASE AllocateConnection
      <4>1. PICK n \in Objects' : Added(n) /\ conn' = [conn EXCEPT ![Epoll] = n]
        BY <1>5, <3>2, AllocateAdds
      <4>2. QED
        BY <1>1, <4>1 DEF Added, InUse
    <3>3. QED
      BY <1>5, <3>1, <3>2 DEF GetConnection
  <2>3. Serving' = Serving
    BY <2>1, <2>2 DEF Serving, Opening
  <2>4. QED
    BY <2>1, <2>3
<1>6. CASE RegisterClient
  <2>1. PICK c : c = conn[Epoll]
    OBVIOUS
  <2>2. /\ pc[Epoll] = "opening" /\ pc'[Epoll] = "idle"
        /\ m_OnLineUserCount' = m_OnLineUserCount + 1
        /\ UNCHANGED <<lists, recy>>
    BY <1>1, <1>6 DEF RegisterClient, OpeningEnds
  <2>3. InUse' = InUse
    BY <2>2, ListsUnchanged DEF Stays
  <2>4. c \in InUse /\ c \in Objects
    BY <1>1, <2>1, <2>2 DEF OpeningInv, InUse
  <2>5. Serving' = Serving \cup {c} /\ c \notin Serving
    BY <2>1, <2>2, <2>3, <2>4 DEF Serving, Opening
  <2>6. QED
    BY <2>2, <2>4, <2>5
<1>7. ASSUME NEW t \in Threads, CloseFd(t)
      PROVE  Serving' = Serving /\ m_OnLineUserCount' = m_OnLineUserCount
  <2>1. InUse' = InUse /\ m_OnLineUserCount' = m_OnLineUserCount
    BY <1>7, CloseStays DEF CloseFd, Stays
  <2>2. \/ pc[Epoll] # "opening" /\ pc'[Epoll] # "opening"
        \/ pc'[Epoll] = pc[Epoll] /\ conn'[Epoll] = conn[Epoll]
    BY <1>1, <1>7 DEF CloseFd
  <2>3. QED
    BY <1>2, <2>1, <2>2, OpeningKept
<1>8. ASSUME NEW t \in Threads, PushConnectToRecyQueue(t)
      PROVE  \/ Serving' = Serving /\ m_OnLineUserCount' = m_OnLineUserCount
             \/ \E c \in Serving : /\ Serving' = Serving \ {c}
                                   /\ m_OnLineUserCount' = m_OnLineUserCount - 1
  <2>1. PICK c : c = conn[t]
    OBVIOUS
  <2>2. pc[t] = "fdClosed" /\ c \in HeldBy(t)
    BY <1>8, <2>1 DEF PushConnectToRecyQueue, HeldBy
  <2>3. \/ pc[Epoll] # "opening" /\ pc'[Epoll] # "opening"
        \/ pc'[Epoll] = pc[Epoll] /\ conn'[Epoll] = conn[Epoll]
    BY <1>1, <1>8 DEF PushConnectToRecyQueue
  <2>4. Opening' = Opening
    BY <2>3, OpeningKept
  <2>5. CASE c \in m_RecyConnectionList
    <3>1. UNCHANGED <<lists, recy, m_OnLineUserCount>>
      BY <1>8, <2>1, <2>5 DEF PushConnectToRecyQueue, EnqueueOnce
    <3>2. QED
      BY <1>2, <2>4, <3>1, ListsUnchanged DEF Stays
  <2>6. CASE c \notin m_RecyConnectionList
    <3>1. Waits(c) /\ m_OnLineUserCount' = m_OnLineUserCount - 1
      BY <1>8, <2>1, <2>6, PushWaits
    <3>2. c \in InUse
      BY <1>1, <2>2, <3>1 DEF HeldInv, Waits, InUse
    <3>3. c \notin Opening
      BY <1>1, <2>1, <2>2 DEF OpeningInv, Opening, Threads
    <3>4. Serving' = Serving \ {c}
      BY <2>4, <3>1 DEF Serving, Waits
    <3>5. QED
      BY <3>1, <3>2, <3>3, <3>4 DEF Serving
  <2>7. QED
    BY <2>5, <2>6
<1>9. ASSUME NEW c \in m_RecyConnectionList, RecycleConnection(c)
      PROVE  Serving' = Serving /\ m_OnLineUserCount' = m_OnLineUserCount
  <2>1. InUse' = InUse
    BY <1>1, <1>9, RecycleReturns DEF Returns
  <2>2. UNCHANGED <<pc, conn, m_OnLineUserCount>>
    BY <1>9 DEF RecycleConnection, threads
  <2>3. QED
    BY <1>2, <2>1, <2>2, OpeningKept
<1>10. QED
  BY <1>3, <1>4, <1>5, <1>6, <1>7, <1>8, <1>9
     DEF Next, EpollStep, EpollHandles, CloseStep, RecyclerStep

(* At first nobody is online.                                              *)
LEMMA InitServesNobody ==
    ASSUME Init
    PROVE  InUse = {} /\ Len(m_FreeConnectionList) = Len(m_ConnectionList) - ListenPortCount
<1>1. PICK n : n = Len(m_ConnectionList)
  OBVIOUS
<1>2. n \in Nat /\ ListenPortCount <= n /\ ListenPortCount \in Nat
  BY <1>1, InitTypeInv, ObjectFields, PoolConstants DEF TypeInv, StepInv
<1>3. m_FreeConnectionList = [i \in 1 .. n - ListenPortCount |-> ListenPortCount + i]
  BY <1>1 DEF Init
<1>4. \A i \in 1 .. n - ListenPortCount : m_FreeConnectionList[i] = ListenPortCount + i
  BY <1>3
<1>5. Len(m_FreeConnectionList) = n - ListenPortCount
  <2>1. n - ListenPortCount \in Nat
    BY <1>2
  <2>2. m_FreeConnectionList \in [1 .. n - ListenPortCount -> Nat]
    BY <1>2, <1>3
  <2>3. QED
    BY <2>1, <2>2, FunctionIsSequence
<1>6. \A c \in Objects : c \notin Listeners => c \in FreeSet
  <2>1. ASSUME NEW c \in 1 .. n, c \notin 1 .. ListenPortCount
        PROVE  c - ListenPortCount \in 1 .. n - ListenPortCount
               /\ ListenPortCount + (c - ListenPortCount) = c
    BY <1>2, <2>1
  <2>2. QED
    BY <1>1, <1>4, <1>5, <2>1 DEF Objects, Listeners, FreeSet
<1>7. QED
  BY <1>1, <1>5, <1>6 DEF InUse

(* So at first the counters are right.                                     *)
LEMMA InitCounters == Init => CountersAgree
<1> SUFFICES ASSUME Init PROVE CountersAgree
  OBVIOUS
<1>1. InUse \ Opening = {} /\ m_FreeConnectionCount = Len(m_FreeConnectionList)
  BY InitServesNobody DEF Init
<1>2. QED
  BY <1>1, FS_EmptySet DEF Init, CountersAgree

(* The three counters that count a list.                                   *)
ListsCounted ==
    /\ m_TotalConnectionCount = Len(m_ConnectionList)
    /\ m_FreeConnectionCount = Len(m_FreeConnectionList)
    /\ m_DelayRecoveryConnectionCount = Cardinality(m_RecyConnectionList)

(* Each counter moves with what it counts.                                 *)
LEMMA NextCounters ==
    ASSUME TypeInv, SafeInv, CountersAgree, [Next]_vars
    PROVE  CountersAgree'
<1>1. IsFiniteSet(m_RecyConnectionList) /\ IsFiniteSet(Serving)
  <2>1. IsFiniteSet(Objects)
    BY ObjectFields, FS_Interval DEF Objects, TypeInv
  <2>2. m_RecyConnectionList \subseteq Objects /\ Serving \subseteq Objects
    BY DEF TypeInv, TypeOK, Serving, InUse
  <2>3. QED
    BY <2>1, <2>2, FS_Subset
<1>2. Cardinality(m_RecyConnectionList) \in Nat /\ Cardinality(Serving) \in Nat
  BY <1>1, FS_CardinalityType
<1>3. /\ m_TotalConnectionCount = Len(m_ConnectionList)
      /\ m_FreeConnectionCount = Len(m_FreeConnectionList)
      /\ m_DelayRecoveryConnectionCount = Cardinality(m_RecyConnectionList)
      /\ m_OnLineUserCount = Cardinality(Serving)
  BY DEF CountersAgree, Serving
<1>4. ListsCounted'
  <2>1. CASE Stays
    BY <1>3, <2>1 DEF Stays, ListsCounted
  <2>2. ASSUME NEW c \in FreeSet, Taken(c) PROVE ListsCounted'
    BY <1>3, <2>2 DEF Taken, ListsCounted
  <2>3. ASSUME NEW n \in Objects', Added(n) PROVE ListsCounted'
    BY <1>3, <2>3 DEF Added, ListsCounted
  <2>4. ASSUME NEW c \in InUse, Waits(c) PROVE ListsCounted'
    BY <1>1, <1>3, <2>4, FS_AddElement DEF Waits, ListsCounted
  <2>5. ASSUME NEW c \in m_RecyConnectionList, Returns(c) PROVE ListsCounted'
    BY <1>1, <1>3, <2>5, FS_RemoveElement DEF Returns, ListsCounted
  <2>6. QED
    BY <2>1, <2>2, <2>3, <2>4, <2>5, PlacesMove
<1>5. m_OnLineUserCount' = Cardinality(Serving')
  <2>1. ASSUME NEW c \in Objects, c \notin Serving, Serving' = Serving \cup {c},
               m_OnLineUserCount' = m_OnLineUserCount + 1
        PROVE  m_OnLineUserCount' = Cardinality(Serving')
    BY <1>1, <1>3, <2>1, FS_AddElement
  <2>2. ASSUME NEW c \in Serving, Serving' = Serving \ {c},
               m_OnLineUserCount' = m_OnLineUserCount - 1
        PROVE  m_OnLineUserCount' = Cardinality(Serving')
    BY <1>1, <1>3, <2>2, FS_RemoveElement
  <2>3. QED
    BY <1>3, <2>1, <2>2, ServingMoves
<1>6. QED
  BY <1>4, <1>5 DEF CountersAgree, ListsCounted, Serving

(* The four counters always say what the lists say, and the online count is*)
(* the number of objects that serve a client: no close is counted twice and*)
(* none is forgotten.                                                      *)
THEOREM CountersAreRight ==
    ASSUME MaxHandlingTime < DelayRecoveryConnectionWaitTime
    PROVE  Spec => []CountersAgree
<1>1. TypeInv /\ SafeInv /\ CountersAgree /\ [Next]_vars => CountersAgree'
  BY NextCounters
<1>2. QED
  BY <1>1, InitCounters, AlwaysSafe, PTL DEF Spec

-----------------------------------------------------------------------------
(* No client is lost.  When no client lets its replies pile up, only the   *)
(* epoll thread closes connections, one event after the other; then the    *)
(* number it closes is always its own, however long a handler runs.        *)

ThreadsAlone == \A t \in LogicThreads : pc[t] \in {"idle", "handling"}

EventsAlone == batch \ Listeners \subseteq Registered

EpollAlone ==
    /\ pc[Epoll] = "opening" =>
         conn[Epoll] \in InUse \ Registered /\ SockFd(conn[Epoll]) = fd[Epoll]
    /\ pc[Epoll] \in {"closing", "fdLoaded"} => conn[Epoll] \in Registered \ batch
    /\ pc[Epoll] = "fdLoaded" => fd[Epoll] = SockFd(conn[Epoll])
    /\ pc[Epoll] = "fdClosed" => conn[Epoll] \in InUse \ Registered

AloneInv ==
    /\ OnePlace
    /\ SocketInv
    /\ ThreadsAlone
    /\ EventsAlone
    /\ EpollAlone
    /\ NoClientLost

(* An object stays in one place as long as only a used one is pushed.      *)
LEMMA NextOnePlace ==
    ASSUME TypeInv, OnePlace, [Next]_vars,
           \A t \in Threads : pc[t] = "fdClosed" => conn[t] \notin FreeSet
    PROVE  OnePlace'
<1>1. CASE UNCHANGED <<m_FreeConnectionList, m_RecyConnectionList>>
  BY <1>1 DEF OnePlace, FreeSet, Listeners
<1>2. CASE \/ UNCHANGED vars \/ EpollWait \/ RegisterClient \/ RegisterFails
           \/ \E c \in batch : \/ AcceptNothing(c) \/ AcceptClient(c) \/ ReadPart(c)
                               \/ ReadMessage(c) \/ ReadClose(c)
  BY <1>1, <1>2
     DEF vars, EpollWait, AcceptNothing, AcceptClient, ReadPart, ReadMessage, ReadClose,
         RegisterClient, OpeningEnds, RegisterFails, lists, recy
<1>3. CASE \/ \E t \in LogicThreads : LogicStep(t)
           \/ \E t \in Threads : LoadFd(t) \/ CloseFd(t)
           \/ WakeRecycler \/ LockRecyQueue \/ UnlockRecyQueue \/ Tick
  BY <1>1, <1>3
     DEF LogicStep, HandleMessage, ExitOnStaleMessage, CutSlowClient, HandlerReturns, LoadFd,
         CloseFd, WakeRecycler, LockRecyQueue, UnlockRecyQueue, Tick, lists, recy
<1>4. CASE GetConnection
  <2>1. UNCHANGED m_RecyConnectionList
    BY <1>4 DEF GetConnection, recy
  <2>2. CASE AllocateConnection
    BY <1>1, <2>1, <2>2 DEF AllocateConnection
  <2>3. CASE ReuseConnection
    <3>1. PICK c : c = Head(m_FreeConnectionList)
      OBVIOUS
    <3>2. FreeSet' = FreeSet \ {c} /\ FreeDistinct'
      BY <2>3, <3>1, TakeHead DEF ReuseConnection, TypeInv, OnePlace, FreeDistinct
    <3>3. QED
      BY <2>1, <3>2 DEF OnePlace, FreeDistinct, Listeners
  <2>4. QED
    BY <1>4, <2>2, <2>3 DEF GetConnection
<1>5. ASSUME NEW t \in Threads, PushConnectToRecyQueue(t) PROVE OnePlace'
  <2>1. /\ conn[t] \notin FreeSet /\ conn[t] \in Objects /\ conn[t] \notin Listeners
        /\ EnqueueOnce(conn[t])
    BY <1>5 DEF PushConnectToRecyQueue, TypeInv, StepInv
  <2>2. CASE conn[t] \in m_RecyConnectionList
    BY <1>1, <2>1, <2>2 DEF EnqueueOnce, lists, recy
  <2>3. CASE conn[t] \notin m_RecyConnectionList
    <3>1. /\ m_RecyConnectionList' = m_RecyConnectionList \cup {conn[t]}
          /\ UNCHANGED m_FreeConnectionList
      BY <2>1, <2>3, EnqueueEffect DEF TypeInv
    <3>2. FreeSet' = FreeSet
      BY <3>1 DEF FreeSet
    <3>3. QED
      BY <2>1, <3>1, <3>2 DEF OnePlace, Listeners
  <2>4. QED
    BY <2>2, <2>3
<1>6. ASSUME NEW c \in m_RecyConnectionList, RecycleConnection(c) PROVE OnePlace'
  <2>1. c \in Objects /\ c \notin Listeners /\ c \notin FreeSet
    BY DEF TypeInv, TypeOK, StepInv, OnePlace
  <2>2. FreeSet' = FreeSet \cup {c} /\ FreeDistinct'
    BY <1>6, <2>1, PutLast DEF RecycleConnection, FreeConnection, TypeInv, OnePlace, FreeDistinct
  <2>3. m_RecyConnectionList' = m_RecyConnectionList \ {c}
    BY <1>6 DEF RecycleConnection
  <2>4. QED
    BY <2>1, <2>2, <2>3 DEF OnePlace, FreeDistinct, Listeners
<1>7. QED
  BY <1>2, <1>3, <1>4, <1>5, <1>6
     DEF Next, EpollStep, EpollHandles, CloseStep, RecyclerStep

(* At first no client is connected.                                        *)
LEMMA InitAlone == Init => AloneInv
<1> SUFFICES ASSUME Init PROVE AloneInv
  OBVIOUS
<1>1. OnePlace /\ SocketInv
  BY InitSafeInv DEF SafeInv
<1>2. /\ batch = {} /\ \A t \in Threads : pc[t] = "idle"
      /\ Epoll \in Threads /\ LogicThreads \subseteq Threads
  BY DEF Init, Threads
<1>3. ThreadsAlone /\ EventsAlone /\ EpollAlone
  BY <1>2 DEF ThreadsAlone, EventsAlone, EpollAlone
<1>4. NoClientLost
  <2>1. InUse = {}
    BY InitServesNobody
  <2>2. QED
    BY <2>1 DEF NoClientLost
<1>5. QED
  BY <1>1, <1>3, <1>4 DEF AloneInv

(* A step that leaves the lists, the sockets of clients and the epoll      *)
(* thread's duties as they are.                                            *)
LEMMA QuietAlone ==
    ASSUME AloneInv, OnePlace', UNCHANGED <<lists, recy>>,
           \A f \in Fds : socketOf'[f] \in Objects => socketOf'[f] = socketOf[f],
           Registered' = Registered, ThreadsAlone', EventsAlone', EpollAlone',
           Opening' = Opening, \A c \in Objects : Closing(c) => Closing(c)'
    PROVE  AloneInv'
<1>1. Stays /\ UNCHANGED m_ConnectionList
  BY ListsUnchanged
<1>2. SocketInv'
  BY <1>1 DEF AloneInv, SocketInv, Stays, SockFd
<1>3. NoClientLost'
  BY <1>1 DEF AloneInv, NoClientLost, Stays, InUse
<1>4. QED
  BY <1>2, <1>3 DEF AloneInv

(* A step of the clock, of the recycler outside FreeConnection, or of a    *)
(* worker that exits.                                                      *)
LEMMA StillAlone ==
    ASSUME AloneInv, OnePlace', UNCHANGED <<lists, recy, socketOf, batch, threads>>
    PROVE  AloneInv'
<1>1. Stays /\ UNCHANGED m_ConnectionList
  BY ListsUnchanged
<1>2. Registered' = Registered
  BY <1>1 DEF Registered, Stays
<1>3. ThreadsAlone' /\ EventsAlone' /\ EpollAlone'
  BY <1>1, <1>2
     DEF AloneInv, ThreadsAlone, EventsAlone, EpollAlone, Stays, SockFd, threads, Listeners
<1>4. Opening' = Opening /\ \A c \in Objects : Closing(c) => Closing(c)'
  BY DEF Opening, Closing, threads
<1>5. QED
  BY <1>2, <1>3, <1>4, QuietAlone

(* Fetching events and handling those that close nothing.                  *)
LEMMA EventAlone ==
    ASSUME TypeInv, AloneInv, OnePlace',
           \/ EpollWait
           \/ \E c \in batch : \/ AcceptNothing(c) \/ AcceptClient(c) \/ ReadPart(c)
                               \/ ReadMessage(c)
    PROVE  AloneInv'
<1>1. /\ UNCHANGED <<lists, recy, conn>> /\ DOMAIN pc = Threads
      /\ pc[Epoll] = "idle" /\ pc'[Epoll] \in {"idle", "accepted"}
      /\ \A t \in Threads : t # Epoll => pc'[t] = pc[t]
      /\ Epoll \in Threads /\ Epoll \notin LogicThreads /\ LogicThreads \subseteq Threads
  BY PoolConstants
     DEF TypeInv, TypeOK, EpollWait, AcceptNothing, AcceptClient, ReadPart, ReadMessage, HandleEvent,
         threads, Threads
<1>2. Stays /\ UNCHANGED m_ConnectionList
  BY <1>1, ListsUnchanged
<1>3. /\ \A f \in Fds : socketOf'[f] \in Objects => socketOf'[f] = socketOf[f]
      /\ \A f \in Fds : socketOf[f] \in Objects => socketOf'[f] = socketOf[f]
  <2>1. CASE socketOf' = socketOf
    BY <2>1
  <2>2. ASSUME NEW c \in batch, AcceptClient(c)
        PROVE  \A f \in Fds :
                 socketOf'[f] \in Objects \/ socketOf[f] \in Objects => socketOf'[f] = socketOf[f]
    BY <2>2 DEF AcceptClient, ClosedFds, Closed, Unregistered, Objects, TypeInv, TypeOK
  <2>3. QED
    BY <2>1, <2>2 DEF EpollWait, AcceptNothing, ReadPart, ReadMessage
<1>4. Registered' = Registered
  BY <1>2, <1>3 DEF Registered, Stays
<1>5. batch' \subseteq batch \cup Listeners \cup Registered
  BY DEF EpollWait, AcceptNothing, AcceptClient, ReadPart, ReadMessage, HandleEvent
<1>6. ThreadsAlone' /\ EventsAlone' /\ EpollAlone'
  BY <1>1, <1>4, <1>5 DEF AloneInv, ThreadsAlone, EventsAlone, EpollAlone, Listeners
<1>7. Opening' = Opening /\ \A c \in Objects : Closing(c) => Closing(c)'
  BY <1>1 DEF Opening, Closing, Threads
<1>8. QED
  BY <1>1, <1>3, <1>4, <1>6, <1>7, QuietAlone

(* A client is gone: its object, registered until now, is being closed.    *)
LEMMA ReadCloseAlone ==
    ASSUME TypeInv, AloneInv, OnePlace', NEW c \in batch, ReadClose(c)
    PROVE  AloneInv'
<1>1. /\ UNCHANGED <<lists, recy, socketOf>>
      /\ pc[Epoll] = "idle" /\ pc'[Epoll] = "closing" /\ conn'[Epoll] = c
      /\ \A t \in Threads : t # Epoll => pc'[t] = pc[t] /\ conn'[t] = conn[t]
      /\ batch' = batch \ {c} /\ c \notin Listeners
      /\ Epoll \in Threads /\ Epoll \notin LogicThreads /\ LogicThreads \subseteq Threads
  BY PoolConstants DEF TypeInv, TypeOK, ReadClose, HandleEvent, Threads
<1>2. Stays
  BY <1>1, ListsUnchanged
<1>3. Registered' = Registered /\ c \in Registered
  BY <1>1, <1>2 DEF Registered, Stays, AloneInv, EventsAlone
<1>4. ThreadsAlone' /\ EventsAlone' /\ EpollAlone'
  BY <1>1, <1>3 DEF AloneInv, ThreadsAlone, EventsAlone, EpollAlone, Listeners
<1>5. Opening' = Opening /\ \A d \in Objects : Closing(d) => Closing(d)'
  BY <1>1 DEF Opening, Closing, Threads
<1>6. QED
  BY <1>1, <1>3, <1>4, <1>5, QuietAlone

(* The logic threads take messages and return; none closes.                *)
LEMMA LogicAlone ==
    ASSUME ~SlowClients, TypeInv, AloneInv, OnePlace', NEW t \in LogicThreads, LogicStep(t)
    PROVE  AloneInv'
<1>1. CASE \E m \in msgs : ExitOnStaleMessage(t, m)
  BY <1>1, StillAlone DEF ExitOnStaleMessage
<1>2. CASE HandlerReturns(t) \/ \E m \in msgs : HandleMessage(t, m)
  <2>1. /\ UNCHANGED <<lists, recy, socketOf, batch, fd>>
        /\ pc'[t] \in {"idle", "handling"} /\ pc[t] \in {"idle", "handling"}
        /\ \A u \in Threads : u # t => pc'[u] = pc[u] /\ conn'[u] = conn[u]
        /\ Epoll \in Threads /\ Epoll # t /\ LogicThreads \subseteq Threads
    BY <1>2, PoolConstants
       DEF TypeInv, TypeOK, HandlerReturns, HandleMessage, Threads, AloneInv, ThreadsAlone
  <2>2. Stays /\ UNCHANGED m_ConnectionList
    BY <2>1, ListsUnchanged
  <2>3. Registered' = Registered
    BY <2>1, <2>2 DEF Registered, Stays
  <2>4. ThreadsAlone' /\ EventsAlone'
    BY <2>1, <2>3 DEF AloneInv, ThreadsAlone, EventsAlone, Listeners
  <2>5. EpollAlone'
    BY <2>1, <2>2, <2>3 DEF AloneInv, EpollAlone, Stays, SockFd
  <2>6. Opening' = Opening /\ \A d \in Objects : Closing(d) => Closing(d)'
    BY <2>1 DEF Opening, Closing, Threads
  <2>7. QED
    BY <2>1, <2>3, <2>4, <2>5, <2>6, QuietAlone
<1>3. QED
  BY <1>1, <1>2 DEF LogicStep, CutSlowClient

(* Only the epoll thread closes.                                           *)
LEMMA EpollCloses ==
    ASSUME TypeInv, AloneInv, NEW t \in Threads, pc[t] \in {"closing", "fdLoaded", "fdClosed"}
    PROVE  t = Epoll /\ Epoll \in Threads /\ LogicThreads \subseteq Threads /\ Epoll \notin LogicThreads
  BY PoolConstants DEF AloneInv, ThreadsAlone, Threads

(* It loads the number of an object that is registered with that number.   *)
LEMMA LoadAlone ==
    ASSUME TypeInv, AloneInv, OnePlace', NEW t \in Threads, LoadFd(t)
    PROVE  AloneInv'
<1>1. t = Epoll /\ Epoll \in Threads /\ LogicThreads \subseteq Threads /\ Epoll \notin LogicThreads
  BY EpollCloses DEF LoadFd
<1>2. /\ UNCHANGED <<lists, recy, socketOf, batch, conn>>
      /\ pc[Epoll] = "closing" /\ pc'[Epoll] = "fdLoaded" /\ fd'[Epoll] = SockFd(conn[Epoll])
      /\ \A u \in Threads : u # Epoll => pc'[u] = pc[u]
  BY <1>1 DEF LoadFd, TypeInv, TypeOK
<1>3. Stays /\ UNCHANGED m_ConnectionList
  BY <1>2, ListsUnchanged
<1>4. Registered' = Registered
  BY <1>2, <1>3 DEF Registered, Stays
<1>5. ThreadsAlone' /\ EventsAlone'
  BY <1>1, <1>2, <1>4 DEF AloneInv, ThreadsAlone, EventsAlone, Listeners
<1>6. EpollAlone'
  BY <1>2, <1>3, <1>4 DEF AloneInv, EpollAlone, SockFd
<1>7. Opening' = Opening /\ \A d \in Objects : Closing(d) => Closing(d)'
  BY <1>1, <1>2 DEF Opening, Closing, Threads
<1>8. QED
  BY <1>2, <1>4, <1>5, <1>6, <1>7, QuietAlone

(* So close(2) hits the object's own descriptor and no other client's.     *)
LEMMA CloseAlone ==
    ASSUME TypeInv, AloneInv, OnePlace', NEW t \in Threads, CloseFd(t)
    PROVE  AloneInv'
<1>1. t = Epoll /\ Epoll \in Threads /\ LogicThreads \subseteq Threads /\ Epoll \notin LogicThreads
  BY EpollCloses DEF CloseFd
<1>2. PICK c : c = conn[Epoll]
  OBVIOUS
<1>3. PICK g : g = fd[Epoll]
  OBVIOUS
<1>4. /\ UNCHANGED <<m_FreeConnectionList, m_RecyConnectionList, batch, conn>>
      /\ pc[Epoll] = "fdLoaded" /\ pc'[Epoll] = "fdClosed"
      /\ \A u \in Threads : u # Epoll => pc'[u] = pc[u]
      /\ socketOf' = [f \in Fds |-> IF f = g THEN Closed ELSE socketOf[f]]
  BY <1>1, <1>3 DEF CloseFd, TypeInv, TypeOK, recy
<1>5. c \in Registered \ batch /\ SockFd(c) = g /\ c \in Objects
  BY <1>2, <1>3, <1>4 DEF AloneInv, EpollAlone, Registered
<1>6. /\ Stays
      /\ \A d \in Objects : SockFd(d)' = IF d = c THEN NoFd ELSE SockFd(d)
  BY <1>1, <1>2, CloseStays
<1>7. /\ \A f \in Fds : socketOf[f] \in Objects =>
           socketOf[f] \in InUse /\ SockFd(socketOf[f]) = f
      /\ 0 \notin Objects
  BY DEF AloneInv, SocketInv, Objects
<1>8. g \in Fds /\ socketOf[g] = c /\ c \in InUse
  <2>1. PICK f \in Fds : socketOf[f] = c
    BY <1>5 DEF Registered
  <2>2. f = g
    BY <1>5, <1>7, <2>1
  <2>3. QED
    BY <1>5, <1>7, <2>1, <2>2
<1>9. \A f \in Fds : socketOf[f] = c => f = g
  BY <1>5, <1>7
<1>10. Registered' = Registered \ {c}
  <2>1. Registered' = {d \in Objects : \E f \in Fds : socketOf'[f] = d}
    BY <1>6 DEF Registered, Stays
  <2>2. ASSUME NEW d \in Objects
        PROVE  (\E f \in Fds : socketOf'[f] = d) <=> (d # c /\ \E f \in Fds : socketOf[f] = d)
    BY <1>4, <1>7, <1>8, <1>9 DEF Closed
  <2>3. QED
    BY <2>1, <2>2 DEF Registered
<1>11. SocketInv'
  <2>1. ASSUME NEW f \in Fds, socketOf'[f] \in Objects
        PROVE  socketOf'[f] \in InUse /\ m_ConnectionList'[socketOf'[f]].sockFd = f
    <3>1. f # g /\ socketOf'[f] = socketOf[f]
      BY <1>4, <1>7, <2>1 DEF Closed
    <3>2. socketOf[f] # c
      BY <1>9, <3>1
    <3>3. m_ConnectionList'[socketOf[f]].sockFd = SockFd(socketOf[f])
      BY <1>6, <2>1, <3>1, <3>2 DEF SockFd
    <3>4. QED
      BY <1>7, <2>1, <3>1, <3>3
  <2>2. QED
    BY <1>6, <2>1 DEF SocketInv, SockFd, Stays
<1>12. ThreadsAlone' /\ EventsAlone'
  BY <1>1, <1>4, <1>5, <1>10 DEF AloneInv, ThreadsAlone, EventsAlone, Listeners
<1>13. EpollAlone'
  BY <1>2, <1>4, <1>6, <1>8, <1>10 DEF EpollAlone, Stays
<1>14. NoClientLost'
  <2>1. Opening' = Opening /\ \A d \in Objects : Closing(d) => Closing(d)'
    BY <1>1, <1>4 DEF Opening, Closing, Threads
  <2>2. Closing(c)'
    BY <1>1, <1>2, <1>4 DEF Closing, Threads
  <2>3. QED
    BY <1>6, <1>10, <2>1, <2>2 DEF AloneInv, NoClientLost, Stays, InUse
<1>15. QED
  BY <1>11, <1>12, <1>13, <1>14 DEF AloneInv

(* A closed object goes to the recycling list, with nothing registered.    *)
LEMMA PushAlone ==
    ASSUME TypeInv, AloneInv, OnePlace', NEW t \in Threads, PushConnectToRecyQueue(t)
    PROVE  AloneInv'
<1>1. t = Epoll /\ Epoll \in Threads /\ LogicThreads \subseteq Threads /\ Epoll \notin LogicThreads
  BY EpollCloses DEF PushConnectToRecyQueue
<1>2. PICK c : c = conn[Epoll]
  OBVIOUS
<1>3. /\ UNCHANGED <<socketOf, batch>>
      /\ pc[Epoll] = "fdClosed" /\ pc'[Epoll] = "idle"
      /\ \A u \in Threads : u # Epoll => pc'[u] = pc[u] /\ conn'[u] = conn[u]
  BY <1>1 DEF PushConnectToRecyQueue, TypeInv, TypeOK
<1>4. c \in InUse /\ c \notin Registered /\ c \notin m_RecyConnectionList
  BY <1>2, <1>3 DEF AloneInv, EpollAlone, InUse
<1>5. Waits(c) /\ \A d \in Objects : SockFd(d)' = SockFd(d)
  BY <1>1, <1>2, <1>4, PushWaits
<1>6. Registered' = Registered
  BY <1>3, <1>5 DEF Registered, Waits
<1>7. SocketInv'
  <2>1. ASSUME NEW f \in Fds, socketOf[f] \in Objects
        PROVE  socketOf[f] \in InUse \ {c} /\ m_ConnectionList'[socketOf[f]].sockFd = f
    <3>1. socketOf[f] \in InUse /\ SockFd(socketOf[f]) = f /\ socketOf[f] \in Registered
      BY <2>1 DEF AloneInv, SocketInv, Registered
    <3>2. m_ConnectionList'[socketOf[f]].sockFd = SockFd(socketOf[f])
      BY <1>5, <2>1 DEF SockFd
    <3>3. QED
      BY <1>4, <3>1, <3>2
  <2>2. QED
    BY <1>3, <1>5, <2>1 DEF SocketInv, SockFd, Waits
<1>8. ThreadsAlone' /\ EventsAlone' /\ EpollAlone'
  BY <1>1, <1>3, <1>6 DEF AloneInv, ThreadsAlone, EventsAlone, EpollAlone, Listeners
<1>9. NoClientLost'
  <2>1. Opening' = Opening /\ \A d \in Objects : d # c /\ Closing(d) => Closing(d)'
    BY <1>1, <1>2, <1>3 DEF Opening, Closing, Threads
  <2>2. QED
    BY <1>5, <1>6, <2>1 DEF AloneInv, NoClientLost, Waits, InUse
<1>10. QED
  BY <1>7, <1>8, <1>9 DEF AloneInv

(* GetConnection hands out an object that serves nobody.                   *)
LEMMA GetAlone ==
    ASSUME TypeInv, AloneInv, OnePlace', GetConnection
    PROVE  AloneInv'
<1>1. /\ Epoll \in Threads /\ LogicThreads \subseteq Threads /\ Epoll \notin LogicThreads
      /\ DOMAIN pc = Threads /\ DOMAIN conn = Threads
  BY PoolConstants DEF Threads, TypeInv, TypeOK
<1>2. /\ UNCHANGED <<m_RecyConnectionList, socketOf, batch, fd>>
      /\ pc[Epoll] = "accepted" /\ pc'[Epoll] = "opening"
      /\ \A u \in Threads : u # Epoll => pc'[u] = pc[u]
  BY <1>1 DEF GetConnection, recy
<1>3. \E c \in Objects' :
        /\ c \notin InUse /\ Objects' = Objects \cup {c} /\ InUse' = InUse \cup {c}
        /\ conn' = [conn EXCEPT ![Epoll] = c]
        /\ SockFd(c)' = fd[Epoll]
        /\ \A d \in Objects : d # c => SockFd(d)' = SockFd(d)
  <2>1. CASE ReuseConnection
    <3>1. PICK c \in FreeSet :
            /\ Taken(c)
            /\ conn' = [conn EXCEPT ![Epoll] = c]
            /\ \A d \in Objects : SockFd(d)' = IF d = c THEN fd[Epoll] ELSE SockFd(d)
      BY <2>1, ReuseTakes DEF AloneInv
    <3>2. /\ c \in Objects' /\ Objects' = Objects \cup {c} /\ InUse' = InUse \cup {c}
          /\ c \notin InUse
      BY <3>1 DEF Taken, InUse
    <3>3. /\ SockFd(c)' = fd[Epoll]
          /\ \A d \in Objects : d # c => SockFd(d)' = SockFd(d)
      BY <3>1 DEF Taken
    <3>4. QED
      BY <3>1, <3>2, <3>3
  <2>2. CASE AllocateConnection
    <3>1. PICK n \in Objects' :
            /\ Added(n)
            /\ conn' = [conn EXCEPT ![Epoll] = n]
            /\ SockFd(n)' = fd[Epoll]
            /\ \A d \in Objects : SockFd(d)' = SockFd(d)
      BY <2>2, AllocateAdds
    <3>2. /\ Objects' = Objects \cup {n} /\ InUse' = InUse \cup {n} /\ n \notin InUse
      BY <3>1 DEF Added, InUse
    <3>3. QED
      BY <3>1, <3>2
  <2>3. QED
    BY <2>1, <2>2 DEF GetConnection
<1>4. PICK c \in Objects' :
        /\ c \notin InUse /\ Objects' = Objects \cup {c} /\ InUse' = InUse \cup {c}
        /\ conn' = [conn EXCEPT ![Epoll] = c]
        /\ SockFd(c)' = fd[Epoll]
        /\ \A d \in Objects : d # c => SockFd(d)' = SockFd(d)
  BY <1>3
<1>5. \A f \in Fds : /\ socketOf[f] \in Objects =>
                         socketOf[f] \in InUse /\ SockFd(socketOf[f]) = f
                     /\ socketOf[f] \in Objects \cup {Closed, Unregistered}
                     /\ socketOf[f] # c
  <2>1. \A f \in Fds : socketOf[f] \in Objects =>
          socketOf[f] \in InUse /\ SockFd(socketOf[f]) = f
    BY DEF AloneInv, SocketInv
  <2>2. \A f \in Fds : socketOf[f] \in Objects \cup {Closed, Unregistered}
    BY DEF TypeInv, TypeOK
  <2>3. c # Closed /\ c # Unregistered
    BY DEF Objects, Closed, Unregistered
  <2>4. QED
    BY <1>4, <2>1, <2>2, <2>3
<1>6. Registered' = Registered /\ c \notin Registered
  <2>1. Registered' = {d \in Objects \cup {c} : \E f \in Fds : socketOf[f] = d}
    BY <1>2, <1>4 DEF Registered
  <2>2. QED
    BY <1>5, <2>1 DEF Registered
<1>7. SocketInv'
  <2>1. ASSUME NEW f \in Fds, socketOf[f] \in Objects \cup {c}
        PROVE  socketOf[f] \in InUse \cup {c} /\ m_ConnectionList'[socketOf[f]].sockFd = f
    <3>1. socketOf[f] \in Objects /\ socketOf[f] # c
      BY <1>5, <2>1
    <3>2. m_ConnectionList'[socketOf[f]].sockFd = SockFd(socketOf[f])
      BY <1>4, <3>1 DEF SockFd
    <3>3. QED
      BY <1>5, <3>1, <3>2
  <2>2. QED
    BY <1>2, <1>4, <2>1 DEF SocketInv, SockFd
<1>8. conn'[Epoll] = c /\ \A u \in Threads : u # Epoll => conn'[u] = conn[u]
  BY <1>1, <1>4
<1>9. ThreadsAlone' /\ EventsAlone'
  BY <1>1, <1>2, <1>6 DEF AloneInv, ThreadsAlone, EventsAlone, Listeners
<1>10. EpollAlone'
  <2>1. m_ConnectionList'[c].sockFd = fd[Epoll]
    BY <1>4 DEF SockFd
  <2>2. QED
    BY <1>2, <1>4, <1>6, <1>8, <2>1 DEF EpollAlone, SockFd
<1>11. NoClientLost'
  <2>1. Opening' = {c} /\ Opening = {}
    BY <1>2, <1>8 DEF Opening
  <2>2. \A d \in Objects : Closing(d) => Closing(d)'
    BY <1>1, <1>2, <1>8 DEF Closing, Threads
  <2>3. QED
    BY <1>4, <1>6, <2>1, <2>2 DEF AloneInv, NoClientLost, InUse
<1>12. QED
  BY <1>7, <1>9, <1>10, <1>11 DEF AloneInv

(* EPOLL_CTL_ADD: the client that was being opened is registered.          *)
LEMMA RegisterAlone ==
    ASSUME TypeInv, AloneInv, OnePlace', RegisterClient
    PROVE  AloneInv'
<1>1. PICK c : c = conn[Epoll]
  OBVIOUS
<1>2. PICK g : g = fd[Epoll]
  OBVIOUS
<1>3. /\ UNCHANGED <<lists, recy, batch>>
      /\ pc[Epoll] = "opening" /\ pc'[Epoll] = "idle" /\ g \in Fds
      /\ \A u \in Threads : u # Epoll => pc'[u] = pc[u] /\ conn'[u] = conn[u]
      /\ socketOf[g] = Unregistered /\ socketOf' = [socketOf EXCEPT ![g] = c]
      /\ DOMAIN socketOf = Fds
      /\ Epoll \in Threads /\ LogicThreads \subseteq Threads /\ Epoll \notin LogicThreads
  BY <1>1, <1>2, PoolConstants
     DEF RegisterClient, OpeningEnds, Threads, TypeInv, TypeOK, StepInv
<1>4. Stays /\ UNCHANGED m_ConnectionList
  BY <1>3, ListsUnchanged
<1>5. c \in InUse /\ c \in Objects /\ SockFd(c) = g /\ Unregistered \notin Objects
  BY <1>1, <1>2, <1>3 DEF AloneInv, EpollAlone, InUse, Objects, Unregistered
<1>6. Registered' = Registered \cup {c}
  <2>1. Registered' = {d \in Objects : \E f \in Fds : socketOf'[f] = d}
    BY <1>4 DEF Registered, Stays
  <2>2. \A d \in Objects : (\E f \in Fds : socketOf'[f] = d) <=>
                             (d = c \/ \E f \in Fds : socketOf[f] = d)
    BY <1>3, <1>5
  <2>3. QED
    BY <1>5, <2>1, <2>2 DEF Registered
<1>7. SocketInv'
  BY <1>3, <1>4, <1>5 DEF AloneInv, SocketInv, Stays, SockFd
<1>8. ThreadsAlone' /\ EventsAlone' /\ EpollAlone'
  BY <1>3, <1>6 DEF AloneInv, ThreadsAlone, EventsAlone, EpollAlone, Listeners
<1>9. NoClientLost'
  <2>1. Opening = {c} /\ Opening' = {}
    BY <1>1, <1>3 DEF Opening
  <2>2. \A d \in Objects : Closing(d) => Closing(d)'
    BY <1>3 DEF Closing, Threads
  <2>3. QED
    BY <1>4, <1>6, <2>1, <2>2 DEF AloneInv, NoClientLost, Stays, InUse
<1>10. QED
  BY <1>7, <1>8, <1>9 DEF AloneInv

(* An object that comes back to the free list served nobody.               *)
LEMMA RecycleAlone ==
    ASSUME TypeInv, AloneInv, OnePlace', NEW c \in m_RecyConnectionList, RecycleConnection(c)
    PROVE  AloneInv'
<1>1. Returns(c) /\ \A d \in Objects : SockFd(d)' = SockFd(d)
  BY RecycleReturns DEF AloneInv
<1>2. UNCHANGED <<socketOf, batch, pc, conn, fd>>
  BY DEF RecycleConnection, threads
<1>3. Objects' = Objects /\ InUse' = InUse
  BY <1>1 DEF Returns
<1>4. Registered' = Registered
  BY <1>2, <1>3 DEF Registered
<1>5. SocketInv'
  <2>1. \A f \in Fds : socketOf[f] \in Objects =>
          m_ConnectionList'[socketOf[f]].sockFd = SockFd(socketOf[f])
    BY <1>1 DEF SockFd
  <2>2. QED
    BY <1>2, <1>3, <2>1 DEF AloneInv, SocketInv, SockFd
<1>6. ThreadsAlone' /\ EventsAlone'
  BY <1>2, <1>4 DEF AloneInv, ThreadsAlone, EventsAlone, Listeners
<1>7. EpollAlone'
  <2>1. ASSUME conn[Epoll] \in Objects
        PROVE  m_ConnectionList'[conn[Epoll]].sockFd = SockFd(conn[Epoll])
    BY <1>1, <2>1 DEF SockFd
  <2>2. InUse \subseteq Objects /\ Registered \subseteq Objects
    BY DEF InUse, Registered
  <2>3. QED
    BY <1>2, <1>3, <1>4, <2>1, <2>2 DEF AloneInv, EpollAlone, SockFd
<1>8. NoClientLost'
  BY <1>2, <1>3, <1>4 DEF AloneInv, NoClientLost, Opening, Closing, Threads
<1>9. QED
  BY <1>5, <1>6, <1>7, <1>8 DEF AloneInv

(* One step of anybody keeps the invariant, however slow the clock or a    *)
(* handler.                                                                *)
LEMMA NextAlone ==
    ASSUME ~SlowClients, TypeInv, AloneInv, [Next]_vars
    PROVE  AloneInv'
<1>1. OnePlace'
  <2>1. \A t \in Threads : pc[t] = "fdClosed" => conn[t] \notin FreeSet
    BY EpollCloses DEF AloneInv, EpollAlone, InUse
  <2>2. QED
    BY <2>1, NextOnePlace DEF AloneInv
<1>2. CASE \/ UNCHANGED vars \/ RegisterFails
           \/ WakeRecycler \/ LockRecyQueue \/ UnlockRecyQueue \/ Tick
  BY <1>1, <1>2, StillAlone
     DEF vars, RegisterFails, WakeRecycler, LockRecyQueue, UnlockRecyQueue, Tick
<1>3. CASE \/ EpollWait
           \/ \E c \in batch : \/ AcceptNothing(c) \/ AcceptClient(c) \/ ReadPart(c)
                               \/ ReadMessage(c)
  BY <1>1, <1>3, EventAlone
<1>4. ASSUME NEW c \in batch, ReadClose(c) PROVE AloneInv'
  BY <1>1, <1>4, ReadCloseAlone
<1>5. CASE GetConnection
  BY <1>1, <1>5, GetAlone
<1>6. CASE RegisterClient
  BY <1>1, <1>6, RegisterAlone
<1>7. ASSUME NEW t \in LogicThreads, LogicStep(t) PROVE AloneInv'
  BY <1>1, <1>7, LogicAlone
<1>8. ASSUME NEW t \in Threads, CloseStep(t) PROVE AloneInv'
  BY <1>1, <1>8, LoadAlone, CloseAlone, PushAlone DEF CloseStep
<1>9. ASSUME NEW c \in m_RecyConnectionList, RecycleConnection(c) PROVE AloneInv'
  BY <1>1, <1>9, RecycleAlone
<1>10. QED
  BY <1>2, <1>3, <1>4, <1>5, <1>6, <1>7, <1>8, <1>9
     DEF Next, EpollStep, EpollHandles, RecyclerStep

(* When no client lets its replies pile up, every client that was accepted *)
(* has its descriptor in the epoll set until its own connection is closed: *)
(* none is left connected with nobody listening.                           *)
THEOREM NobodyIsLost ==
    ASSUME ~SlowClients
    PROVE  Spec => []NoClientLost
<1>1. TypeInv /\ AloneInv /\ [Next]_vars => AloneInv'
  BY NextAlone
<1>2. AloneInv => NoClientLost
  BY DEF AloneInv
<1>3. QED
  BY <1>1, <1>2, InitTypeInv, NextTypeInv, InitAlone, PTL DEF Spec

=============================================================================

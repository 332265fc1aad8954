-------------------------- MODULE TimerQueueProofs --------------------------
(***************************************************************************)
(* The heartbeat timers, for any number of objects, threads and clients,   *)
(* any settings and any length of time.                                    *)
(***************************************************************************)
EXTENDS TimerQueue, FiniteSetTheorems, WellFoundedInduction, TLAPS

-----------------------------------------------------------------------------
(* The inductive invariant.                                                *)

(* What each step of a thread knows of the object it points to.            *)
ThreadInv ==
    /\ \A t \in Threads : pc[t] # "idle" => conn[t] \in Conns /\ place[conn[t]] # "free"
    /\ \A t \in Threads : pc[t] = "idle" => conn[t] = NoConn
    /\ \A t \in LogicThreads : pc[t] \notin {"opening", "adding"}
    /\ \A t \in Threads : pc[t] = "deleted" => Own(conn[t]) = {}

(* The client being accepted has no timer yet and is known to nobody else. *)
OpeningInv ==
    pc[Epoll] \in {"opening", "adding"} =>
      /\ place[conn[Epoll]] = "online"
      /\ Own(conn[Epoll]) = {}
      /\ \A t \in LogicThreads : pc[t] # "idle" => conn[t] # conn[Epoll]

(* While the monitor checks a timer it has the mutex: the timer's client is*)
(* still the one it was started for, online, and nobody is on the way to   *)
(* closing it past the deletion of its timers.                             *)
CheckInv ==
    monitor \in {"checking", "kicking"} =>
      LET c == pOverTimeMsg.pConn IN
      /\ pOverTimeMsg \in Timer
      /\ place[c] = "online"
      /\ pOverTimeMsg.currSequence = currSequence[c]
      /\ ~Handled(c)
      /\ m_IsTimeOutKick => Own(c) = {}

PlacesInv == OneTimerPerClient /\ ThreadInv /\ OpeningInv /\ CheckInv

TimerInv == TypeOK /\ IsFiniteSet(m_TimerQueueMultiMap) /\ CachedFieldsAgree /\ PlacesInv

-----------------------------------------------------------------------------
(* The list of timers.                                                     *)

(* GetTimerListEarliestTime of a list that is not empty returns the time of*)
(* one of its timers, and no timer is earlier.                             *)
LEMMA EarliestIsFirst ==
    ASSUME NEW list \in SUBSET Timer, list # {}
    PROVE  /\ Earliest(list) \in Nat
           /\ \E x \in list : x.time = Earliest(list)
           /\ \A x \in list : Earliest(list) <= x.time
<1> DEFINE S == {x.time : x \in list}
<1>1. S \subseteq Nat /\ S # {}
  BY DEF Timer
<1>2. IsWellFoundedOn(OpToRel(<, Nat), Nat)
  BY NatLessThanWellFounded
<1> HIDE DEF S
<1>3. PICK m \in S : \A y \in S : ~(<<y, m>> \in OpToRel(<, Nat))
  BY <1>1, <1>2, WFMin
<1>4. ASSUME NEW y \in S PROVE m <= y
  <2>1. ~(<<y, m>> \in OpToRel(<, Nat))
    BY <1>3
  <2>2. ~(y < m)
    BY <1>1, <2>1 DEF OpToRel
  <2>3. QED
    BY <1>1, <2>2
<1> USE DEF S
<1>5. \A x \in list : m <= x.time
  BY <1>4
<1>6. Earliest(list) \in S /\ \A x \in list : Earliest(list) <= x.time
  BY <1>5 DEF Earliest
<1>7. QED
  BY <1>1, <1>6

(* The timers of one object.                                               *)
LEMMA OwnTimers ==
    ASSUME IsFiniteSet(m_TimerQueueMultiMap), NEW c
    PROVE  /\ IsFiniteSet(Own(c)) /\ IsFiniteSet(Others(c))
           /\ Cardinality(Others(c)) = Cardinality(m_TimerQueueMultiMap) - Cardinality(Own(c))
<1>1. Own(c) \subseteq m_TimerQueueMultiMap
  BY DEF Own
<1>2. m_TimerQueueMultiMap \cap Own(c) = Own(c)
  BY <1>1
<1>3. IsFiniteSet(Own(c))
  BY <1>1, FS_Subset
<1>4. /\ IsFiniteSet(Others(c))
      /\ Cardinality(Others(c)) =
           Cardinality(m_TimerQueueMultiMap) - Cardinality(m_TimerQueueMultiMap \cap Own(c))
  BY FS_Difference DEF Others
<1>5. QED
  BY <1>2, <1>3, <1>4

(* A timer that is in the list is the only one of its object, and belongs  *)
(* to the client the object serves now, whom nobody is accepting or has    *)
(* begun to remove.                                                        *)
LEMMA TimerHasClient ==
    ASSUME TimerInv, NEW x \in m_TimerQueueMultiMap, NEW c, c = x.pConn
    PROVE  /\ x \in Timer /\ c \in Conns
           /\ place[c] = "online" /\ ~Handled(c) /\ ~TakenAway(c)
           /\ Own(c) = {x}
           /\ x.currSequence = currSequence[c]
<1> USE DEF TimerInv, PlacesInv
<1>1. x \in Timer /\ c \in Conns /\ x \in Own(c)
  BY DEF TypeOK, Timer, Own
<1>2. place[c] = "online"
  BY <1>1 DEF OneTimerPerClient
<1>3. ~Handled(c)
  BY <1>1 DEF Handled, ThreadInv, OpeningInv, Threads
<1>4. ~TakenAway(c)
  BY <1>1 DEF TakenAway, CheckInv
<1>5. Cardinality(Own(c)) = 1 /\ x.currSequence = currSequence[c]
  BY <1>1, <1>2, <1>3, <1>4 DEF OneTimerPerClient
<1>6. Own(c) = {x}
  <2>1. \A S : IsFiniteSet(S) => (Cardinality(S) = 1 <=> \E y : S = {y})
    BY FS_Singleton
  <2>2. QED
    BY <1>1, <1>5, <2>1, OwnTimers
<1>7. QED
  BY <1>1, <1>2, <1>3, <1>4, <1>5, <1>6

(* A step that leaves the timers, the objects and their sequence numbers   *)
(* alone, and frees no client of a thread or of the monitor that has it in *)
(* hand, keeps one timer per client.                                       *)
LEMMA SameTimers ==
    ASSUME TimerInv,
           UNCHANGED <<m_TimerQueueMultiMap, place, currSequence>>,
           \A c \in Conns : Handled(c) => Handled(c)',
           \A c \in Conns : TakenAway(c) => TakenAway(c)'
    PROVE  OneTimerPerClient'
BY DEF TimerInv, PlacesInv, OneTimerPerClient, Own

LEMMA EpollOrLogic ==
    /\ Epoll \in Threads
    /\ \A t \in Threads : t = Epoll \/ t \in LogicThreads
    /\ \A t \in LogicThreads : t \in Threads /\ t # Epoll
BY TimerConstants DEF Threads

LEMMA SameList ==
    ASSUME TimerInv, UNCHANGED timers
    PROVE  IsFiniteSet(m_TimerQueueMultiMap)' /\ CachedFieldsAgree'
BY DEF TimerInv, CachedFieldsAgree, timers, Earliest

(* The cached fields after a step that computes them anew.                 *)
LEMMA NewList ==
    ASSUME TimerInv, NEW list \in SUBSET Timer, IsFiniteSet(list),
           m_TimerQueueMultiMap' = list,
           m_CurrentHeartBeatListSize' = Cardinality(list),
           m_HBListEarliestTime' = Refreshed(list)
    PROVE  /\ IsFiniteSet(m_TimerQueueMultiMap)' /\ CachedFieldsAgree'
           /\ m_CurrentHeartBeatListSize' \in Nat /\ m_HBListEarliestTime' \in Nat
<1>1. Cardinality(list) \in Nat
  BY FS_CardinalityType
<1>2. CASE list = {}
  BY <1>1, <1>2 DEF TimerInv, TypeOK, CachedFieldsAgree, Refreshed
<1>3. CASE list # {}
  <2>1. Earliest(list) \in Nat
    BY <1>3, EarliestIsFirst
  <2>2. m_HBListEarliestTime' = Earliest(list)
    BY <1>3 DEF Refreshed
  <2>3. Earliest(list) = Earliest(m_TimerQueueMultiMap')
    BY DEF Earliest
  <2>4. QED
    BY <1>1, <2>1, <2>2, <2>3 DEF CachedFieldsAgree, Earliest
<1>4. QED
  BY <1>2, <1>3

-----------------------------------------------------------------------------
(* Every step preserves the invariant.                                     *)

LEMMA InitTimerInv == Init => TimerInv
<1> SUFFICES ASSUME Init PROVE TimerInv
  OBVIOUS
<1>1. TypeOK
  BY DEF Init, TypeOK, Timer, Threads, NoTimer
<1>2. IsFiniteSet(m_TimerQueueMultiMap) /\ CachedFieldsAgree
  BY FS_EmptySet DEF Init, CachedFieldsAgree
<1>3. OneTimerPerClient
  BY DEF Init, OneTimerPerClient, Own
<1>4. ThreadInv /\ OpeningInv /\ CheckInv
  BY DEF Init, ThreadInv, OpeningInv, CheckInv, Threads
<1>5. QED
  BY <1>1, <1>2, <1>3, <1>4 DEF TimerInv, PlacesInv

LEMMA AcceptClientStep ==
    ASSUME TimerInv, NEW c \in Conns, AcceptClient(c)
    PROVE  TimerInv'
<1> USE DEF TimerInv, PlacesInv
<1>1. /\ Epoll \in Threads
      /\ \A t \in Threads : t = Epoll \/ t \in LogicThreads
      /\ \A t \in LogicThreads : t \in Threads /\ t # Epoll
  BY EpollOrLogic
<1>2. TypeOK'
  BY DEF TypeOK, AcceptClient, timers, scan, Threads
<1>3. IsFiniteSet(m_TimerQueueMultiMap)' /\ CachedFieldsAgree'
  BY SameList DEF AcceptClient
<1>4. /\ place[c] = "free" /\ pc[Epoll] = "idle"
      /\ m_TimerQueueMultiMap' = m_TimerQueueMultiMap
      /\ place' = [place EXCEPT ![c] = "online"]
      /\ currSequence' = [currSequence EXCEPT ![c] = @ + 1]
      /\ conn' = [conn EXCEPT ![Epoll] = c]
      /\ pc' = [pc EXCEPT ![Epoll] = "opening"]
      /\ monitor' = monitor /\ pOverTimeMsg' = pOverTimeMsg
      /\ m_IsTimeOutKick' = m_IsTimeOutKick
  BY DEF AcceptClient, timers, scan
<1>5. /\ place'[c] = "online" /\ pc'[Epoll] = "opening" /\ conn'[Epoll] = c
      /\ \A d \in Conns : d # c => place'[d] = place[d] /\ currSequence'[d] = currSequence[d]
      /\ \A t \in Threads : t # Epoll => pc'[t] = pc[t] /\ conn'[t] = conn[t]
      /\ \A d \in Conns : Own(d)' = Own(d)
  BY <1>1, <1>4 DEF TypeOK, Own
<1>6. OneTimerPerClient'
  <2>1. Own(c) = {} /\ Handled(c)'
    BY <1>1, <1>4, <1>5 DEF OneTimerPerClient, Handled
  <2>2. ASSUME NEW d \in Conns, d # c
        PROVE  (Handled(d) => Handled(d)') /\ (TakenAway(d) => TakenAway(d)')
    BY <1>1, <1>4, <1>5, <2>2 DEF Handled, TakenAway
  <2>3. QED
    BY <1>5, <2>1, <2>2 DEF OneTimerPerClient
<1>7. ThreadInv'
  BY <1>1, <1>4, <1>5 DEF ThreadInv, Own
<1>8. OpeningInv'
  <2>1. Own(c) = {}
    BY <1>4 DEF OneTimerPerClient
  <2>2. Own(conn[Epoll])' = {}
    BY <1>4, <1>5, <2>1 DEF Own
  <2>3. \A t \in LogicThreads : pc'[t] # "idle" => conn'[t] # c
    BY <1>1, <1>4, <1>5 DEF ThreadInv
  <2>4. QED
    BY <1>5, <2>2, <2>3 DEF OpeningInv
<1>9. CheckInv'
  <2> SUFFICES ASSUME monitor' \in {"checking", "kicking"}
               PROVE  CheckInv'
    BY DEF CheckInv
  <2> DEFINE d == pOverTimeMsg.pConn
  <2>1. pOverTimeMsg \in Timer /\ d \in Conns /\ place[d] = "online" /\ d # c
    BY <1>4 DEF CheckInv, Timer
  <2>2. ~Handled(d) /\ (m_IsTimeOutKick => Own(d) = {})
    BY <1>4 DEF CheckInv
  <2>3. ~Handled(d)'
    BY <1>1, <1>4, <1>5, <2>1, <2>2 DEF Handled
  <2>4. QED
    BY <1>4, <1>5, <2>1, <2>2, <2>3 DEF CheckInv
<1>10. QED
  BY <1>2, <1>3, <1>6, <1>7, <1>8, <1>9

LEMMA ReadClockStep ==
    ASSUME TimerInv, ReadClock
    PROVE  TimerInv'
<1> USE DEF TimerInv, PlacesInv
<1>1. /\ Epoll \in Threads
      /\ \A t \in Threads : t = Epoll \/ t \in LogicThreads
      /\ \A t \in LogicThreads : t \in Threads /\ t # Epoll
  BY EpollOrLogic
<1>2. TypeOK'
  BY <1>1, TimerConstants DEF TypeOK, ReadClock, timers, objects, scan
<1>3. IsFiniteSet(m_TimerQueueMultiMap)' /\ CachedFieldsAgree'
  BY SameList DEF ReadClock
<1>4. /\ pc[Epoll] = "opening" /\ pc' = [pc EXCEPT ![Epoll] = "adding"] /\ conn' = conn
      /\ UNCHANGED <<m_TimerQueueMultiMap, place, currSequence>>
      /\ UNCHANGED <<monitor, pOverTimeMsg, m_IsTimeOutKick>>
  BY DEF ReadClock, timers, objects, scan
<1>5. /\ pc'[Epoll] = "adding"
      /\ \A t \in Threads : t # Epoll => pc'[t] = pc[t]
      /\ \A d \in Conns : Own(d)' = Own(d)
  BY <1>1, <1>4 DEF TypeOK, Own
<1>6. \A d : Handled(d)' <=> Handled(d)
  BY <1>1, <1>4, <1>5 DEF Handled
<1>7. OneTimerPerClient'
  BY <1>4, <1>6, SameTimers DEF TakenAway
<1>8. ThreadInv'
  BY <1>1, <1>4, <1>5 DEF ThreadInv, Own
<1>9. OpeningInv'
  BY <1>1, <1>4, <1>5 DEF OpeningInv, Own
<1>10. CheckInv'
  BY <1>4, <1>5, <1>6 DEF CheckInv, Timer
<1>11. QED
  BY <1>2, <1>3, <1>7, <1>8, <1>9, <1>10

LEMMA AddToTimerListStep ==
    ASSUME TimerInv, AddToTimerList
    PROVE  TimerInv'
<1> USE DEF TimerInv, PlacesInv
<1> DEFINE c == conn[Epoll]
           x == [time |-> addTime, pConn |-> c, currSequence |-> currSequence[c]]
           list == m_TimerQueueMultiMap \cup {x}
<1>1. /\ Epoll \in Threads
      /\ \A t \in Threads : t = Epoll \/ t \in LogicThreads
      /\ \A t \in LogicThreads : t \in Threads /\ t # Epoll
  BY EpollOrLogic
<1>2. /\ c \in Conns /\ place[c] = "online" /\ Own(c) = {}
      /\ \A t \in LogicThreads : pc[t] # "idle" => conn[t] # c
  BY <1>1 DEF AddToTimerList, ThreadInv, OpeningInv
<1>3. x \in Timer /\ x.pConn = c /\ x.currSequence = currSequence[c]
  BY <1>2 DEF TypeOK, Timer
<1>4. x \notin m_TimerQueueMultiMap
  BY <1>2, <1>3 DEF Own
<1>5. list \in SUBSET Timer /\ list # {}
  BY <1>3 DEF TypeOK
<1>6. IsFiniteSet(list) /\ Cardinality(list) = Cardinality(m_TimerQueueMultiMap) + 1
  BY <1>4, FS_AddElement
<1>7. /\ m_TimerQueueMultiMap' = list
      /\ m_HBListEarliestTime' = Refreshed(list)
      /\ m_CurrentHeartBeatListSize' = m_CurrentHeartBeatListSize + 1
      /\ pc' = [pc EXCEPT ![Epoll] = "idle"] /\ conn' = [conn EXCEPT ![Epoll] = NoConn]
      /\ MutexFree
      /\ UNCHANGED <<place, currSequence, monitor, pOverTimeMsg, m_IsTimeOutKick>>
  BY <1>5 DEF AddToTimerList, objects, scan, Refreshed
<1>8. m_CurrentHeartBeatListSize' = Cardinality(list)
  BY <1>6, <1>7 DEF CachedFieldsAgree
<1>9. /\ pc'[Epoll] = "idle" /\ conn'[Epoll] = NoConn
      /\ \A t \in Threads : t # Epoll => pc'[t] = pc[t] /\ conn'[t] = conn[t]
  BY <1>1, <1>7 DEF TypeOK
<1> HIDE DEF x, list
<1>10. /\ IsFiniteSet(m_TimerQueueMultiMap)' /\ CachedFieldsAgree'
       /\ m_CurrentHeartBeatListSize' \in Nat /\ m_HBListEarliestTime' \in Nat
  BY <1>5, <1>6, <1>7, <1>8, NewList
<1>11. TypeOK'
  BY <1>5, <1>7, <1>10 DEF TypeOK, AddToTimerList, objects, scan, Threads
<1>12. Own(c) = {} /\ \A d \in Conns : Own(d)' = IF d = c THEN {x} ELSE Own(d)
  BY <1>2, <1>3, <1>7 DEF list, Own
<1> HIDE DEF c
<1>13. OneTimerPerClient'
  <2>1. ASSUME NEW d \in Conns, d # c
        PROVE  (Handled(d) => Handled(d)') /\ ~TakenAway(d)
    BY <1>1, <1>7, <1>9, <2>1 DEF Handled, TakenAway, MutexFree, c
  <2>2. Cardinality({x}) = 1
    BY FS_Singleton
  <2>3. QED
    BY <1>2, <1>3, <1>7, <1>12, <2>1, <2>2 DEF OneTimerPerClient
<1>14. ThreadInv'
  <2>1. ASSUME NEW t \in Threads, pc'[t] = "deleted" PROVE Own(conn[t])' = {}
    <3>1. t # Epoll /\ pc[t] = "deleted" /\ conn'[t] = conn[t] /\ t \in LogicThreads
      BY <1>1, <1>9, <2>1
    <3>2. conn[t] \in Conns /\ conn[t] # c /\ Own(conn[t]) = {}
      BY <1>2, <3>1, <2>1 DEF ThreadInv
    <3>3. QED
      BY <1>3, <1>7, <3>1, <3>2 DEF Own, list
  <2>2. QED
    BY <1>1, <1>7, <1>9, <2>1 DEF ThreadInv
<1>15. OpeningInv' /\ CheckInv'
  BY <1>7, <1>9 DEF OpeningInv, CheckInv, MutexFree
<1>16. QED
  BY <1>10, <1>11, <1>13, <1>14, <1>15

(* A thread turns to an object, goes from handling it to closing it, or    *)
(* lets go of it, and touches neither the timers nor the objects.          *)
LEMMA ThreadMoves ==
    ASSUME TimerInv, NEW t \in Threads,
           NEW step \in {"idle", "handling", "closing"}, NEW d \in Conns \cup {NoConn},
           pc[t] \in {"idle", "handling", "closing"},
           step = "idle" => d = NoConn,
           step # "idle" => /\ d \in Conns /\ place[d] # "free"
                            /\ pc[Epoll] \in {"opening", "adding"} => d # conn[Epoll],
           pc' = [pc EXCEPT ![t] = step],
           conn' = [conn EXCEPT ![t] = d],
           UNCHANGED <<m_TimerQueueMultiMap, place, currSequence>>,
           UNCHANGED <<monitor, pOverTimeMsg, m_IsTimeOutKick>>
    PROVE  PlacesInv'
<1> USE DEF TimerInv, PlacesInv
<1>1. /\ Epoll \in Threads
      /\ \A u \in Threads : u = Epoll \/ u \in LogicThreads
      /\ \A u \in LogicThreads : u \in Threads /\ u # Epoll
  BY EpollOrLogic
<1>2. /\ pc'[t] = step /\ conn'[t] = d
      /\ \A u \in Threads : u # t => pc'[u] = pc[u] /\ conn'[u] = conn[u]
      /\ \A e \in Conns : Own(e)' = Own(e)
  BY DEF TypeOK, Own
<1>3. \A e : Handled(e)' <=> Handled(e)
  BY <1>2 DEF Handled
<1>4. OneTimerPerClient'
  BY <1>3, SameTimers DEF TakenAway
<1>5. ThreadInv'
  <2>1. ASSUME NEW u \in Threads
        PROVE  /\ pc'[u] # "idle" => conn'[u] \in Conns /\ place'[conn'[u]] # "free"
               /\ pc'[u] = "idle" => conn'[u] = NoConn
               /\ u \in LogicThreads => pc'[u] \notin {"opening", "adding"}
    BY <1>2 DEF ThreadInv
  <2>2. ASSUME NEW u \in Threads, pc'[u] = "deleted" PROVE Own(conn[u])' = {}
    BY <1>2, <2>2 DEF ThreadInv, Own
  <2>3. QED
    BY <1>1, <2>1, <2>2 DEF ThreadInv
<1>6. OpeningInv'
  <2> SUFFICES ASSUME pc'[Epoll] \in {"opening", "adding"} PROVE OpeningInv'
    BY DEF OpeningInv
  <2>1. t # Epoll /\ pc'[Epoll] = pc[Epoll] /\ conn'[Epoll] = conn[Epoll]
    BY <1>1, <1>2
  <2>2. place[conn[Epoll]] = "online" /\ Own(conn[Epoll]) = {}
    BY <2>1 DEF OpeningInv
  <2>3. Own(conn[Epoll])' = {}
    BY <2>1, <2>2 DEF Own
  <2>4. ASSUME NEW u \in LogicThreads, pc'[u] # "idle" PROVE conn'[u] # conn'[Epoll]
    BY <1>1, <1>2, <2>1, <2>4 DEF OpeningInv
  <2>5. QED
    BY <2>1, <2>2, <2>3, <2>4 DEF OpeningInv
<1>7. CheckInv'
  BY <1>2, <1>3 DEF CheckInv, Timer
<1>8. QED
  BY <1>4, <1>5, <1>6, <1>7

LEMMA ReadCloseStep ==
    ASSUME TimerInv, NEW c \in Conns, ReadClose(c)
    PROVE  TimerInv'
<1> USE DEF TimerInv
<1>1. Epoll \in Threads
  BY DEF Threads
<1>2. TypeOK' /\ IsFiniteSet(m_TimerQueueMultiMap)' /\ CachedFieldsAgree'
  BY <1>1, SameList DEF TypeOK, ReadClose, timers, objects, scan
<1>3. PlacesInv'
  <2>1. /\ pc[Epoll] = "idle" /\ place[c] # "free"
        /\ pc' = [pc EXCEPT ![Epoll] = "closing"] /\ conn' = [conn EXCEPT ![Epoll] = c]
        /\ UNCHANGED <<m_TimerQueueMultiMap, place, currSequence>>
        /\ UNCHANGED <<monitor, pOverTimeMsg, m_IsTimeOutKick>>
    BY <1>1 DEF ReadClose, timers, objects, scan
  <2> HIDE DEF TimerInv
  <2>2. QED
    BY <1>1, <2>1, ThreadMoves
<1>4. QED
  BY <1>2, <1>3

LEMMA HandleMessageStep ==
    ASSUME TimerInv, NEW t \in LogicThreads, NEW c \in Conns, HandleMessage(t, c)
    PROVE  TimerInv'
<1> USE DEF TimerInv
<1>1. Epoll \in Threads /\ t \in Threads
  BY DEF Threads
<1>2. TypeOK' /\ IsFiniteSet(m_TimerQueueMultiMap)' /\ CachedFieldsAgree'
  BY <1>1, SameList DEF TypeOK, HandleMessage, timers, objects, scan
<1>3. PlacesInv'
  <2>1. /\ pc[t] = "idle" /\ place[c] # "free"
        /\ pc[Epoll] \in {"opening", "adding"} => c # conn[Epoll]
        /\ pc' = [pc EXCEPT ![t] = "handling"] /\ conn' = [conn EXCEPT ![t] = c]
        /\ UNCHANGED <<m_TimerQueueMultiMap, place, currSequence>>
        /\ UNCHANGED <<monitor, pOverTimeMsg, m_IsTimeOutKick>>
    BY <1>1 DEF HandleMessage, timers, objects, scan
  <2> HIDE DEF TimerInv
  <2>2. QED
    BY <1>1, <2>1, ThreadMoves
<1>4. QED
  BY <1>2, <1>3

LEMMA HandlerStep ==
    ASSUME TimerInv, NEW t \in LogicThreads,
           HandleHeartbeat(t) \/ HandleOther(t) \/ CutSlowClient(t)
    PROVE  TimerInv'
<1> USE DEF TimerInv
<1>1. /\ t \in Threads /\ pc[t] = "handling"
      /\ conn[t] \in Conns /\ place[conn[t]] # "free"
      /\ pc[Epoll] \in {"opening", "adding"} => conn[t] # conn[Epoll]
  BY DEF Threads, HandleHeartbeat, HandleOther, HandlerReturns, CutSlowClient,
         PlacesInv, ThreadInv, OpeningInv
<1>2. TypeOK' /\ IsFiniteSet(m_TimerQueueMultiMap)' /\ CachedFieldsAgree'
  <2>1. UNCHANGED timers
    BY DEF HandleHeartbeat, HandleOther, CutSlowClient
  <2>2. TypeOK'
    BY <1>1 DEF TypeOK, HandleHeartbeat, HandleOther, HandlerReturns, CutSlowClient,
                timers, objects, scan
  <2>3. QED
    BY <2>1, <2>2, SameList
<1>3. CASE HandleHeartbeat(t) \/ HandleOther(t)
  BY <1>1, <1>2, <1>3, ThreadMoves
     DEF HandleHeartbeat, HandleOther, HandlerReturns, timers, objects, scan
<1>4. CASE CutSlowClient(t)
  <2>1. conn' = [conn EXCEPT ![t] = conn[t]]
    BY <1>1, <1>4 DEF TypeOK, CutSlowClient
  <2>2. PlacesInv'
    <3>1. /\ pc' = [pc EXCEPT ![t] = "closing"]
          /\ UNCHANGED <<m_TimerQueueMultiMap, place, currSequence>>
          /\ UNCHANGED <<monitor, pOverTimeMsg, m_IsTimeOutKick>>
      BY <1>4 DEF CutSlowClient, timers, objects, scan
    <3> HIDE DEF TimerInv
    <3>2. QED
      BY <1>1, <2>1, <3>1, ThreadMoves
  <2>3. QED
    BY <1>2, <2>2
<1>5. QED
  BY <1>3, <1>4

LEMMA DeleteFromTimerQueueStep ==
    ASSUME TimerInv, NEW t \in Threads, DeleteFromTimerQueue(t)
    PROVE  TimerInv'
<1> USE DEF TimerInv, PlacesInv
<1> DEFINE c == conn[t]
           list == Others(c)
<1>1. /\ Epoll \in Threads
      /\ \A u \in Threads : u = Epoll \/ u \in LogicThreads
      /\ \A u \in LogicThreads : u \in Threads /\ u # Epoll
  BY EpollOrLogic
<1>2. /\ MutexFree /\ pc[t] = "closing" /\ pc' = [pc EXCEPT ![t] = "deleted"] /\ conn' = conn
      /\ m_TimerQueueMultiMap' = list
      /\ m_CurrentHeartBeatListSize' = m_CurrentHeartBeatListSize - Cardinality(Own(c))
      /\ m_HBListEarliestTime' = Refreshed(list)
      /\ UNCHANGED <<place, currSequence, lastHeartBeatTime, accepted, addTime>>
      /\ UNCHANGED <<monitor, pOverTimeMsg, m_IsTimeOutKick, CurrentTime, now>>
  BY DEF DeleteFromTimerQueue, DeleteTimers, objects, scan
<1>3. c \in Conns /\ place[c] # "free"
  BY <1>2 DEF ThreadInv
<1>4. list \in SUBSET Timer /\ IsFiniteSet(list) /\ m_CurrentHeartBeatListSize' = Cardinality(list)
  BY <1>2, OwnTimers DEF TypeOK, CachedFieldsAgree, Others
<1>5. /\ IsFiniteSet(m_TimerQueueMultiMap)' /\ CachedFieldsAgree'
      /\ m_CurrentHeartBeatListSize' \in Nat /\ m_HBListEarliestTime' \in Nat
  <2> HIDE DEF list, TimerInv, PlacesInv
  <2>1. QED
    BY <1>2, <1>4, NewList
<1>6. TypeOK'
  BY <1>2, <1>4, <1>5 DEF TypeOK
<1>7. /\ pc'[t] = "deleted"
      /\ \A u \in Threads : u # t => pc'[u] = pc[u]
      /\ \A d \in Conns : Own(d)' = IF d = c THEN {} ELSE Own(d)
  BY <1>2 DEF TypeOK, Own, Others
<1> HIDE DEF list
<1>8. OneTimerPerClient'
  <2>1. Handled(c)'
    BY <1>2, <1>7 DEF Handled
  <2>2. ASSUME NEW d \in Conns, d # c
        PROVE  (Handled(d) => Handled(d)') /\ ~TakenAway(d)
    BY <1>2, <1>7, <2>2 DEF Handled, TakenAway, MutexFree
  <2>3. QED
    BY <1>2, <1>3, <1>7, <2>1, <2>2 DEF OneTimerPerClient
<1>9. ThreadInv'
  <2>1. ASSUME NEW u \in Threads, pc'[u] = "deleted" PROVE Own(conn[u])' = {}
    <3>1. conn[u] = c \/ Own(conn[u]) = {}
      BY <1>7, <2>1 DEF ThreadInv
    <3>2. QED
      BY <1>2, <3>1 DEF Own, Others, list
  <2>2. QED
    BY <1>1, <1>2, <1>7, <2>1 DEF ThreadInv
<1>10. OpeningInv'
  <2> SUFFICES ASSUME pc'[Epoll] \in {"opening", "adding"} PROVE OpeningInv'
    BY DEF OpeningInv
  <2>1. t # Epoll /\ pc'[Epoll] = pc[Epoll] /\ t \in LogicThreads
    BY <1>1, <1>7
  <2>2. place[conn[Epoll]] = "online" /\ Own(conn[Epoll]) = {} /\ conn[Epoll] \in Conns
    BY <1>1, <2>1 DEF OpeningInv, ThreadInv
  <2>3. Own(conn[Epoll])' = {}
    BY <1>2, <2>2 DEF Own, Others, list
  <2>4. ASSUME NEW u \in LogicThreads, pc'[u] # "idle" PROVE conn'[u] # conn'[Epoll]
    BY <1>1, <1>2, <1>7, <2>1, <2>4 DEF OpeningInv
  <2>5. QED
    BY <1>2, <2>2, <2>3, <2>4 DEF OpeningInv
<1>11. CheckInv'
  BY <1>2 DEF CheckInv, MutexFree
<1>12. QED
  BY <1>5, <1>6, <1>8, <1>9, <1>10, <1>11

LEMMA PushConnectToRecyQueueStep ==
    ASSUME TimerInv, NEW t \in Threads, PushConnectToRecyQueue(t)
    PROVE  TimerInv'
<1> USE DEF TimerInv, PlacesInv
<1> DEFINE c == conn[t]
<1>1. /\ Epoll \in Threads
      /\ \A u \in Threads : u = Epoll \/ u \in LogicThreads
      /\ \A u \in LogicThreads : u \in Threads /\ u # Epoll
  BY EpollOrLogic
<1>2. pc[t] = "deleted" /\ c \in Conns /\ place[c] # "free" /\ Own(c) = {}
  BY DEF PushConnectToRecyQueue, ThreadInv
<1>3. IsFiniteSet(m_TimerQueueMultiMap)' /\ CachedFieldsAgree'
  BY SameList DEF PushConnectToRecyQueue
<1>4. /\ place' \in [Conns -> {"free", "online", "closed"}] /\ currSequence' \in [Conns -> Nat]
      /\ place'[c] = "closed"
      /\ \A d \in Conns : d # c => place'[d] = place[d] /\ currSequence'[d] = currSequence[d]
  BY <1>2 DEF TypeOK, PushConnectToRecyQueue
<1>5. /\ pc' = [pc EXCEPT ![t] = "idle"] /\ conn' = [conn EXCEPT ![t] = NoConn]
      /\ UNCHANGED <<timers, m_IsTimeOutKick, lastHeartBeatTime, accepted, addTime, scan, now>>
      /\ m_TimerQueueMultiMap' = m_TimerQueueMultiMap
      /\ UNCHANGED <<monitor, pOverTimeMsg, m_IsTimeOutKick>>
  BY DEF PushConnectToRecyQueue, timers, scan
<1>6. TypeOK'
  BY <1>4, <1>5 DEF TypeOK, timers, scan
<1>7. /\ pc'[t] = "idle" /\ conn'[t] = NoConn
      /\ \A u \in Threads : u # t => pc'[u] = pc[u] /\ conn'[u] = conn[u]
      /\ \A d \in Conns : Own(d)' = Own(d)
  BY <1>5 DEF TypeOK, Own
<1>8. \A d \in Conns : d # c => (Handled(d)' <=> Handled(d)) /\ (TakenAway(d)' <=> TakenAway(d))
  BY <1>5, <1>7 DEF Handled, TakenAway
<1>9. OneTimerPerClient'
  BY <1>2, <1>4, <1>7, <1>8 DEF OneTimerPerClient
<1>10. ThreadInv'
  <2>1. ASSUME NEW u \in Threads
        PROVE  /\ pc'[u] # "idle" => conn'[u] \in Conns /\ place'[conn'[u]] # "free"
               /\ pc'[u] = "idle" => conn'[u] = NoConn
               /\ u \in LogicThreads => pc'[u] \notin {"opening", "adding"}
    BY <1>4, <1>7 DEF ThreadInv
  <2>2. ASSUME NEW u \in Threads, pc'[u] = "deleted" PROVE Own(conn[u])' = {}
    BY <1>5, <1>7, <2>2 DEF ThreadInv, Own
  <2>3. QED
    BY <1>1, <2>1, <2>2 DEF ThreadInv
<1>11. OpeningInv'
  <2> SUFFICES ASSUME pc'[Epoll] \in {"opening", "adding"} PROVE OpeningInv'
    BY DEF OpeningInv
  <2>1. t # Epoll /\ pc'[Epoll] = pc[Epoll] /\ conn'[Epoll] = conn[Epoll] /\ t \in LogicThreads
    BY <1>1, <1>7
  <2>2. /\ place[conn[Epoll]] = "online" /\ Own(conn[Epoll]) = {}
        /\ conn[Epoll] \in Conns /\ conn[Epoll] # c
    BY <1>1, <1>2, <2>1 DEF OpeningInv, ThreadInv
  <2>3. Own(conn[Epoll])' = {}
    BY <1>5, <2>1, <2>2 DEF Own
  <2>4. ASSUME NEW u \in LogicThreads, pc'[u] # "idle" PROVE conn'[u] # conn'[Epoll]
    BY <1>1, <1>7, <2>1, <2>4 DEF OpeningInv
  <2>5. QED
    BY <1>4, <2>1, <2>2, <2>3, <2>4 DEF OpeningInv
<1>12. CheckInv'
  <2> SUFFICES ASSUME monitor' \in {"checking", "kicking"} PROVE CheckInv'
    BY DEF CheckInv
  <2> DEFINE d == pOverTimeMsg.pConn
  <2>1. /\ pOverTimeMsg \in Timer /\ d \in Conns /\ place[d] = "online" /\ ~Handled(d)
        /\ pOverTimeMsg.currSequence = currSequence[d] /\ (m_IsTimeOutKick => Own(d) = {})
    BY <1>5 DEF CheckInv, Timer
  <2>2. d # c
    BY <1>2, <2>1 DEF Handled
  <2>3. QED
    BY <1>4, <1>5, <1>7, <1>8, <2>1, <2>2 DEF CheckInv
<1>13. QED
  BY <1>3, <1>6, <1>9, <1>10, <1>11, <1>12

LEMMA FreeConnectionStep ==
    ASSUME TimerInv, NEW c \in Conns, FreeConnection(c)
    PROVE  TimerInv'
<1> USE DEF TimerInv, PlacesInv
<1>1. /\ Epoll \in Threads
      /\ \A u \in LogicThreads : u \in Threads
  BY EpollOrLogic
<1>2. IsFiniteSet(m_TimerQueueMultiMap)' /\ CachedFieldsAgree'
  BY SameList DEF FreeConnection
<1>3. /\ place[c] = "closed" /\ \A t \in Threads : conn[t] # c
      /\ UNCHANGED <<m_TimerQueueMultiMap, m_IsTimeOutKick, pc, conn, monitor, pOverTimeMsg>>
  BY DEF FreeConnection, timers, threads, scan
<1>4. TypeOK'
  BY DEF FreeConnection, TypeOK, timers, threads, scan
<1>5. /\ place'[c] = "free" /\ Own(c) = {}
      /\ \A d \in Conns : d # c => place'[d] = place[d] /\ currSequence'[d] = currSequence[d]
      /\ \A d \in Conns : Own(d)' = Own(d)
      /\ \A d \in Conns : (Handled(d)' <=> Handled(d)) /\ (TakenAway(d)' <=> TakenAway(d))
  <2>1. place'[c] = "free" /\ Own(c) = {}
    BY <1>3 DEF FreeConnection, TypeOK, OneTimerPerClient
  <2>2. \A d \in Conns : d # c => place'[d] = place[d] /\ currSequence'[d] = currSequence[d]
    BY DEF FreeConnection, TypeOK
  <2>3. \A d \in Conns : Own(d)' = Own(d)
    BY <1>3 DEF Own
  <2>4. \A d \in Conns : (Handled(d)' <=> Handled(d)) /\ (TakenAway(d)' <=> TakenAway(d))
    BY <1>3 DEF Handled, TakenAway
  <2>5. QED
    BY <2>1, <2>2, <2>3, <2>4
<1>6. OneTimerPerClient'
  BY <1>5 DEF OneTimerPerClient
<1>7. ThreadInv'
  BY <1>1, <1>3, <1>5 DEF ThreadInv, Own
<1>8. OpeningInv'
  <2>1. pc[Epoll] \in {"opening", "adding"} =>
          /\ place'[conn[Epoll]] = "online" /\ Own(conn[Epoll])' = {}
    BY <1>1, <1>3, <1>5 DEF OpeningInv, ThreadInv, Own
  <2>2. QED
    BY <1>3, <2>1 DEF OpeningInv
<1>9. CheckInv'
  BY <1>3, <1>5 DEF CheckInv, Timer
<1>10. QED
  BY <1>2, <1>4, <1>6, <1>7, <1>8, <1>9

(* The monitor moves on and has no timer in hand before or after.          *)
LEMMA MonitorMoves ==
    ASSUME TimerInv,
           monitor' \notin {"checking", "kicking"},
           m_IsTimeOutKick => monitor \notin {"checking", "kicking"},
           UNCHANGED <<timers, objects, threads>>
    PROVE  /\ PlacesInv'
           /\ IsFiniteSet(m_TimerQueueMultiMap)' /\ CachedFieldsAgree'
<1> USE DEF TimerInv, PlacesInv
<1>1. UNCHANGED <<m_TimerQueueMultiMap, place, currSequence, pc, conn>>
  BY DEF timers, objects, threads
<1>2. \A c : Handled(c)' <=> Handled(c)
  BY <1>1 DEF Handled
<1>3. OneTimerPerClient'
  BY <1>1, <1>2, SameTimers DEF TakenAway
<1>4. ThreadInv' /\ OpeningInv' /\ CheckInv'
  BY <1>1 DEF ThreadInv, OpeningInv, CheckInv, Own
<1>5. QED
  BY <1>3, <1>4, SameList

LEMMA LookingStep ==
    ASSUME TimerInv, Wake \/ CompareEarliest \/ LockTimeQueue \/ UnlockTimeQueue
    PROVE  TimerInv'
<1>1. /\ monitor \notin {"checking", "kicking"} /\ monitor' \notin {"checking", "kicking"}
      /\ UNCHANGED <<timers, objects, threads>>
  BY DEF Wake, CompareEarliest, LockTimeQueue, UnlockTimeQueue
<1>2. TypeOK'
  BY DEF TimerInv, TypeOK, Wake, CompareEarliest, LockTimeQueue, UnlockTimeQueue,
         timers, objects, threads
<1>3. QED
  BY <1>1, <1>2, MonitorMoves DEF TimerInv

(* The timer taken out is the only one of its client, so starting it again *)
(* leaves the client with exactly one, and when clients are kicked at once *)
(* the monitor now has the client in hand.                                 *)
LEMMA GetOverTimeTimerStep ==
    ASSUME TimerInv, NEW x \in m_TimerQueueMultiMap, GetOverTimeTimer(x)
    PROVE  TimerInv'
<1> DEFINE c == x.pConn
           r == [x EXCEPT !.time = CurrentTime + m_WaitTime]
           list == (m_TimerQueueMultiMap \ {x}) \cup Restarted(x)
<1>1. /\ x \in Timer /\ c \in Conns /\ place[c] = "online" /\ ~Handled(c)
      /\ Own(c) = {x} /\ x.currSequence = currSequence[c]
  BY TimerHasClient
<1> USE DEF TimerInv, PlacesInv
<1>2. /\ monitor = "scanning" /\ monitor' = "checking" /\ pOverTimeMsg' = x
      /\ m_TimerQueueMultiMap' = list
      /\ m_CurrentHeartBeatListSize' = m_CurrentHeartBeatListSize - 1 + Cardinality(Restarted(x))
      /\ m_HBListEarliestTime' = Refreshed(list)
      /\ UNCHANGED <<m_IsTimeOutKick, place, currSequence, lastHeartBeatTime, accepted>>
      /\ UNCHANGED <<pc, conn, addTime, CurrentTime, now>>
  BY DEF GetOverTimeTimer, TakeTimer, objects, threads
<1>3. r \in Timer /\ r.pConn = c /\ r.currSequence = x.currSequence
  BY <1>1, TimerConstants DEF Timer, TypeOK
<1>4. Restarted(x) = IF m_IsTimeOutKick THEN {} ELSE {r}
  BY DEF Restarted
<1> HIDE DEF r
<1>5. list \in SUBSET Timer
  BY <1>3, <1>4 DEF TypeOK
<1>6. IsFiniteSet(list) /\ m_CurrentHeartBeatListSize' = Cardinality(list)
  <2>1. /\ IsFiniteSet(m_TimerQueueMultiMap \ {x})
        /\ Cardinality(m_TimerQueueMultiMap \ {x}) = Cardinality(m_TimerQueueMultiMap) - 1
    BY FS_RemoveElement
  <2>2. Cardinality(m_TimerQueueMultiMap) \in Nat
    BY FS_CardinalityType
  <2>3. CASE m_IsTimeOutKick
    <3>1. list = m_TimerQueueMultiMap \ {x} /\ Cardinality(Restarted(x)) = 0
      BY <1>4, <2>3, FS_EmptySet
    <3>2. QED
      BY <1>2, <2>1, <2>2, <3>1 DEF CachedFieldsAgree
  <2>4. CASE ~m_IsTimeOutKick
    <3>1. list = (m_TimerQueueMultiMap \ {x}) \cup {r} /\ Cardinality(Restarted(x)) = 1
      BY <1>4, <2>4, FS_Singleton
    <3>2. r \notin m_TimerQueueMultiMap \ {x}
      BY <1>1, <1>3 DEF Own
    <3>3. /\ IsFiniteSet(list)
          /\ Cardinality(list) = Cardinality(m_TimerQueueMultiMap \ {x}) + 1
      BY <2>1, <3>1, <3>2, FS_AddElement
    <3>4. QED
      BY <1>2, <2>1, <2>2, <3>1, <3>3 DEF CachedFieldsAgree
  <2>5. QED
    BY <2>3, <2>4
<1>7. /\ IsFiniteSet(m_TimerQueueMultiMap)' /\ CachedFieldsAgree'
      /\ m_CurrentHeartBeatListSize' \in Nat /\ m_HBListEarliestTime' \in Nat
  <2> HIDE DEF list, TimerInv, PlacesInv
  <2>1. QED
    BY <1>2, <1>5, <1>6, NewList
<1>8. TypeOK'
  BY <1>1, <1>2, <1>5, <1>7 DEF TypeOK
<1>9. /\ Own(c)' = IF m_IsTimeOutKick THEN {} ELSE {r}
      /\ \A d : d # c => Own(d)' = Own(d)
  <2>1. Own(c)' = IF m_IsTimeOutKick THEN {} ELSE {r}
    BY <1>1, <1>2, <1>3, <1>4 DEF Own
  <2>2. ASSUME NEW d, d # c PROVE Own(d)' = Own(d)
    BY <1>2, <1>3, <1>4, <2>2 DEF Own
  <2>3. QED
    BY <2>1, <2>2
<1>10. \A d : Handled(d)' <=> Handled(d)
  BY <1>2 DEF Handled
<1> HIDE DEF list, c
<1>11. OneTimerPerClient'
  <2>1. m_IsTimeOutKick => TakenAway(c)'
    BY <1>2 DEF TakenAway, c
  <2>2. \A d : ~TakenAway(d)
    BY <1>2 DEF TakenAway
  <2>3. Cardinality({r}) = 1
    BY FS_Singleton
  <2>4. QED
    BY <1>1, <1>2, <1>3, <1>9, <1>10, <2>1, <2>2, <2>3 DEF OneTimerPerClient
<1>12. ThreadInv'
  <2>1. ASSUME NEW t \in Threads, pc[t] = "deleted" PROVE Own(conn[t])' = {}
    <3>1. Own(conn[t]) = {} /\ conn[t] # c
      BY <1>1, <2>1 DEF ThreadInv
    <3>2. QED
      BY <1>2, <1>3, <1>4, <3>1 DEF Own, list
  <2>2. QED
    BY <1>2, <2>1 DEF ThreadInv
<1>13. OpeningInv'
  <2>1. ASSUME pc[Epoll] \in {"opening", "adding"} PROVE Own(conn[Epoll])' = {}
    <3>1. Own(conn[Epoll]) = {} /\ conn[Epoll] # c
      BY <1>1, <2>1 DEF OpeningInv
    <3>2. QED
      BY <1>2, <1>3, <1>4, <3>1 DEF Own, list
  <2>2. QED
    BY <1>2, <2>1 DEF OpeningInv
<1>14. CheckInv'
  <2>1. m_IsTimeOutKick => Own(x.pConn)' = {}
    BY <1>2, <1>4, <1>1, <1>9 DEF Own, c, list
  <2>2. ~Handled(x.pConn)'
    BY <1>1, <1>10 DEF c
  <2>3. QED
    BY <1>1, <1>2, <2>1, <2>2 DEF CheckInv, Own, Handled, c
<1>15. QED
  BY <1>7, <1>8, <1>11, <1>12, <1>13, <1>14

(* When clients are kicked at once, every client that is checked is kicked:*)
(* a timer taken out for good is not lost.                                 *)
LEMMA HeartBeatTimeOutCheckStep ==
    ASSUME TimerInv, HeartBeatTimeOutCheck
    PROVE  TimerInv'
<1>1. TypeOK'
  BY DEF TimerInv, TypeOK, HeartBeatTimeOutCheck, timers, objects, threads
<1>2. monitor = "checking" /\ UNCHANGED <<timers, objects, threads, m_IsTimeOutKick>>
  BY DEF HeartBeatTimeOutCheck
<1>3. CASE ToKick(pOverTimeMsg)
  <2>1. /\ UNCHANGED <<m_TimerQueueMultiMap, place, currSequence, pc, conn>>
        /\ UNCHANGED <<pOverTimeMsg, m_IsTimeOutKick>> /\ monitor' = "kicking"
    BY <1>2, <1>3 DEF HeartBeatTimeOutCheck, timers, objects, threads
  <2>2. \A c : (Handled(c)' <=> Handled(c)) /\ (TakenAway(c) => TakenAway(c)')
    BY <1>2, <2>1 DEF Handled, TakenAway
  <2>3. OneTimerPerClient'
    BY <2>1, <2>2, SameTimers
  <2>4. ThreadInv' /\ OpeningInv'
    BY <2>1 DEF TimerInv, PlacesInv, ThreadInv, OpeningInv, Own
  <2>5. CheckInv'
    <3>1. CheckInv
      BY DEF TimerInv, PlacesInv
    <3>2. QED
      BY <1>2, <2>1, <2>2, <3>1 DEF CheckInv, Own, Handled
  <2>6. QED
    BY <1>1, <1>2, <2>3, <2>4, <2>5, SameList DEF TimerInv, PlacesInv
<1>4. CASE ~ToKick(pOverTimeMsg)
  <2>1. ~m_IsTimeOutKick
    BY <1>2, <1>4 DEF ToKick, TimerInv, PlacesInv, CheckInv
  <2>2. monitor' = "scanning"
    BY <1>4 DEF HeartBeatTimeOutCheck
  <2>3. QED
    BY <1>1, <1>2, <2>1, <2>2, MonitorMoves DEF TimerInv
<1>5. QED
  BY <1>3, <1>4

LEMMA QuietStep ==
    ASSUME TimerInv, Tick \/ UNCHANGED vars
    PROVE  TimerInv'
<1>1. UNCHANGED <<timers, m_IsTimeOutKick, objects, threads, scan>>
  BY DEF Tick, vars
<1>2. TypeOK'
  BY <1>1 DEF TimerInv, TypeOK, Tick, vars, timers, objects, threads, scan
<1>3. UNCHANGED <<m_TimerQueueMultiMap, place, currSequence, pc, conn, monitor,
                  pOverTimeMsg, m_IsTimeOutKick>>
  BY <1>1 DEF timers, objects, threads, scan
<1>4. PlacesInv'
  BY <1>3 DEF TimerInv, PlacesInv, OneTimerPerClient, ThreadInv, OpeningInv, CheckInv,
              Own, Handled, TakenAway
<1>5. QED
  BY <1>1, <1>2, <1>4, SameList DEF TimerInv

LEMMA NextTimerInv ==
    ASSUME TimerInv, [Next]_vars
    PROVE  TimerInv'
<1>1. CASE EpollStep
  BY <1>1, AcceptClientStep, ReadCloseStep, ReadClockStep, AddToTimerListStep DEF EpollStep
<1>2. ASSUME NEW t \in LogicThreads, LogicStep(t) PROVE TimerInv'
  BY <1>2, HandleMessageStep, HandlerStep DEF LogicStep
<1>3. ASSUME NEW t \in Threads, CloseStep(t) PROVE TimerInv'
  BY <1>3, DeleteFromTimerQueueStep, PushConnectToRecyQueueStep DEF CloseStep
<1>4. ASSUME NEW c \in Conns, FreeConnection(c) PROVE TimerInv'
  BY <1>4, FreeConnectionStep
<1>5. CASE MonitorStep
  BY <1>5, LookingStep, GetOverTimeTimerStep, HeartBeatTimeOutCheckStep DEF MonitorStep
<1>6. CASE Tick \/ UNCHANGED vars
  BY <1>6, QuietStep
<1>7. QED
  BY <1>1, <1>2, <1>3, <1>4, <1>5, <1>6 DEF Next

THEOREM InvariantHolds == Spec => []TimerInv
<1>1. Init => TimerInv
  BY InitTimerInv
<1>2. TimerInv /\ [Next]_vars => TimerInv'
  BY NextTimerInv
<1>3. QED
  BY <1>1, <1>2, PTL DEF Spec

-----------------------------------------------------------------------------
(* What it shows.                                                          *)

(* Every variable keeps its type; in particular m_CurrentHeartBeatListSize,*)
(* a size_t that every DeleteFromTimerQueue counts down, never wraps.      *)
THEOREM TypeCorrect == Spec => []TypeOK
<1>1. TimerInv => TypeOK
  BY DEF TimerInv
<1>2. QED
  BY <1>1, InvariantHolds, PTL

(* The two cached fields the monitor reads without the mutex agree with the*)
(* list: the size counts its timers, and the earliest time is that of its  *)
(* first timer.                                                            *)
THEOREM CachesAgree == Spec => []CachedFieldsAgree
<1>1. TimerInv => CachedFieldsAgree
  BY DEF TimerInv
<1>2. QED
  BY <1>1, InvariantHolds, PTL

(* However accepting, closing, recycling and checking interleave, a client *)
(* online that no thread is adding or removing has exactly one timer, its  *)
(* own, and an object that serves nobody has none.                         *)
THEOREM OneTimerEach == Spec => []OneTimerPerClient
<1>1. TimerInv => OneTimerPerClient
  BY DEF TimerInv, PlacesInv
<1>2. QED
  BY <1>1, InvariantHolds, PTL

(* The monitor never kicks a client for the timer of another that used the *)
(* same object before.                                                     *)
THEOREM KicksOnlyTheOwner == Spec => []KickHitsOwner
<1>1. TimerInv => KickHitsOwner
  BY DEF TimerInv, PlacesInv, CheckInv, KickHitsOwner
<1>2. QED
  BY <1>1, InvariantHolds, PTL

=============================================================================

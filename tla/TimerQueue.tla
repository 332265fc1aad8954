----------------------------- MODULE TimerQueue -----------------------------
(***************************************************************************)
(* The heartbeat timers of one worker process (Sock_WaitTimeEnable = 1).   *)
(*                                                                         *)
(* The epoll thread starts a timer for every client it accepts, whoever    *)
(* closes a connection deletes its timers, and HeartBeatMonitorThread, the *)
(* monitor, takes the timers that are over, starts them again and kicks    *)
(* the clients that have been silent for too long.                         *)
(*                                                                         *)
(* m_TimeQueueMutex is held by the monitor across the steps of a scan and  *)
(* inside single actions by everybody else.  Of the connection pool only   *)
(* the life of an object is kept: it is recycled when no thread points to  *)
(* it, which is what ConnectionPool shows of the recycling delay.          *)
(***************************************************************************)
EXTENDS Integers, FiniteSets

CONSTANTS
    Conns,           \* connection objects
    Epoll,           \* the epoll thread
    LogicThreads,    \* the threads of the message thread pool
    m_WaitTime,      \* seconds between two checks of a client (Sock_MaxWaitTime)
    GraceTime,       \* seconds granted on top of three checks: 10 in the code
    MaxClients,      \* bound: clients accepted
    MaxTime          \* bound: seconds modelled

ASSUME TimerConstants ==
    /\ Epoll \notin LogicThreads
    /\ m_WaitTime \in Nat \ {0}
    /\ GraceTime \in Nat
    /\ MaxClients \in Nat
    /\ MaxTime \in Nat

VARIABLES
    m_TimerQueueMultiMap,        \* set of [time, pConn, currSequence]
    m_CurrentHeartBeatListSize,
    m_HBListEarliestTime,
    m_IsTimeOutKick,             \* Sock_TimeOutKick = 1, read at start-up
    place,                       \* per object: "free", "online" or "closed"
    currSequence, lastHeartBeatTime,   \* per object
    accepted,                    \* clients accepted so far
    pc, conn,                    \* per thread: step, pConn
    addTime,                     \* CurrTime of AddToTimerList
    monitor,                     \* step of HeartBeatMonitorThread
    CurrentTime,                 \* its reading of the clock
    pOverTimeMsg,                \* the timer it checks
    now                          \* time(NULL)

timers  == <<m_TimerQueueMultiMap, m_CurrentHeartBeatListSize, m_HBListEarliestTime>>
objects == <<place, currSequence, lastHeartBeatTime, accepted>>
threads == <<pc, conn, addTime>>
scan    == <<monitor, CurrentTime, pOverTimeMsg>>
vars    == <<timers, m_IsTimeOutKick, objects, threads, scan, now>>

Threads == {Epoll} \cup LogicThreads
NoConn  == "none"
Timer   == [time : Nat, pConn : Conns, currSequence : Nat]
NoTimer == [time |-> 0, pConn |-> NoConn, currSequence |-> 0]

Init ==
    /\ m_TimerQueueMultiMap = {}
    /\ m_CurrentHeartBeatListSize = 0
    /\ m_HBListEarliestTime = 0
    /\ m_IsTimeOutKick \in BOOLEAN
    /\ place = [c \in Conns |-> "free"]
    /\ currSequence = [c \in Conns |-> 1]
    /\ lastHeartBeatTime = [c \in Conns |-> 0]
    /\ accepted = 0
    /\ pc = [t \in Threads |-> "idle"]
    /\ conn = [t \in Threads |-> NoConn]
    /\ addTime = 0
    /\ monitor = "sleeping"
    /\ CurrentTime = 0
    /\ pOverTimeMsg = NoTimer
    /\ now = 0

(* m_TimeQueueMutex is not held by the monitor.                            *)
MutexFree == monitor \notin {"scanning", "checking", "kicking"}

(* GetTimerListEarliestTime, refreshed only when the list is not empty.    *)
Earliest(list) == CHOOSE time \in {x.time : x \in list} : \A x \in list : time <= x.time
Refreshed(list) == IF list = {} THEN m_HBListEarliestTime ELSE Earliest(list)

-----------------------------------------------------------------------------
(* The epoll thread accepts a client: GetConnection, then AddToTimerList,  *)
(* which reads the clock before it locks.                                  *)

AcceptClient(c) ==
    /\ pc[Epoll] = "idle"
    /\ place[c] = "free"
    /\ accepted < MaxClients
    /\ accepted' = accepted + 1
    /\ place' = [place EXCEPT ![c] = "online"]
    /\ currSequence' = [currSequence EXCEPT ![c] = @ + 1]
    /\ lastHeartBeatTime' = [lastHeartBeatTime EXCEPT ![c] = now]
    /\ conn' = [conn EXCEPT ![Epoll] = c]
    /\ pc' = [pc EXCEPT ![Epoll] = "opening"]
    /\ UNCHANGED <<timers, m_IsTimeOutKick, addTime, scan, now>>

ReadClock ==
    /\ pc[Epoll] = "opening"
    /\ addTime' = now + m_WaitTime
    /\ pc' = [pc EXCEPT ![Epoll] = "adding"]
    /\ UNCHANGED <<timers, m_IsTimeOutKick, objects, conn, scan, now>>

AddToTimerList ==
    /\ pc[Epoll] = "adding"
    /\ MutexFree
    /\ LET c == conn[Epoll]
           list == m_TimerQueueMultiMap \cup
                     {[time |-> addTime, pConn |-> c, currSequence |-> currSequence[c]]}
       IN  /\ m_TimerQueueMultiMap' = list
           /\ m_HBListEarliestTime' = Earliest(list)
    /\ m_CurrentHeartBeatListSize' = m_CurrentHeartBeatListSize + 1
    /\ pc' = [pc EXCEPT ![Epoll] = "idle"]
    /\ conn' = [conn EXCEPT ![Epoll] = NoConn]
    /\ UNCHANGED <<m_IsTimeOutKick, objects, addTime, scan, now>>

(* An event of a client that hangs up; the client may be closed already.   *)
ReadClose(c) ==
    /\ pc[Epoll] = "idle"
    /\ place[c] \in {"online", "closed"}
    /\ pc' = [pc EXCEPT ![Epoll] = "closing"]
    /\ conn' = [conn EXCEPT ![Epoll] = c]
    /\ UNCHANGED <<timers, m_IsTimeOutKick, objects, addTime, scan, now>>

-----------------------------------------------------------------------------
(* A logic thread handles a message: a heartbeat, anything else, or the    *)
(* reply that cuts a slow client.                                          *)

HandleMessage(t, c) ==
    /\ pc[t] = "idle"
    /\ place[c] = "online"
    /\ \A u \in Threads : pc[u] \in {"opening", "adding"} => conn[u] # c
    /\ pc' = [pc EXCEPT ![t] = "handling"]
    /\ conn' = [conn EXCEPT ![t] = c]
    /\ UNCHANGED <<timers, m_IsTimeOutKick, objects, addTime, scan, now>>

HandlerReturns(t) ==
    /\ pc[t] = "handling"
    /\ pc' = [pc EXCEPT ![t] = "idle"]
    /\ conn' = [conn EXCEPT ![t] = NoConn]

HandleHeartbeat(t) ==
    /\ HandlerReturns(t)
    /\ lastHeartBeatTime' = [lastHeartBeatTime EXCEPT ![conn[t]] = now]
    /\ UNCHANGED <<timers, m_IsTimeOutKick, place, currSequence, accepted, addTime, scan, now>>

HandleOther(t) ==
    /\ HandlerReturns(t)
    /\ UNCHANGED <<timers, m_IsTimeOutKick, objects, addTime, scan, now>>

CutSlowClient(t) ==
    /\ pc[t] = "handling"
    /\ pc' = [pc EXCEPT ![t] = "closing"]
    /\ UNCHANGED <<timers, m_IsTimeOutKick, objects, conn, addTime, scan, now>>

-----------------------------------------------------------------------------
(* CloseConnectionToRecy: DeleteFromTimerQueue, then the connection goes   *)
(* to the recycling queue, once.                                           *)

DeleteTimers(t, list, count) ==
    /\ pc[t] = "closing"
    /\ m_TimerQueueMultiMap' = list
    /\ m_CurrentHeartBeatListSize' = m_CurrentHeartBeatListSize - count
    /\ pc' = [pc EXCEPT ![t] = "deleted"]
    /\ UNCHANGED <<m_IsTimeOutKick, objects, conn, addTime, scan, now>>

Own(c)    == {x \in m_TimerQueueMultiMap : x.pConn = c}
Others(c) == m_TimerQueueMultiMap \ Own(c)

DeleteMiscounted(t) ==      \* faulty: counts a timer that is not there
    /\ MutexFree
    /\ DeleteTimers(t, Others(conn[t]), 1)
    /\ m_HBListEarliestTime' = Refreshed(Others(conn[t]))

DeleteWithoutLock(t) ==     \* faulty: m_TimeQueueMutex is not locked
    /\ DeleteTimers(t, Others(conn[t]), Cardinality(Own(conn[t])))
    /\ m_HBListEarliestTime' = Refreshed(Others(conn[t]))

DeleteUnrefreshed(t) ==     \* faulty: m_HBListEarliestTime stays
    /\ MutexFree
    /\ DeleteTimers(t, Others(conn[t]), Cardinality(Own(conn[t])))
    /\ UNCHANGED m_HBListEarliestTime

DeleteNothing(t) ==         \* faulty: the timers stay
    /\ MutexFree
    /\ DeleteTimers(t, m_TimerQueueMultiMap, 0)
    /\ UNCHANGED m_HBListEarliestTime

DeleteFromTimerQueue(t) ==
    /\ MutexFree
    /\ DeleteTimers(t, Others(conn[t]), Cardinality(Own(conn[t])))
    /\ m_HBListEarliestTime' = Refreshed(Others(conn[t]))

PushConnectToRecyQueue(t) ==
    /\ pc[t] = "deleted"
    /\ LET c == conn[t] IN
         IF place[c] = "closed"
         THEN UNCHANGED <<place, currSequence>>
         ELSE /\ place' = [place EXCEPT ![c] = "closed"]
              /\ currSequence' = [currSequence EXCEPT ![c] = @ + 1]
    /\ pc' = [pc EXCEPT ![t] = "idle"]
    /\ conn' = [conn EXCEPT ![t] = NoConn]
    /\ UNCHANGED <<timers, m_IsTimeOutKick, lastHeartBeatTime, accepted, addTime, scan, now>>

(* The recycler.                                                           *)
FreeConnection(c) ==
    /\ place[c] = "closed"
    /\ \A t \in Threads : conn[t] # c
    /\ place' = [place EXCEPT ![c] = "free"]
    /\ currSequence' = [currSequence EXCEPT ![c] = @ + 1]
    /\ UNCHANGED <<timers, m_IsTimeOutKick, lastHeartBeatTime, accepted, threads, scan, now>>

-----------------------------------------------------------------------------
(* HeartBeatMonitorThread.  It looks at the size, the clock and the        *)
(* earliest time without the mutex.                                        *)

Wake ==
    /\ monitor = "sleeping"
    /\ m_CurrentHeartBeatListSize > 0
    /\ CurrentTime' = now
    /\ monitor' = "looking"
    /\ UNCHANGED <<timers, m_IsTimeOutKick, objects, threads, pOverTimeMsg, now>>

CompareEarliest ==
    /\ monitor = "looking"
    /\ monitor' = IF m_HBListEarliestTime < CurrentTime THEN "locking" ELSE "sleeping"
    /\ UNCHANGED <<timers, m_IsTimeOutKick, objects, threads, CurrentTime, pOverTimeMsg, now>>

LockTimeQueue ==
    /\ monitor = "locking"
    /\ monitor' = "scanning"
    /\ UNCHANGED <<timers, m_IsTimeOutKick, objects, threads, CurrentTime, pOverTimeMsg, now>>

(* GetOverTimeTimer takes the first timer that is over and, unless clients *)
(* are kicked at once, starts it again from the monitor's reading of the   *)
(* clock.                                                                  *)
Restarted(x) == IF m_IsTimeOutKick THEN {} ELSE {[x EXCEPT !.time = CurrentTime + m_WaitTime]}

IsOver(x) ==
    /\ x \in m_TimerQueueMultiMap
    /\ x.time = Earliest(m_TimerQueueMultiMap)
    /\ x.time <= CurrentTime

TakeTimer(x, again) ==
    /\ monitor = "scanning"
    /\ IsOver(x)
    /\ LET list == (m_TimerQueueMultiMap \ {x}) \cup again IN
         /\ m_TimerQueueMultiMap' = list
         /\ m_CurrentHeartBeatListSize' = m_CurrentHeartBeatListSize - 1 + Cardinality(again)
         /\ m_HBListEarliestTime' = Refreshed(list)
    /\ pOverTimeMsg' = x
    /\ monitor' = "checking"
    /\ UNCHANGED <<m_IsTimeOutKick, objects, threads, CurrentTime, now>>

TakeForGood(x) == TakeTimer(x, {})      \* faulty: the timer is not started again

GetOverTimeTimer(x) == TakeTimer(x, Restarted(x))

(* HeartBeatTimeOutCheck.  A client to be kicked is closed, and closing it *)
(* begins with DeleteFromTimerQueue: the monitor, in "kicking", waits for  *)
(* the mutex that it holds itself and has no further step.                 *)
KickTime == m_WaitTime * 3 + GraceTime

ToKick(x) ==
    /\ x.currSequence = currSequence[x.pConn]
    /\ m_IsTimeOutKick \/ CurrentTime - lastHeartBeatTime[x.pConn] > KickTime

HeartBeatTimeOutCheck ==
    /\ monitor = "checking"
    /\ IF ToKick(pOverTimeMsg)
       THEN monitor' = "kicking" /\ UNCHANGED pOverTimeMsg
       ELSE monitor' = "scanning" /\ pOverTimeMsg' = NoTimer
    /\ UNCHANGED <<timers, m_IsTimeOutKick, objects, threads, CurrentTime, now>>

UnlockTimeQueue ==
    /\ monitor = "scanning"
    /\ \A x \in m_TimerQueueMultiMap : ~IsOver(x)
    /\ monitor' = "sleeping"
    /\ UNCHANGED <<timers, m_IsTimeOutKick, objects, threads, CurrentTime, pOverTimeMsg, now>>

Tick ==
    /\ now < MaxTime
    /\ now' = now + 1
    /\ UNCHANGED <<timers, m_IsTimeOutKick, objects, threads, scan>>

EpollStep ==
    \/ \E c \in Conns : AcceptClient(c) \/ ReadClose(c)
    \/ ReadClock
    \/ AddToTimerList

LogicStep(t) ==
    \/ \E c \in Conns : HandleMessage(t, c)
    \/ HandleHeartbeat(t) \/ HandleOther(t) \/ CutSlowClient(t)

CloseStep(t) == DeleteFromTimerQueue(t) \/ PushConnectToRecyQueue(t)

MonitorStep ==
    \/ Wake \/ CompareEarliest \/ LockTimeQueue
    \/ \E x \in m_TimerQueueMultiMap : GetOverTimeTimer(x)
    \/ HeartBeatTimeOutCheck \/ UnlockTimeQueue

Next ==
    \/ EpollStep
    \/ \E t \in LogicThreads : LogicStep(t)
    \/ \E t \in Threads : CloseStep(t)
    \/ \E c \in Conns : FreeConnection(c)
    \/ MonitorStep
    \/ Tick

Spec == Init /\ [][Next]_vars

(* The monitor and a thread that closes a connection are scheduled and time*)
(* passes; clients and handlers need not do anything.                      *)
FairSpec ==
    /\ Spec
    /\ WF_vars(MonitorStep)
    /\ \A t \in Threads : WF_vars(CloseStep(t))
    /\ WF_vars(Tick)

-----------------------------------------------------------------------------
(* Properties.                                                             *)

(* Every variable has the type of the C++ member or local it stands for;   *)
(* the size is a size_t.                                                   *)
TypeOK ==
    /\ m_TimerQueueMultiMap \subseteq Timer
    /\ m_CurrentHeartBeatListSize \in Nat
    /\ m_HBListEarliestTime \in Nat
    /\ m_IsTimeOutKick \in BOOLEAN
    /\ place \in [Conns -> {"free", "online", "closed"}]
    /\ currSequence \in [Conns -> Nat]
    /\ lastHeartBeatTime \in [Conns -> Nat]
    /\ accepted \in Nat
    /\ pc \in [Threads -> {"idle", "opening", "adding", "handling", "closing", "deleted"}]
    /\ conn \in [Threads -> Conns \cup {NoConn}]
    /\ addTime \in Nat
    /\ monitor \in {"sleeping", "looking", "locking", "scanning", "checking", "kicking"}
    /\ CurrentTime \in Nat
    /\ pOverTimeMsg \in Timer \cup {NoTimer}
    /\ now \in Nat

(* The size counts the timers, and the cached earliest time, which alone   *)
(* decides whether the monitor looks into the list, is that of the first   *)
(* timer whenever there is one, although it is not reset for an empty list.*)
CachedFieldsAgree ==
    /\ m_CurrentHeartBeatListSize = Cardinality(m_TimerQueueMultiMap)
    /\ m_TimerQueueMultiMap # {} => m_HBListEarliestTime = Earliest(m_TimerQueueMultiMap)

Handled(c) == \E t \in Threads : conn[t] = c /\ pc[t] \in {"opening", "adding", "deleted"}
TakenAway(c) == m_IsTimeOutKick /\ monitor \in {"checking", "kicking"} /\ pOverTimeMsg.pConn = c

(* Every client online has exactly one timer, its own, whoever closes,     *)
(* checks and recycles meanwhile; an object that serves nobody has none.   *)
OneTimerPerClient ==
    \A c \in Conns :
      /\ place[c] # "online" => Own(c) = {}
      /\ place[c] = "online" /\ ~Handled(c) /\ ~TakenAway(c) =>
           Cardinality(Own(c)) = 1 /\ \A x \in Own(c) : x.currSequence = currSequence[c]

(* The monitor kicks only the client for whom the timer was started, and   *)
(* that client is still online.                                            *)
KickHitsOwner ==
    monitor = "kicking" =>
      /\ place[pOverTimeMsg.pConn] = "online"
      /\ pOverTimeMsg.currSequence = currSequence[pOverTimeMsg.pConn]

Silent(c) == place[c] = "online" /\ now - lastHeartBeatTime[c] > KickTime

(* A client that stays silent is noticed by the monitor, unless it leaves  *)
(* or speaks, within the modelled time.                                    *)
SilentIsNoticed ==
    \A c \in Conns :
      Silent(c) /\ ~Handled(c) /\ now + m_WaitTime < MaxTime ~> monitor = "kicking" \/ ~Silent(c)

(* A client whose time is over can be kicked out: the monitor does not wait*)
(* for the mutex it holds itself.                                          *)
KickedOut == monitor = "kicking" => MutexFree
=============================================================================

------------------------------ MODULE SendQueue ------------------------------
(***************************************************************************)
(* The way of a reply: a thread of the pool links it to m_SendMsgList and  *)
(* posts a semaphore, SendMsgThread takes it from the list and writes it to*)
(* the client's socket, and the epoll thread closes connections meanwhile. *)
(*                                                                         *)
(* When the socket buffer is full the sender keeps the rest of the reply   *)
(* with the connection, counts it in throwSendMsgCount, so that later      *)
(* replies wait, and asks epoll to report the socket writable.  That event *)
(* calls pcbReadHandler; no event calls pcbWriteHandler.  An EPOLLOUT event*)
(* of a client that is still there therefore reads nothing and changes     *)
(* nothing, and is no step here.                                           *)
(*                                                                         *)
(* The kernel's side is which client is behind a descriptor, whether epoll *)
(* reports it writable, and how far a client has hung up: "shut" has sent  *)
(* FIN and may leave bytes to read, "reset" has sent RST, and a send to one*)
(* that is "broken" or "shutBroken" raises SIGPIPE, which nothing handles. *)
(*                                                                         *)
(* CloseConnectionToRecy is two steps: close(), and the rest of it, from   *)
(* sockFd = -1 to ++currSequence.  Two threads that close at once are the  *)
(* subject of ConnectionPool.                                              *)
(***************************************************************************)
EXTENDS Integers, Sequences, FiniteSets

CONSTANTS
    Conns, Fds, LogicThreads,
    MAX_SENDQUEUE_COUNT, MAX_EACHCONN_SENDCOUNT,
    ReplyLength,             \* parts a send can end between
    MaxReplies, MaxClients,  \* bounds: replies pushed, clients accepted
    MaxBelowZero             \* bound: how far throwSendMsgCount is counted below 0

NoFd == 0                    \* sockFd == (uint16_t)-1: no descriptor ever has it
None == 0                    \* no client, no reply

ASSUME SendConstants ==
    /\ Fds \subseteq Nat \ {NoFd}
    /\ {MAX_SENDQUEUE_COUNT, MAX_EACHCONN_SENDCOUNT, MaxReplies, MaxClients,
        MaxBelowZero} \subseteq Nat
    /\ ReplyLength \in Nat \ {0}
    /\ {"free", "sender"} \cap LogicThreads = {}

Clients == 1 .. MaxClients

VARIABLES
    m_SendMsgList,           \* numbers of replies, in the order they were made
    m_SendMsgListSize,
    m_SendMsgListMutex,      \* "free", "sender" or a logic thread
    g_SendMsgPushEventSem,
    reply,                   \* Seq of [pConn, currSequence, client, live]
    connection,              \* per object: the fields of stConnection used here
    socketOf,                \* per descriptor: the client behind it
    writable,                \* per descriptor: EPOLLOUT is asked for
    status,                  \* per client
    received,                \* per client: the reply each part it got is of
    accepted,                \* clients accepted so far
    sender,                  \* [step, pos, reply, fd]: the reply taken, pConn->sockFd
    logic,                   \* per thread: [step, pConn, currSequence, client]
    epoll,                   \* [step, pConn, out]
    worker                   \* "running", "exited", "killed", or "undefined"

list == <<m_SendMsgList, m_SendMsgListSize, m_SendMsgListMutex, g_SendMsgPushEventSem>>
kernel == <<socketOf, writable, status, received, accepted>>
vars == <<list, reply, connection, kernel, sender, logic, epoll, worker>>

Idle == [step |-> "idle", pConn |-> None, currSequence |-> 0, client |-> None]

Init ==
    /\ m_SendMsgList = <<>>
    /\ m_SendMsgListSize = 0
    /\ m_SendMsgListMutex = "free"
    /\ g_SendMsgPushEventSem = 0
    /\ reply = <<>>
    /\ connection = [c \in Conns |->
          [place |-> "free", sockFd |-> NoFd, client |-> None, currSequence |-> 0,
           throwSendMsgCount |-> 0, sendMsgListCount |-> 0,
           pSendMsgMemPointer |-> None, sendMsgLen |-> 0]]
    /\ socketOf = [f \in Fds |-> None]
    /\ writable = [f \in Fds |-> FALSE]
    /\ status = [k \in Clients |-> "here"]
    /\ received = [k \in Clients |-> <<>>]
    /\ accepted = 0
    /\ sender = [step |-> "waiting", pos |-> 1, reply |-> None, fd |-> NoFd]
    /\ logic = [t \in LogicThreads |-> Idle]
    /\ epoll = [step |-> "polling", pConn |-> None, out |-> FALSE]
    /\ worker = "running"

-----------------------------------------------------------------------------
(* A thread of the pool: RecvMsgHandleProc and PushSendMsgToSendListAndSem.*)

Online == {c \in Conns : connection[c].place = "online"}

(* The thread has a message whose sequence number passed the check.        *)
HandleMessage(t) ==
    /\ logic[t].step = "idle"
    /\ Len(reply) < MaxReplies
    /\ \E c \in Online :
         logic' = [logic EXCEPT ![t] =
            [step |-> "replying", pConn |-> c, currSequence |-> connection[c].currSequence,
             client |-> connection[c].client]]
    /\ UNCHANGED <<list, reply, connection, kernel, sender, epoll, worker>>

ReplyOf(t, live) ==
    [pConn |-> logic[t].pConn, currSequence |-> logic[t].currSequence,
     client |-> logic[t].client, live |-> live]

Overloaded == m_SendMsgListSize > MAX_SENDQUEUE_COUNT
SlowClient(t) == connection[logic[t].pConn].sendMsgListCount > MAX_EACHCONN_SENDCOUNT

QueueReply(c, live) ==
    /\ m_SendMsgList' = Append(m_SendMsgList, Len(reply) + 1)
    /\ m_SendMsgListSize' = m_SendMsgListSize + 1
    /\ connection' = [connection EXCEPT ![c].sendMsgListCount = @ + 1]

PostOncePerBurst(t) ==      \* faulty: posted only when the list was empty
    /\ logic[t].step = "replying"
    /\ m_SendMsgListMutex = "free"
    /\ ~Overloaded /\ ~SlowClient(t)
    /\ QueueReply(logic[t].pConn, TRUE)
    /\ reply' = Append(reply, ReplyOf(t, TRUE))
    /\ g_SendMsgPushEventSem' = IF m_SendMsgList = <<>> THEN g_SendMsgPushEventSem + 1
                                                        ELSE g_SendMsgPushEventSem
    /\ logic' = [logic EXCEPT ![t] = Idle]
    /\ UNCHANGED <<m_SendMsgListMutex, kernel, sender, epoll, worker>>

PushReply(t) ==
    /\ logic[t].step = "replying"
    /\ m_SendMsgListMutex = "free"
    /\ ~Overloaded /\ ~SlowClient(t)
    /\ QueueReply(logic[t].pConn, TRUE)
    /\ reply' = Append(reply, ReplyOf(t, TRUE))
    /\ g_SendMsgPushEventSem' = g_SendMsgPushEventSem + 1
    /\ logic' = [logic EXCEPT ![t] = Idle]
    /\ UNCHANGED <<m_SendMsgListMutex, kernel, sender, epoll, worker>>

(* The reply is freed and its header read all the same: the allocator has  *)
(* overwritten pConn.                                                      *)
PushOverloaded(t) ==
    /\ logic[t].step = "replying"
    /\ m_SendMsgListMutex = "free"
    /\ Overloaded
    /\ worker' = "undefined"
    /\ UNCHANGED <<list, reply, connection, kernel, sender, logic, epoll>>

(* The reply is freed and its client closed, and then it is queued all the *)
(* same.  The mutex is held throughout.                                    *)
CutSlowClient(t) ==
    /\ logic[t].step = "replying"
    /\ m_SendMsgListMutex = "free"
    /\ ~Overloaded /\ SlowClient(t)
    /\ m_SendMsgListMutex' = t
    /\ reply' = Append(reply, ReplyOf(t, FALSE))
    /\ LET fd == connection[logic[t].pConn].sockFd IN
         /\ socketOf' = [f \in Fds |-> IF f = fd THEN None ELSE socketOf[f]]
         /\ writable' = [f \in Fds |-> f # fd /\ writable[f]]
    /\ logic' = [logic EXCEPT ![t].step = "cutting"]
    /\ UNCHANGED <<m_SendMsgList, m_SendMsgListSize, g_SendMsgPushEventSem, connection, status,
                   received, accepted, sender, epoll, worker>>

CloseHolding(fields) ==     \* faulty: a reply that is held stays counted
    IF fields.place = "closed" THEN [fields EXCEPT !.sockFd = NoFd]
    ELSE [fields EXCEPT !.sockFd = NoFd, !.place = "closed", !.currSequence = @ + 1]

Closed(fields) ==
    LET released == [fields EXCEPT !.sockFd = NoFd,
                       !.throwSendMsgCount = IF @ > 0 THEN 0 ELSE @] IN
    IF fields.place = "closed" THEN released
    ELSE [released EXCEPT !.place = "closed", !.currSequence = @ + 1]

QueueFreedReply(t) ==
    /\ logic[t].step = "cutting"
    /\ m_SendMsgList' = Append(m_SendMsgList, Len(reply))
    /\ m_SendMsgListSize' = m_SendMsgListSize + 1
    /\ LET closed == Closed(connection[logic[t].pConn]) IN
         connection' = [connection EXCEPT ![logic[t].pConn] =
                          [closed EXCEPT !.sendMsgListCount = @ + 1]]
    /\ g_SendMsgPushEventSem' = g_SendMsgPushEventSem + 1
    /\ m_SendMsgListMutex' = "free"
    /\ logic' = [logic EXCEPT ![t] = Idle]
    /\ UNCHANGED <<reply, kernel, sender, epoll, worker>>

-----------------------------------------------------------------------------
(* SendMsgThread.                                                          *)

WakeUp ==                   \* sem_wait() returns 0
    /\ sender.step = "waiting"
    /\ g_SendMsgPushEventSem > 0
    /\ g_SendMsgPushEventSem' = g_SendMsgPushEventSem - 1
    /\ sender' = [sender EXCEPT !.step = "testing"]
    /\ UNCHANGED <<m_SendMsgList, m_SendMsgListSize, m_SendMsgListMutex, reply, connection,
                   kernel, logic, epoll, worker>>

WakeBySignal ==             \* sem_wait() blocks and fails with EINTR
    /\ sender.step = "waiting"
    /\ g_SendMsgPushEventSem = 0
    /\ sender' = [sender EXCEPT !.step = "testing"]
    /\ UNCHANGED <<list, reply, connection, kernel, logic, epoll, worker>>

TestListSize ==             \* without the mutex
    /\ sender.step = "testing"
    /\ sender' = [sender EXCEPT !.step = IF m_SendMsgListSize > 0 THEN "locking" ELSE "waiting"]
    /\ UNCHANGED <<list, reply, connection, kernel, logic, epoll, worker>>

LockSendList ==
    /\ sender.step = "locking"
    /\ m_SendMsgListMutex = "free"
    /\ m_SendMsgListMutex' = "sender"
    /\ sender' = [sender EXCEPT !.step = "scanning", !.pos = 1]
    /\ UNCHANGED <<m_SendMsgList, m_SendMsgListSize, g_SendMsgPushEventSem, reply, connection,
                   kernel, logic, epoll, worker>>

UnlockSendList ==
    /\ sender.step = "scanning"
    /\ sender.pos > Len(m_SendMsgList)
    /\ m_SendMsgListMutex' = "free"
    /\ sender' = [sender EXCEPT !.step = "waiting", !.pos = 1]
    /\ UNCHANGED <<m_SendMsgList, m_SendMsgListSize, g_SendMsgPushEventSem, reply, connection,
                   kernel, logic, epoll, worker>>

(* The sender looks at a reply; Header is its header.                   *)
Scans == sender.step = "scanning" /\ sender.pos \in 1 .. Len(m_SendMsgList)
Scanned == m_SendMsgList[sender.pos]
Header == reply[Scanned]
Stale == connection[Header.pConn].currSequence # Header.currSequence
NeverBlocked == FALSE       \* faulty: a held reply does not make later ones wait
Blocked == connection[Header.pConn].throwSendMsgCount > 0

EraseScanned ==
    /\ m_SendMsgList' = SubSeq(m_SendMsgList, 1, sender.pos - 1)
                          \o SubSeq(m_SendMsgList, sender.pos + 1, Len(m_SendMsgList))
    /\ m_SendMsgListSize' = m_SendMsgListSize - 1

ReadFreedReply ==           \* what the header names is no connection
    /\ Scans
    /\ ~Header.live
    /\ worker' = "undefined"
    /\ UNCHANGED <<list, reply, connection, kernel, sender, logic, epoll>>

UncountStale ==             \* faulty: the new client's count is decremented
    /\ Scans
    /\ Header.live /\ Stale
    /\ EraseScanned
    /\ reply' = [reply EXCEPT ![Scanned].live = FALSE]
    /\ connection' = [connection EXCEPT ![Header.pConn].sendMsgListCount = @ - 1]
    /\ UNCHANGED <<m_SendMsgListMutex, g_SendMsgPushEventSem, kernel, sender,
                   logic, epoll, worker>>

ForgetStale ==              \* faulty: the memory is not freed
    /\ Scans
    /\ Header.live /\ Stale
    /\ EraseScanned
    /\ UNCHANGED <<m_SendMsgListMutex, g_SendMsgPushEventSem, reply, connection, kernel, sender,
                   logic, epoll, worker>>

DiscardStale ==
    /\ Scans
    /\ Header.live /\ Stale
    /\ EraseScanned
    /\ reply' = [reply EXCEPT ![Scanned].live = FALSE]
    /\ UNCHANGED <<m_SendMsgListMutex, g_SendMsgPushEventSem, connection, kernel, sender,
                   logic, epoll, worker>>

SkipBlocked ==
    /\ Scans
    /\ Header.live /\ ~Stale /\ Blocked
    /\ sender' = [sender EXCEPT !.pos = @ + 1]
    /\ UNCHANGED <<list, reply, connection, kernel, logic, epoll, worker>>

TakeWholeBuffer ==          \* faulty: the message header is sent as well
    /\ Scans
    /\ Header.live /\ ~Stale /\ ~Blocked
    /\ EraseScanned
    /\ connection' = [connection EXCEPT ![Header.pConn].sendMsgListCount = @ - 1,
                                        ![Header.pConn].pSendMsgMemPointer = Scanned,
                                        ![Header.pConn].sendMsgLen = ReplyLength + 1]
    /\ sender' = [sender EXCEPT !.step = "sending", !.fd = connection[Header.pConn].sockFd,
                                !.reply = Scanned]
    /\ UNCHANGED <<m_SendMsgListMutex, g_SendMsgPushEventSem, reply, kernel, logic, epoll, worker>>

(* The tests, the taking and the loading of pConn->sockFd for send() are   *)
(* one step: a close in between has the outcomes of one right after.       *)
TakeReply ==
    /\ Scans
    /\ Header.live /\ ~Stale /\ ~Blocked
    /\ EraseScanned
    /\ connection' = [connection EXCEPT ![Header.pConn].sendMsgListCount = @ - 1,
                                        ![Header.pConn].pSendMsgMemPointer = Scanned,
                                        ![Header.pConn].sendMsgLen = ReplyLength]
    /\ sender' = [sender EXCEPT !.step = "sending", !.fd = connection[Header.pConn].sockFd,
                                !.reply = Scanned]
    /\ UNCHANGED <<m_SendMsgListMutex, g_SendMsgPushEventSem, reply, kernel, logic, epoll, worker>>

pConn == reply[sender.reply].pConn
BackToScan == [sender EXCEPT !.step = "scanning", !.reply = None, !.fd = NoFd]
FreeSent ==                 \* FreeMemory(pConn->pSendMsgMemPointer)
    reply' = [reply EXCEPT ![connection[pConn].pSendMsgMemPointer].live = FALSE]

(* Whom send() reaches: nobody if the descriptor has been closed meanwhile,*)
(* another client if it has been opened again.                             *)
Peer == IF sender.fd = NoFd THEN None ELSE socketOf[sender.fd]

SendParts(n) ==             \* SendMsgProc returns n > 0
    /\ sender.step = "sending"
    /\ Peer # None
    /\ status[Peer] \in {"here", "shut"}
    /\ received' = [received EXCEPT ![Peer] = @ \o [i \in 1 .. n |-> sender.reply]]
    /\ status' \in {status, [status EXCEPT ![Peer] =
                               IF @ = "shut" THEN "shutBroken" ELSE @]}
    /\ UNCHANGED <<socketOf, writable, accepted>>

SendWhole ==
    /\ SendParts(ReplyLength)
    /\ FreeSent
    /\ sender' = BackToScan
    /\ UNCHANGED <<list, connection, logic, epoll, worker>>

SendSome ==
    /\ \E n \in 1 .. ReplyLength - 1 :
         /\ SendParts(n)
         /\ connection' = [connection EXCEPT ![pConn].sendMsgLen = @ - n]
    /\ sender' = [sender EXCEPT !.step = "holding"]
    /\ UNCHANGED <<list, reply, logic, epoll, worker>>

SendWouldBlock ==           \* EAGAIN: SendMsgProc returns -1
    /\ sender.step = "sending"
    /\ Peer # None
    /\ status[Peer] \in {"here", "shut"}
    /\ sender' = [sender EXCEPT !.step = "holding"]
    /\ UNCHANGED <<list, reply, connection, kernel, logic, epoll, worker>>

SendFails ==                \* EBADF or ECONNRESET: SendMsgProc returns -2
    /\ sender.step = "sending"
    /\ Peer # None => status[Peer] = "reset"
    /\ status' = IF Peer = None THEN status ELSE [status EXCEPT ![Peer] = "broken"]
    /\ FreeSent
    /\ sender' = BackToScan
    /\ UNCHANGED <<list, connection, socketOf, writable, received, accepted, logic, epoll, worker>>

SendRaisesSigpipe ==        \* no MSG_NOSIGNAL, and SIGPIPE has its default action
    /\ sender.step = "sending"
    /\ Peer # None
    /\ status[Peer] \in {"broken", "shutBroken"}
    /\ worker' = "killed"
    /\ UNCHANGED <<list, reply, connection, kernel, sender, logic, epoll>>

HoldReply ==                \* ++pConn->throwSendMsgCount
    /\ sender.step = "holding"
    /\ connection' = [connection EXCEPT ![pConn].throwSendMsgCount = @ + 1]
    /\ sender' = [sender EXCEPT !.step = "registering"]
    /\ UNCHANGED <<list, reply, kernel, logic, epoll, worker>>

NotRegistered ==            \* faulty: EPOLLOUT is not asked for
    /\ sender.step = "registering"
    /\ sender' = BackToScan
    /\ UNCHANGED <<list, reply, connection, kernel, logic, epoll, worker>>

(* EpollRegisterEvent(pConn->sockFd, EPOLL_CTL_MOD, EPOLLOUT, EPOLL_ADD):  *)
(* on a descriptor that is closed the worker exits.                        *)
RegisterWritable ==
    /\ sender.step = "registering"
    /\ LET fd == connection[pConn].sockFd IN
         IF fd # NoFd /\ socketOf[fd] # None
           THEN writable' = [writable EXCEPT ![fd] = TRUE] /\ UNCHANGED worker
           ELSE worker' = "exited" /\ UNCHANGED writable
    /\ sender' = BackToScan
    /\ UNCHANGED <<list, reply, connection, socketOf, status, received, accepted, logic, epoll>>

-----------------------------------------------------------------------------
(* The clients, the epoll thread and the recycling thread.                 *)

Connected(k) == \E f \in Fds : socketOf[f] = k

HangUp(k) ==                \* close() with or without bytes to read, or shutdown()
    /\ Connected(k)
    /\ status[k] = "here"
    /\ \E s \in {"shut", "reset"} : status' = [status EXCEPT ![k] = s]
    /\ UNCHANGED <<list, reply, connection, socketOf, writable, received, accepted, sender,
                   logic, epoll, worker>>

(* EpollEventAcceptHandler and GetOneToUse; the kernel gives the lowest    *)
(* descriptor that is free.                                                *)
AcceptClient ==
    /\ epoll.step = "polling"
    /\ accepted < MaxClients
    /\ accepted' = accepted + 1
    /\ \E c \in Conns, f \in Fds :
         /\ connection[c].place = "free"
         /\ socketOf[f] = None
         /\ \A g \in Fds : socketOf[g] = None => f <= g
         /\ socketOf' = [socketOf EXCEPT ![f] = accepted + 1]
         /\ connection' = [connection EXCEPT ![c] =
               [place |-> "online", sockFd |-> f, client |-> accepted + 1,
                currSequence |-> @.currSequence + 1, throwSendMsgCount |-> 0,
                sendMsgListCount |-> 0, pSendMsgMemPointer |-> None, sendMsgLen |-> 0]]
    /\ UNCHANGED <<list, reply, writable, status, received, sender, logic, epoll, worker>>

(* The object is the one EpollRegisterEvent put into ev.data.ptr for the   *)
(* socket that is behind its descriptor.                                   *)
Attached(c) ==
    /\ connection[c].sockFd # NoFd
    /\ socketOf[connection[c].sockFd] = connection[c].client

(* epoll_wait reports a client that has hung up: EPOLLIN with EPOLLRDHUP,  *)
(* EPOLLHUP or EPOLLERR, and EPOLLOUT if it was asked for and the socket is*)
(* writable.                                                               *)
FetchHangUp ==
    /\ epoll.step = "polling"
    /\ \E c \in Online :
         /\ Attached(c)
         /\ status[connection[c].client] # "here"
         /\ \E out \in {FALSE, writable[connection[c].sockFd]} :
              epoll' = [step |-> "reading", pConn |-> c, out |-> out]
    /\ UNCHANGED <<list, reply, connection, kernel, sender, logic, worker>>

(* pcbReadHandler finds bytes sent before the FIN, and closes nothing.     *)
ReadRest ==
    /\ epoll.step = "reading"
    /\ connection[epoll.pConn].throwSendMsgCount > -MaxBelowZero
    /\ LET fd == connection[epoll.pConn].sockFd IN
         fd # NoFd /\ socketOf[fd] # None /\ status[socketOf[fd]] = "shut"
    /\ epoll' = [epoll EXCEPT !.step = "read"]
    /\ UNCHANGED <<list, reply, connection, kernel, sender, logic, worker>>

(* pcbReadHandler gets 0 or an error from recv(): CloseConnectionToRecy.   *)
CloseSocket ==
    /\ epoll.step = "reading"
    /\ LET fd == connection[epoll.pConn].sockFd IN
         /\ socketOf' = [f \in Fds |-> IF f = fd THEN None ELSE socketOf[f]]
         /\ writable' = [f \in Fds |-> f # fd /\ writable[f]]
    /\ epoll' = [epoll EXCEPT !.step = "closing"]
    /\ UNCHANGED <<list, reply, connection, status, received, accepted, sender, logic, worker>>

FinishClose ==
    /\ epoll.step = "closing"
    /\ connection' = [connection EXCEPT ![epoll.pConn] = Closed(@)]
    /\ epoll' = [epoll EXCEPT !.step = "read"]
    /\ UNCHANGED <<list, reply, kernel, sender, logic, worker>>

(* EPOLLOUT with a hang-up: --pConn->throwSendMsgCount, whatever it is and *)
(* whatever pcbReadHandler has done.                                       *)
ReleaseHold ==
    /\ epoll.step = "read"
    /\ connection' = [connection EXCEPT ![epoll.pConn].throwSendMsgCount =
                        IF epoll.out THEN @ - 1 ELSE @]
    /\ epoll' = [step |-> "polling", pConn |-> None, out |-> FALSE]
    /\ UNCHANGED <<list, reply, kernel, sender, logic, worker>>

(* TestFlood finds the client a flood attacker: it is closed while it is   *)
(* still there.                                                            *)
KickFlood ==
    /\ epoll.step = "polling"
    /\ \E c \in Online :
         /\ Attached(c)
         /\ epoll' = [step |-> "reading", pConn |-> c, out |-> FALSE]
    /\ UNCHANGED <<list, reply, connection, kernel, sender, logic, worker>>

(* The delay is longer than a thread works with an object.  PutOneToFree   *)
(* frees what pSendMsgMemPointer points to: a reply that was held, or one  *)
(* the sender has freed already, which is undefined.                       *)
Recycle ==
    /\ \E c \in Conns :
         /\ connection[c].place = "closed"
         /\ \A t \in LogicThreads : logic[t].step # "idle" => logic[t].pConn # c
         /\ sender.step \in {"sending", "holding", "registering"} => pConn # c
         /\ epoll.pConn # c
         /\ LET r == connection[c].pSendMsgMemPointer IN
              /\ reply' = IF r = None THEN reply ELSE [reply EXCEPT ![r].live = FALSE]
              /\ worker' \in IF r # None /\ ~reply[r].live THEN {"running", "undefined"}
                                                          ELSE {"running"}
         /\ connection' = [connection EXCEPT ![c].place = "free", ![c].currSequence = @ + 1,
                             ![c].throwSendMsgCount = IF @ > 0 THEN 0 ELSE @]
    /\ UNCHANGED <<list, kernel, sender, logic, epoll>>

SenderStep ==
    \/ WakeUp \/ TestListSize \/ LockSendList \/ UnlockSendList
    \/ ReadFreedReply \/ DiscardStale \/ SkipBlocked \/ TakeReply
    \/ SendWhole \/ SendSome \/ SendWouldBlock \/ SendFails \/ SendRaisesSigpipe
    \/ HoldReply \/ RegisterWritable

PushStep(t) == PushReply(t) \/ PushOverloaded(t) \/ CutSlowClient(t) \/ QueueFreedReply(t)

EpollStep == ReadRest \/ CloseSocket \/ FinishClose \/ ReleaseHold

Next ==
    /\ worker = "running"
    /\ \/ SenderStep \/ WakeBySignal \/ EpollStep \/ AcceptClient \/ FetchHangUp \/ KickFlood \/ Recycle
       \/ \E t \in LogicThreads : HandleMessage(t) \/ PushStep(t)
       \/ \E k \in Clients : HangUp(k)

Spec == Init /\ [][Next]_vars

(* Every thread that can go on does so in the end, and epoll reports what  *)
(* it is asked to report; that clients talk or hang up is not assumed.     *)
FairSpec ==
    /\ Spec
    /\ WF_vars(worker = "running" /\ SenderStep)
    /\ WF_vars(worker = "running" /\ EpollStep)
    /\ WF_vars(worker = "running" /\ FetchHangUp)
    /\ \A t \in LogicThreads : WF_vars(worker = "running" /\ PushStep(t))

-----------------------------------------------------------------------------
(* Properties.                                                             *)

Listed(r) == \E i \in 1 .. Len(m_SendMsgList) : m_SendMsgList[i] = r
SenderHas(c) == sender.reply # None /\ reply[sender.reply].pConn = c

(* Every variable has the type of the C++ member or local it stands for.   *)
TypeOK ==
    /\ m_SendMsgList \in Seq(1 .. Len(reply))
    /\ m_SendMsgListSize \in Nat
    /\ m_SendMsgListMutex \in {"free", "sender"} \cup LogicThreads
    /\ g_SendMsgPushEventSem \in Nat
    /\ reply \in Seq([pConn : Conns, currSequence : Nat, client : Clients, live : BOOLEAN])
    /\ connection \in [Conns ->
          [place : {"free", "online", "closed"}, sockFd : Fds \cup {NoFd},
           client : Clients \cup {None}, currSequence : Nat, throwSendMsgCount : Int,
           sendMsgListCount : Int, pSendMsgMemPointer : 0 .. Len(reply),
           sendMsgLen : 0 .. ReplyLength]]
    /\ socketOf \in [Fds -> Clients \cup {None}]
    /\ writable \in [Fds -> BOOLEAN]
    /\ status \in [Clients -> {"here", "shut", "shutBroken", "reset", "broken"}]
    /\ received \in [Clients -> Seq(1 .. Len(reply))]
    /\ accepted \in 0 .. MaxClients
    /\ sender \in [step : {"waiting", "testing", "locking", "scanning", "sending", "holding",
                           "registering"},
                   pos : Nat, reply : 0 .. Len(reply), fd : Fds \cup {NoFd}]
    /\ logic \in [LogicThreads ->
          [step : {"idle", "replying", "cutting"}, pConn : Conns \cup {None},
           currSequence : Nat, client : Clients \cup {None}]]
    /\ epoll \in [step : {"polling", "reading", "closing", "read"},
                  pConn : Conns \cup {None}, out : BOOLEAN]
    /\ worker \in {"running", "exited", "killed", "undefined"}

(* The size that the sender tests without the mutex is the length of the   *)
(* list, and what MAX_EACHCONN_SENDCOUNT is compared with is the number of *)
(* replies that wait for the object's present client, although replies to  *)
(* its former clients are still in the list.                               *)
QueueCounted ==
    /\ m_SendMsgListSize = Len(m_SendMsgList)
    /\ \A c \in Online : connection[c].sendMsgListCount =
          Cardinality({i \in 1 .. Len(m_SendMsgList) :
            LET r == reply[m_SendMsgList[i]] IN
            r.pConn = c /\ r.currSequence = connection[c].currSequence})

(* When the sender waits and nothing is posted, no reply in the list could *)
(* be sent: it is expired, or it waits for one that is held, or its client *)
(* has hung up.  Posts and wake-ups are not paired with replies one by one,*)
(* and the size is tested without the mutex.                               *)
NoReplyForgotten ==
    sender.step = "waiting" /\ g_SendMsgPushEventSem = 0 =>
      \A i \in 1 .. Len(m_SendMsgList) :
        LET r == reply[m_SendMsgList[i]] IN
        \/ ~r.live
        \/ connection[r.pConn].currSequence # r.currSequence
        \/ connection[r.pConn].throwSendMsgCount > 0
        \/ status[r.client] # "here"

(* The client of the object is connected and has not hung up.              *)
Served(c) ==
    /\ c \in Online
    /\ Attached(c)
    /\ status[connection[c].client] = "here"

(* The replies to client k, in the order they were queued, and how many    *)
(* parts of reply r it has got.                                            *)
RepliesTo(k) == {r \in 1 .. Len(reply) : reply[r].client = k}
PartsOf(r, k) == Cardinality({i \in 1 .. Len(received[k]) : received[k][i] = r})

(* A client that is connected gets its replies whole and in the order they *)
(* were queued: no part of a reply comes before the end of an earlier one. *)
WholeInOrder ==
    \A c \in Conns : Served(c) =>
      LET k == connection[c].client
          got == received[k] IN
      /\ \A i, j \in 1 .. Len(got) :
           i < j /\ {got[i], got[j]} \subseteq RepliesTo(k) => got[i] <= got[j]
      /\ \A r \in RepliesTo(k) : PartsOf(r, k) <= ReplyLength
      /\ \A r, s \in RepliesTo(k) :
           r < s /\ PartsOf(s, k) > 0 => PartsOf(r, k) = ReplyLength

(* Of a connected client at most one reply is held.  Its memory is alive   *)
(* and no longer in the list, what is left of it is what the client lacks, *)
(* and epoll is asked to report that the client's socket is writable; of   *)
(* every other reply the client has got all or nothing.                    *)
HeldReplyIntact ==
    \A c \in Conns : Served(c) /\ ~SenderHas(c) =>
      LET k == connection[c].client
          held == connection[c].pSendMsgMemPointer IN
      \/ /\ connection[c].throwSendMsgCount = 0
         /\ \A r \in RepliesTo(k) : PartsOf(r, k) \in {0, ReplyLength}
      \/ /\ connection[c].throwSendMsgCount = 1
         /\ held \in RepliesTo(k) /\ reply[held].live /\ ~Listed(held)
         /\ connection[c].sendMsgLen > 0
         /\ PartsOf(held, k) + connection[c].sendMsgLen = ReplyLength
         /\ \A r \in RepliesTo(k) \ {held} : PartsOf(r, k) \in {0, ReplyLength}
         /\ writable[connection[c].sockFd]

(* The memory of a reply is freed, or a list or pointer still leads to it. *)
(* It is lost only to a client that ended its side of the connection early:*)
(* --throwSendMsgCount then lets the next reply overwrite the pointer.     *)
NoReplyLeaked ==
    \A r \in 1 .. Len(reply) : reply[r].live =>
      \/ Listed(r)
      \/ \E c \in Conns : connection[c].pSendMsgMemPointer = r
      \/ status[reply[r].client] \in {"shut", "shutBroken"}

(* DelayRecoveryConnectionThread finds no object that still counts a held  *)
(* reply, as its log line says ("Should not enter this branch"), whatever  *)
(* the sender was doing while the connection was closed.                   *)
NotHeldWhenRecycled ==
    worker = "running" =>
      \A c \in Conns : connection[c].place = "closed" /\ ~SenderHas(c) =>
        connection[c].throwSendMsgCount <= 0

(* A reply that is held is sent in the end, while its client stays and the *)
(* worker runs: "we will rely on the epoll driver to call the              *)
(* EpollEventWriteRequestHandler() function to send data".                 *)
HeldReplyCompleted ==
    \A c \in Conns :
      (Served(c) /\ connection[c].throwSendMsgCount > 0)
        ~> (~Served(c) \/ connection[c].throwSendMsgCount <= 0 \/ worker # "running")
=============================================================================

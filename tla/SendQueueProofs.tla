-------------------------- MODULE SendQueueProofs --------------------------
(***************************************************************************)
(* The send list and its sender, for any number of objects, descriptors,   *)
(* threads, replies and clients, and any limits.                           *)
(***************************************************************************)
EXTENDS SendQueue, FunctionTheorems, FiniteSetTheorems, SequenceTheorems, TLAPS

-----------------------------------------------------------------------------
(* The inductive invariant.                                                *)

Holding == {"sending", "holding", "registering"}    \* steps with a reply in hand
HungUp(k) == status[k] # "here"
ShutDown(k) == status[k] \in {"shut", "shutBroken"}

(* The sender has the mutex as long as it goes through the list.  What it  *)
(* has in hand is what the connection's pointer leads to, and no reply of  *)
(* that connection is held yet.                                            *)
SenderInv ==
    /\ sender.step \in Holding <=> sender.reply # None
    /\ sender.reply # None => connection[pConn].place # "free"
    /\ sender.step \in {"sending", "holding"} =>
          /\ connection[pConn].pSendMsgMemPointer = sender.reply
          /\ connection[pConn].throwSendMsgCount <= 0
    /\ sender.step = "sending" => connection[pConn].sendMsgLen = ReplyLength
    /\ sender.step \in {"scanning"} \cup Holding => m_SendMsgListMutex = "sender"

(* A thread that cuts a slow client has the mutex, and the reply it made is*)
(* the last one.                                                           *)
CutInv ==
    \A t \in LogicThreads : logic[t].step = "cutting" =>
      /\ m_SendMsgListMutex = t
      /\ Len(reply) > 0 /\ reply[Len(reply)].pConn = logic[t].pConn

(* A header carries the sequence number of the object's present client or  *)
(* an earlier one, an earlier one once the connection is closed.           *)
KnownAs(c, sequence, client) ==
    /\ sequence <= connection[c].currSequence
    /\ sequence = connection[c].currSequence =>
          connection[c].place = "online" /\ client = connection[c].client

Known(header) == KnownAs(header.pConn, header.currSequence, header.client)

RepliesInv == \A r \in 1 .. Len(reply) : Known(reply[r])

HandlerInv ==
    \A t \in LogicThreads : logic[t].step # "idle" =>
      /\ logic[t].pConn \in Conns /\ logic[t].client \in Clients
      /\ connection[logic[t].pConn].place # "free"
      /\ Known(logic[t])
      /\ connection[logic[t].pConn].place = "online" =>
            logic[t].currSequence = connection[logic[t].pConn].currSequence

(* The pointer of an object leads to a reply to its present client, which  *)
(* is freed already unless it is held, or in the sender's hand, or its     *)
(* client has shut down its side; only such a client's count is negative.  *)
PointerInv ==
    \A c \in Conns :
      LET object == connection[c]
          r == object.pSendMsgMemPointer
      IN
      /\ object.place = "online" => object.client \in Clients
      /\ object.place # "online" => object.sockFd = NoFd
      /\ object.place = "free" => r = None \/ ~reply[r].live
      /\ object.place = "online" /\ object.throwSendMsgCount < 0 => ShutDown(object.client)
      /\ object.place = "online" /\ r # None =>
            /\ reply[r].pConn = c /\ reply[r].client = object.client
            /\ reply[r].live =>
                 \/ object.throwSendMsgCount > 0
                 \/ sender.step \in {"sending", "holding"} /\ sender.reply = r
                 \/ ShutDown(object.client)

(* EPOLLOUT with a hang-up: the object's client has hung up, and has only  *)
(* shut down its side if the connection is still open after the read.      *)
EpollInv ==
    epoll.step # "polling" =>
      LET object == connection[epoll.pConn] IN
      /\ epoll.pConn \in Conns /\ object.place # "free"
      /\ epoll.step = "reading" /\ object.sockFd # NoFd =>
            socketOf[object.sockFd] \in {None, object.client}
      /\ epoll.out /\ object.place = "online" => HungUp(object.client)
      /\ epoll.out /\ epoll.step = "read" /\ object.place = "online" => ShutDown(object.client)

Ready(r) ==
    /\ reply[r].live
    /\ connection[reply[r].pConn].currSequence = reply[r].currSequence
    /\ connection[reply[r].pConn].throwSendMsgCount <= 0
    /\ status[reply[r].client] = "here"

(* A reply that can be sent is still ahead of the sender.                  *)
WakeInv ==
    \A i \in 1 .. Len(m_SendMsgList) : Ready(m_SendMsgList[i]) =>
      \/ g_SendMsgPushEventSem > 0
      \/ sender.step \in {"testing", "locking"}
      \/ sender.step \in {"scanning"} \cup Holding /\ sender.pos <= i

HeaderInv == CutInv /\ RepliesInv /\ HandlerInv

SendInv ==
    /\ TypeOK
    /\ SenderInv /\ HeaderInv /\ PointerInv /\ EpollInv /\ WakeInv
    /\ QueueCounted /\ NoReplyLeaked /\ NotHeldWhenRecycled

-----------------------------------------------------------------------------
(* Replies and the list of their numbers.                                  *)

Reply == [pConn : Conns, currSequence : Nat, client : Clients, live : BOOLEAN]

Object ==
    [place : {"free", "online", "closed"}, sockFd : Fds \cup {NoFd},
     client : Clients \cup {None}, currSequence : Nat, throwSendMsgCount : Int,
     sendMsgListCount : Int, pSendMsgMemPointer : 0 .. Len(reply), sendMsgLen : 0 .. ReplyLength]

(* A new reply gets the next number; whatever leads to a reply still does. *)
LEMMA MoreReplies ==
    ASSUME TypeOK, NEW header \in Reply, reply' = Append(reply, header)
    PROVE  /\ reply' \in Seq(Reply) /\ Len(reply) \in Nat /\ Len(reply') = Len(reply) + 1
           /\ \A r \in 1 .. Len(reply) : reply'[r] = reply[r]
           /\ reply'[Len(reply')] = header
           /\ m_SendMsgList \in Seq(1 .. Len(reply'))
           /\ connection \in [Conns -> Object']
           /\ received \in [Clients -> Seq(1 .. Len(reply'))]
           /\ sender.reply \in 0 .. Len(reply')
<1>1. reply \in Seq(Reply)
  BY DEF TypeOK, Reply
<1>2. /\ reply' \in Seq(Reply) /\ Len(reply) \in Nat /\ Len(reply') = Len(reply) + 1
      /\ \A r \in 1 .. Len(reply) : reply'[r] = reply[r]
      /\ reply'[Len(reply')] = header
  BY <1>1, AppendProperties, LenProperties
<1>3. 1 .. Len(reply) \subseteq 1 .. Len(reply') /\ 0 .. Len(reply) \subseteq 0 .. Len(reply')
  BY <1>2
<1>4. \A q \in Seq(1 .. Len(reply)) : q \in Seq(1 .. Len(reply'))
  BY <1>3, SeqMonotonic
<1>5. Object \subseteq Object'
  BY <1>3 DEF Object
<1>6. /\ connection \in [Conns -> Object] /\ sender.reply \in 0 .. Len(reply)
      /\ m_SendMsgList \in Seq(1 .. Len(reply)) /\ received \in [Clients -> Seq(1 .. Len(reply))]
  BY DEF TypeOK, Object
<1>7. connection \in [Conns -> Object']
  BY <1>5, <1>6
<1>8. received \in [Clients -> Seq(1 .. Len(reply'))]
  BY <1>4, <1>6
<1>9. QED
  BY <1>2, <1>3, <1>4, <1>6, <1>7, <1>8

(* FreeMemory of a reply, or of nothing.                                   *)
LEMMA FreeReply ==
    ASSUME TypeOK, NEW r \in 0 .. Len(reply), reply' = [reply EXCEPT ![r].live = FALSE]
    PROVE  /\ reply' \in Seq(Reply) /\ Len(reply') = Len(reply)
           /\ \A i \in 1 .. Len(reply) :
                /\ reply'[i].pConn = reply[i].pConn
                /\ reply'[i].currSequence = reply[i].currSequence
                /\ reply'[i].client = reply[i].client
                /\ i # r => reply'[i].live = reply[i].live
           /\ r # None => reply'[r].live = FALSE
<1>1. reply \in Seq(Reply) /\ Len(reply) \in Nat
  BY LenProperties DEF TypeOK, Reply
<1>2. reply \in [1 .. Len(reply) -> Reply]
  BY <1>1, LenProperties
<1>3. reply' \in [1 .. Len(reply) -> Reply]
  BY <1>2 DEF Reply
<1>4. \A i \in 1 .. Len(reply) :
        /\ reply'[i].pConn = reply[i].pConn
        /\ reply'[i].currSequence = reply[i].currSequence
        /\ reply'[i].client = reply[i].client
        /\ i # r => reply'[i].live = reply[i].live
        /\ i = r => reply'[i].live = FALSE
  <2> TAKE i \in 1 .. Len(reply)
  <2>1. reply[i] \in Reply
    BY <1>2
  <2>2. CASE i # r
    BY <1>2, <2>2
  <2>3. CASE i = r
    <3>1. reply'[i] = [reply[i] EXCEPT !.live = FALSE]
      BY <1>2, <2>3
    <3>2. QED
      BY <2>1, <2>3, <3>1 DEF Reply
  <2>4. QED
    BY <2>2, <2>3
<1>5. reply' \in Seq(Reply) /\ Len(reply') = Len(reply)
  BY <1>1, <1>3, SeqDef, LenProperties
<1>6. r # None => r \in 1 .. Len(reply)
  BY <1>1 DEF None
<1>7. QED
  BY <1>4, <1>5, <1>6

(* The iterator is erased from the list.                                   *)
LEMMA EraseEffect ==
    ASSUME TypeOK, QueueCounted, Scans, EraseScanned
    PROVE  /\ m_SendMsgList' \in Seq(1 .. Len(reply))
           /\ Len(m_SendMsgList) \in Nat /\ Len(m_SendMsgList') = Len(m_SendMsgList) - 1
           /\ \A i \in 1 .. Len(m_SendMsgList') :
                m_SendMsgList'[i] = IF i < sender.pos THEN m_SendMsgList[i] ELSE m_SendMsgList[i + 1]
           /\ m_SendMsgListSize' \in Nat
           /\ Scanned \in 1 .. Len(reply)
<1> DEFINE q == m_SendMsgList
           n == Len(q)
           p == sender.pos
           N == 1 .. Len(reply)
           a == SubSeq(q, 1, p - 1)
           b == SubSeq(q, p + 1, n)
<1>1. q \in Seq(N) /\ n \in Nat /\ p \in 1 .. n
  BY LenProperties DEF TypeOK, Scans
<1>2. \A i \in 1 .. n : q[i] \in N
  BY <1>1, ElementOfSeq
<1>3. /\ a \in Seq(N) /\ Len(a) = p - 1 /\ \A i \in 1 .. p - 1 : a[i] = q[i]
  <2>1. \A i \in 1 .. p - 1 : q[i] \in N
    BY <1>1, <1>2
  <2>2. 1 \in Int /\ p - 1 \in Int
    BY <1>1
  <2> HIDE DEF q, n, p, N
  <2>3. /\ a \in Seq(N) /\ Len(a) = (IF 1 <= p - 1 THEN (p - 1) - 1 + 1 ELSE 0)
        /\ \A i \in 1 .. (p - 1) - 1 + 1 : a[i] = q[1 + i - 1]
    BY <2>1, <2>2, SubSeqProperties
  <2>4. QED
    BY <1>1, <2>3
<1>4. /\ b \in Seq(N) /\ Len(b) = n - p /\ \A i \in 1 .. n - p : b[i] = q[p + i]
  <2>1. \A i \in p + 1 .. n : q[i] \in N
    BY <1>1, <1>2
  <2>2. p + 1 \in Int /\ n \in Int
    BY <1>1
  <2> HIDE DEF q, n, p, N
  <2>3. /\ b \in Seq(N) /\ Len(b) = (IF p + 1 <= n THEN n - (p + 1) + 1 ELSE 0)
        /\ \A i \in 1 .. n - (p + 1) + 1 : b[i] = q[(p + 1) + i - 1]
    BY <2>1, <2>2, SubSeqProperties
  <2>4. QED
    BY <1>1, <2>3
<1>5. m_SendMsgList' = a \o b /\ m_SendMsgListSize' = m_SendMsgListSize - 1
  BY DEF EraseScanned
<1>6. m_SendMsgListSize = n
  BY DEF QueueCounted
<1> HIDE DEF a, b, q, n, N
<1>7. /\ a \o b \in Seq(N) /\ Len(a \o b) = Len(a) + Len(b)
      /\ \A i \in 1 .. Len(a) + Len(b) : (a \o b)[i] = IF i <= Len(a) THEN a[i] ELSE b[i - Len(a)]
  BY <1>3, <1>4, ConcatProperties
<1> HIDE DEF p
<1>8. Len(a) + Len(b) = n - 1
  BY <1>1, <1>3, <1>4
<1>9. ASSUME NEW i \in 1 .. n - 1
      PROVE  (a \o b)[i] = IF i < p THEN q[i] ELSE q[i + 1]
  BY <1>1, <1>3, <1>4, <1>7, <1>8
<1>10. Scanned \in 1 .. Len(reply)
  BY <1>1, <1>2 DEF Scanned, q, n, p, N
<1>11. m_SendMsgListSize' \in Nat
  BY <1>1, <1>5, <1>6
<1>12. /\ a \o b \in Seq(N) /\ Len(a \o b) = n - 1
       /\ \A i \in 1 .. n - 1 : (a \o b)[i] = IF i < p THEN q[i] ELSE q[i + 1]
  BY <1>7, <1>8, <1>9
<1>13. m_SendMsgList' = a \o b
  BY <1>5
<1> HIDE DEF a, b
<1>14. QED
  BY <1>1, <1>10, <1>11, <1>12, <1>13 DEF q, n, p, N

-----------------------------------------------------------------------------
(* Type correctness.                                                       *)

SenderState ==
    [step : {"waiting", "testing", "locking", "scanning", "sending", "holding", "registering"},
     pos : Nat, reply : 0 .. Len(reply), fd : Fds \cup {NoFd}]

(* The reply the sender looks at, and the one it has in hand.              *)
LEMMA Looks ==
    ASSUME TypeOK, Scans
    PROVE  /\ Scanned \in 1 .. Len(reply) /\ Header = reply[Scanned] /\ Header \in Reply
           /\ Header.pConn \in Conns /\ connection[Header.pConn] \in Object
<1>1. Scanned \in 1 .. Len(reply)
  BY ElementOfSeq DEF TypeOK, Scans, Scanned
<1>2. reply[Scanned] \in Reply
  BY <1>1, ElementOfSeq DEF TypeOK, Reply
<1>3. connection \in [Conns -> Object]
  BY DEF TypeOK, Object
<1>4. QED
  BY <1>1, <1>2, <1>3 DEF Header, Reply

LEMMA InHand ==
    ASSUME TypeOK, SenderInv, sender.step \in Holding
    PROVE  /\ sender.reply \in 1 .. Len(reply) /\ reply[sender.reply] \in Reply
           /\ pConn \in Conns /\ connection[pConn] \in Object
<1>1. sender.reply \in 1 .. Len(reply)
  <2>1. Len(reply) \in Nat
    BY LenProperties DEF TypeOK
  <2>2. QED
    BY <2>1 DEF TypeOK, SenderInv, None
<1>2. reply[sender.reply] \in Reply
  BY <1>1, ElementOfSeq DEF TypeOK, Reply
<1>3. connection \in [Conns -> Object]
  BY DEF TypeOK, Object
<1>4. QED
  BY <1>1, <1>2, <1>3 DEF pConn, Reply

(* The step of the sender.                                                 *)
LEMMA SenderMoves ==
    ASSUME TypeOK, UNCHANGED <<list, reply, connection, kernel, logic, epoll>>,
           sender' \in SenderState, worker' \in {"running", "exited", "killed", "undefined"}
    PROVE  TypeOK'
BY DEF TypeOK, list, kernel, SenderState

(* The outcome of CloseConnectionToRecy after close().                     *)
LEMMA CloseEffect ==
    ASSUME NEW o \in Object
    PROVE  /\ Closed(o) \in Object
           /\ Closed(o).place = IF o.place = "closed" THEN o.place ELSE "closed"
           /\ Closed(o).currSequence =
                IF o.place = "closed" THEN o.currSequence ELSE o.currSequence + 1
           /\ Closed(o).sockFd = NoFd /\ Closed(o).throwSendMsgCount <= 0
           /\ Closed(o).client = o.client
           /\ Closed(o).sendMsgListCount = o.sendMsgListCount
           /\ Closed(o).pSendMsgMemPointer = o.pSendMsgMemPointer
           /\ Closed(o).sendMsgLen = o.sendMsgLen
<1> DEFINE released == [o EXCEPT !.sockFd = NoFd,
                          !.throwSendMsgCount = IF @ > 0 THEN 0 ELSE @]
<1>1. released \in Object
  <2> DEFINE n == IF o.throwSendMsgCount > 0 THEN 0 ELSE o.throwSendMsgCount
             first == [o EXCEPT !.sockFd = NoFd]
  <2>1. n \in Int /\ first \in Object /\ first.throwSendMsgCount = o.throwSendMsgCount
    BY DEF Object
  <2>2. released = [first EXCEPT !.throwSendMsgCount = n]
    BY Zenon
  <2> HIDE DEF n, first, released
  <2>3. QED
    BY <2>1, <2>2 DEF Object
<1>2. /\ released.place = o.place /\ released.sockFd = NoFd /\ released.client = o.client
      /\ released.currSequence = o.currSequence
      /\ released.throwSendMsgCount <= 0
      /\ released.sendMsgListCount = o.sendMsgListCount
      /\ released.pSendMsgMemPointer = o.pSendMsgMemPointer
      /\ released.sendMsgLen = o.sendMsgLen
  <2>1. /\ released.place = o.place /\ released.sockFd = NoFd /\ released.client = o.client
        /\ released.currSequence = o.currSequence
        /\ released.sendMsgListCount = o.sendMsgListCount
        /\ released.pSendMsgMemPointer = o.pSendMsgMemPointer
        /\ released.sendMsgLen = o.sendMsgLen
    BY DEF Object
  <2>2. released.throwSendMsgCount =
          IF o.throwSendMsgCount > 0 THEN 0 ELSE o.throwSendMsgCount
    BY DEF Object
  <2>3. o.throwSendMsgCount \in Int
    BY DEF Object
  <2>4. QED
    BY <2>1, <2>2, <2>3
<1>3. Closed(o) = IF o.place = "closed" THEN released
                  ELSE [released EXCEPT !.place = "closed", !.currSequence = @ + 1]
  BY DEF Closed
<1> HIDE DEF released
<1>4. CASE o.place = "closed"
  BY <1>1, <1>2, <1>3, <1>4
<1>5. CASE o.place # "closed"
  <2> DEFINE r == [released EXCEPT !.place = "closed", !.currSequence = @ + 1]
  <2>1. Closed(o) = r
    BY <1>3, <1>5
  <2>2. r \in Object
    <3> DEFINE first == [released EXCEPT !.place = "closed"]
    <3>1. first \in Object /\ released.currSequence + 1 \in Nat
      BY <1>1 DEF Object
    <3>2. r = [first EXCEPT !.currSequence = released.currSequence + 1]
      BY Zenon
    <3> HIDE DEF first, r
    <3>3. QED
      BY <3>1, <3>2 DEF Object
  <2>3. /\ r.place = "closed" /\ r.sockFd = released.sockFd /\ r.client = released.client
        /\ r.currSequence = released.currSequence + 1
        /\ r.throwSendMsgCount = released.throwSendMsgCount
        /\ r.sendMsgListCount = released.sendMsgListCount
        /\ r.pSendMsgMemPointer = released.pSendMsgMemPointer
        /\ r.sendMsgLen = released.sendMsgLen
    <3> DEFINE first == [released EXCEPT !.place = "closed"]
    <3>1. /\ first \in Object /\ first.place = "closed"
          /\ first.throwSendMsgCount = released.throwSendMsgCount
          /\ first.currSequence = released.currSequence /\ first.sockFd = released.sockFd
          /\ first.client = released.client
          /\ first.sendMsgListCount = released.sendMsgListCount
          /\ first.pSendMsgMemPointer = released.pSendMsgMemPointer
          /\ first.sendMsgLen = released.sendMsgLen
      BY <1>1 DEF Object
    <3>2. r = [first EXCEPT !.currSequence = released.currSequence + 1]
      BY Zenon
    <3> HIDE DEF first, r
    <3>3. QED
      BY <3>1, <3>2 DEF Object
  <2> HIDE DEF r
  <2>4. QED
    BY <1>2, <1>5, <2>1, <2>2, <2>3
<1>6. QED
  BY <1>4, <1>5

(* The record of object c becomes o and every other stays.                 *)
Writes(c, o) ==
    /\ connection' \in [Conns -> Object]
    /\ connection'[c] = o
    /\ \A d \in Conns : d # c => connection'[d] = connection[d]

LEMMA WriteObject ==
    ASSUME TypeOK, NEW c \in Conns, NEW o \in Object, connection' = [connection EXCEPT ![c] = o]
    PROVE  Writes(c, o)
<1>1. connection \in [Conns -> Object]
  BY DEF TypeOK, Object
<1> HIDE DEF Object
<1>2. QED
  BY <1>1 DEF Writes

(* The counts of an object, and all but its counts.                        *)
OnlyCounts(o, p) ==
    /\ p.place = o.place /\ p.sockFd = o.sockFd /\ p.client = o.client
    /\ p.currSequence = o.currSequence
    /\ p.pSendMsgMemPointer = o.pSendMsgMemPointer /\ p.sendMsgLen = o.sendMsgLen

LEMMA CountFields ==
    ASSUME NEW o \in Object, NEW n \in Int
    PROVE  /\ [o EXCEPT !.sendMsgListCount = n] \in Object
           /\ [o EXCEPT !.throwSendMsgCount = n] \in Object
           /\ OnlyCounts(o, [o EXCEPT !.sendMsgListCount = n])
           /\ OnlyCounts(o, [o EXCEPT !.throwSendMsgCount = n])
           /\ [o EXCEPT !.sendMsgListCount = n].sendMsgListCount = n
           /\ [o EXCEPT !.sendMsgListCount = n].throwSendMsgCount = o.throwSendMsgCount
           /\ [o EXCEPT !.throwSendMsgCount = n].throwSendMsgCount = n
           /\ [o EXCEPT !.throwSendMsgCount = n].sendMsgListCount = o.sendMsgListCount
BY DEF Object, OnlyCounts

(* A step that counts a reply, waiting or held, in object c.               *)
Counts(c, waiting, held) ==
    LET o == connection[c] IN
    /\ o \in Object
    /\ \E p \in Object :
         /\ Writes(c, p)
         /\ OnlyCounts(o, p)
         /\ p.sendMsgListCount = o.sendMsgListCount + waiting
         /\ p.throwSendMsgCount = o.throwSendMsgCount + held

LEMMA CountWaiting ==
    ASSUME TypeOK, NEW c \in Conns,
           connection' = [connection EXCEPT ![c].sendMsgListCount = @ + 1]
    PROVE  Counts(c, 1, 0)
<1> DEFINE n == connection[c].sendMsgListCount + 1
           o == [connection[c] EXCEPT !.sendMsgListCount = n]
<1>1. connection[c] \in Object /\ n \in Int /\ connection[c].throwSendMsgCount \in Int
  <2>1. connection[c] \in Object
    BY DEF TypeOK, Object
  <2>2. QED
    BY <2>1 DEF Object
<1>2. connection' = [connection EXCEPT ![c] = o]
  BY Zenon
<1> HIDE DEF n
<1>3. /\ o \in Object /\ OnlyCounts(connection[c], o)
      /\ o.sendMsgListCount = n /\ o.throwSendMsgCount = connection[c].throwSendMsgCount
  BY <1>1, CountFields
<1> HIDE DEF o
<1>4. Writes(c, o)
  BY <1>2, <1>3, WriteObject
<1>5. connection[c].throwSendMsgCount + 0 = connection[c].throwSendMsgCount
  BY <1>1
<1> HIDE DEF Object
<1>6. QED
  BY <1>1, <1>3, <1>4, <1>5 DEF Counts, n

LEMMA CountHeld ==
    ASSUME TypeOK, NEW c \in Conns, NEW d \in Int,
           connection' = [connection EXCEPT ![c].throwSendMsgCount = connection[c].throwSendMsgCount + d]
    PROVE  Counts(c, 0, d)
<1> DEFINE n == connection[c].throwSendMsgCount + d
           o == [connection[c] EXCEPT !.throwSendMsgCount = n]
<1>1. connection[c] \in Object /\ n \in Int /\ connection[c].sendMsgListCount \in Int
  <2>1. connection[c] \in Object
    BY DEF TypeOK, Object
  <2>2. QED
    BY <2>1 DEF Object
<1>2. connection' = [connection EXCEPT ![c] = o]
  BY Zenon
<1> HIDE DEF n
<1>3. /\ o \in Object /\ OnlyCounts(connection[c], o)
      /\ o.throwSendMsgCount = n /\ o.sendMsgListCount = connection[c].sendMsgListCount
  BY <1>1, CountFields
<1> HIDE DEF o
<1>4. Writes(c, o)
  BY <1>2, <1>3, WriteObject
<1>5. connection[c].sendMsgListCount + 0 = connection[c].sendMsgListCount
  BY <1>1
<1> HIDE DEF Object
<1>6. QED
  BY <1>1, <1>3, <1>4, <1>5 DEF Counts, n

(* What each step does to the connection it works on.                      *)
LEMMA TakeEffect ==
    ASSUME TypeOK, NEW c \in Conns, NEW r \in 0 .. Len(reply),
           connection' = [connection EXCEPT ![c].sendMsgListCount = @ - 1,
                                            ![c].pSendMsgMemPointer = r,
                                            ![c].sendMsgLen = ReplyLength]
    PROVE  \E p \in Object :
             LET o == connection[c] IN
             /\ Writes(c, p)
             /\ p.place = o.place /\ p.sockFd = o.sockFd /\ p.client = o.client
             /\ p.currSequence = o.currSequence /\ p.throwSendMsgCount = o.throwSendMsgCount
             /\ p.sendMsgListCount = o.sendMsgListCount - 1
             /\ p.pSendMsgMemPointer = r /\ p.sendMsgLen = ReplyLength
<1> DEFINE n == connection[c].sendMsgListCount - 1
           o == [connection[c] EXCEPT !.sendMsgListCount = n]
           p == [o EXCEPT !.pSendMsgMemPointer = r]
           q == [p EXCEPT !.sendMsgLen = ReplyLength]
<1>1. connection[c] \in Object
  BY DEF TypeOK, Object
<1>2. n \in Int
  BY <1>1 DEF Object
<1>8. ReplyLength \in 0 .. ReplyLength
  BY SendConstants
<1>3. connection' = [connection EXCEPT ![c] = q]
  BY Zenon
<1> HIDE DEF n
<1>4. /\ o \in Object
      /\ o.place = connection[c].place /\ o.sockFd = connection[c].sockFd
      /\ o.client = connection[c].client /\ o.currSequence = connection[c].currSequence
      /\ o.sendMsgListCount = n /\ o.throwSendMsgCount = connection[c].throwSendMsgCount
  <2>1. connection[c] \in Object /\ n \in Int
    BY <1>1, <1>2
  <2>2. o \in Object /\ o.sendMsgListCount = n
    BY <2>1, CountFields
  <2>3. /\ o.place = connection[c].place /\ o.sockFd = connection[c].sockFd
        /\ o.client = connection[c].client /\ o.currSequence = connection[c].currSequence
        /\ o.throwSendMsgCount = connection[c].throwSendMsgCount
    BY <2>1 DEF Object
  <2>4. QED
    BY <2>2, <2>3
<1> HIDE DEF o
<1>5. p \in Object /\ q \in Object
  BY <1>2, <1>4, <1>8 DEF Object
<1>6. /\ q.pSendMsgMemPointer = r /\ q.sendMsgLen = ReplyLength
      /\ q.place = o.place /\ q.sockFd = o.sockFd /\ q.client = o.client
      /\ q.currSequence = o.currSequence /\ q.throwSendMsgCount = o.throwSendMsgCount
      /\ q.sendMsgListCount = o.sendMsgListCount
  BY <1>4 DEF Object
<1> HIDE DEF p, q
<1>7. Writes(c, q)
  BY <1>3, <1>5, WriteObject
<1> HIDE DEF Object
<1>9. QED
  BY <1>4, <1>5, <1>6, <1>7 DEF n

LEMMA SendSomeEffect ==
    ASSUME TypeOK, NEW c \in Conns, NEW n \in 0 .. ReplyLength,
           connection[c].sendMsgLen = ReplyLength,
           connection' = [connection EXCEPT ![c].sendMsgLen = @ - n]
    PROVE  \E p \in Object :
             LET o == connection[c] IN
             /\ Writes(c, p)
             /\ p.place = o.place /\ p.sockFd = o.sockFd /\ p.client = o.client
             /\ p.currSequence = o.currSequence /\ p.throwSendMsgCount = o.throwSendMsgCount
             /\ p.sendMsgListCount = o.sendMsgListCount
             /\ p.pSendMsgMemPointer = o.pSendMsgMemPointer
<1> DEFINE l == connection[c].sendMsgLen - n
           p == [connection[c] EXCEPT !.sendMsgLen = l]
<1>1. connection[c] \in Object /\ l \in 0 .. ReplyLength
  <2>1. connection[c] \in Object
    BY DEF TypeOK, Object
  <2>2. ReplyLength \in Nat
    BY SendConstants
  <2>3. QED
    BY <2>1, <2>2
<1>2. connection' = [connection EXCEPT ![c] = p]
  BY Zenon
<1> HIDE DEF l
<1>3. /\ p \in Object
      /\ \A f \in {"place", "sockFd", "client", "currSequence", "throwSendMsgCount",
                    "sendMsgListCount", "pSendMsgMemPointer"} : p[f] = connection[c][f]
  BY <1>1 DEF Object
<1> HIDE DEF p
<1>4. Writes(c, p)
  BY <1>2, <1>3, WriteObject
<1>5. /\ p.place = connection[c].place /\ p.sockFd = connection[c].sockFd
      /\ p.client = connection[c].client /\ p.currSequence = connection[c].currSequence
      /\ p.throwSendMsgCount = connection[c].throwSendMsgCount
      /\ p.sendMsgListCount = connection[c].sendMsgListCount
      /\ p.pSendMsgMemPointer = connection[c].pSendMsgMemPointer
  BY <1>3
<1>6. QED
  BY <1>3, <1>4, <1>5

LEMMA QueueFreedEffect ==
    ASSUME TypeOK, NEW c \in Conns,
           NEW closed, closed = Closed(connection[c]),
           connection' = [connection EXCEPT ![c] = [closed EXCEPT !.sendMsgListCount = @ + 1]]
    PROVE  \E p \in Object :
             LET o == connection[c] IN
             /\ Writes(c, p)
             /\ p.place = (IF o.place = "closed" THEN o.place ELSE "closed")
             /\ p.sockFd = NoFd /\ p.client = o.client
             /\ p.currSequence = (IF o.place = "closed" THEN o.currSequence
                                                        ELSE o.currSequence + 1)
             /\ p.throwSendMsgCount <= 0
             /\ p.pSendMsgMemPointer = o.pSendMsgMemPointer /\ p.sendMsgLen = o.sendMsgLen
<1> DEFINE o == Closed(connection[c])
           n == o.sendMsgListCount + 1
           p == [o EXCEPT !.sendMsgListCount = n]
<1>1. connection[c] \in Object
  BY DEF TypeOK, Object
<1>2. /\ o \in Object
      /\ o.place = IF connection[c].place = "closed" THEN connection[c].place ELSE "closed"
      /\ o.currSequence = IF connection[c].place = "closed" THEN connection[c].currSequence
                                                            ELSE connection[c].currSequence + 1
      /\ o.sockFd = NoFd /\ o.throwSendMsgCount <= 0 /\ o.client = connection[c].client
      /\ o.pSendMsgMemPointer = connection[c].pSendMsgMemPointer
      /\ o.sendMsgLen = connection[c].sendMsgLen
  BY <1>1, CloseEffect
<1>3. connection' = [connection EXCEPT ![c] = p]
  OBVIOUS
<1> HIDE DEF o
<1>4. n \in Int
  BY <1>2 DEF Object
<1> HIDE DEF n
<1>5. /\ p \in Object /\ p.throwSendMsgCount = o.throwSendMsgCount
      /\ OnlyCounts(o, p)
  BY <1>2, <1>4, CountFields
<1> HIDE DEF p
<1>6. Writes(c, p)
  BY <1>3, <1>5, WriteObject
<1>7. /\ p.place = o.place /\ p.sockFd = o.sockFd /\ p.client = o.client
      /\ p.currSequence = o.currSequence /\ p.throwSendMsgCount = o.throwSendMsgCount
      /\ p.pSendMsgMemPointer = o.pSendMsgMemPointer /\ p.sendMsgLen = o.sendMsgLen
  BY <1>5 DEF OnlyCounts
<1> HIDE DEF Object
<1>8. QED
  BY <1>2, <1>5, <1>6, <1>7

LEMMA FinishCloseEffect ==
    ASSUME TypeOK, NEW c \in Conns, connection' = [connection EXCEPT ![c] = Closed(@)]
    PROVE  \E p \in Object :
             LET o == connection[c] IN
             /\ Writes(c, p)
             /\ p.place = (IF o.place = "closed" THEN o.place ELSE "closed")
             /\ p.sockFd = NoFd /\ p.client = o.client
             /\ p.currSequence = (IF o.place = "closed" THEN o.currSequence
                                                        ELSE o.currSequence + 1)
             /\ p.throwSendMsgCount <= 0
             /\ p.pSendMsgMemPointer = o.pSendMsgMemPointer /\ p.sendMsgLen = o.sendMsgLen
<1>1. connection[c] \in Object
  BY DEF TypeOK, Object
<1>2. connection' = [connection EXCEPT ![c] = Closed(connection[c])]
  OBVIOUS
<1> HIDE DEF Object
<1>3. QED
  BY <1>1, <1>2, CloseEffect, WriteObject

(* Object c becomes p, which serves client k behind descriptor f.          *)
Serves(c, p, f, k) ==
    /\ Writes(c, p)
    /\ p.place = "online" /\ p.sockFd = f /\ p.client = k
    /\ p.currSequence = connection[c].currSequence + 1
    /\ p.throwSendMsgCount = 0 /\ p.sendMsgListCount = 0 /\ p.pSendMsgMemPointer = None

LEMMA AcceptEffect ==
    ASSUME TypeOK, NEW c \in Conns, NEW f \in Fds, NEW k \in Clients,
           connection' = [connection EXCEPT ![c] =
               [place |-> "online", sockFd |-> f, client |-> k,
                currSequence |-> @.currSequence + 1, throwSendMsgCount |-> 0,
                sendMsgListCount |-> 0, pSendMsgMemPointer |-> None, sendMsgLen |-> 0]]
    PROVE  \E p \in Object : Serves(c, p, f, k)
<1> DEFINE p == [place |-> "online", sockFd |-> f, client |-> k,
                 currSequence |-> connection[c].currSequence + 1, throwSendMsgCount |-> 0,
                 sendMsgListCount |-> 0, pSendMsgMemPointer |-> None, sendMsgLen |-> 0]
<1>1. connection[c] \in Object /\ Len(reply) \in Nat
  BY LenProperties DEF TypeOK, Object
<1>2. p \in Object
  BY <1>1, SendConstants DEF Object, None
<1>3. connection' = [connection EXCEPT ![c] = p]
  OBVIOUS
<1>4. /\ p.place = "online" /\ p.sockFd = f /\ p.client = k
      /\ p.currSequence = connection[c].currSequence + 1
      /\ p.throwSendMsgCount = 0 /\ p.sendMsgListCount = 0 /\ p.pSendMsgMemPointer = None
  OBVIOUS
<1> HIDE DEF Object, p
<1>5. QED
  BY <1>2, <1>3, <1>4, WriteObject DEF Serves

LEMMA RecycleEffect ==
    ASSUME TypeOK, NEW c \in Conns,
           connection' = [connection EXCEPT ![c].place = "free", ![c].currSequence = @ + 1,
                             ![c].throwSendMsgCount = IF @ > 0 THEN 0 ELSE @]
    PROVE  \E p \in Object :
             LET o == connection[c] IN
             /\ Writes(c, p)
             /\ p.place = "free" /\ p.sockFd = o.sockFd /\ p.client = o.client
             /\ p.currSequence = o.currSequence + 1
             /\ p.pSendMsgMemPointer = o.pSendMsgMemPointer
<1> DEFINE m == connection[c].currSequence + 1
           n == IF connection[c].throwSendMsgCount > 0 THEN 0 ELSE connection[c].throwSendMsgCount
           o == [connection[c] EXCEPT !.place = "free"]
           p == [o EXCEPT !.currSequence = m]
           q == [p EXCEPT !.throwSendMsgCount = n]
<1>1. connection[c] \in Object /\ connection \in [Conns -> Object]
  BY DEF TypeOK, Object
<1>2. m \in Nat /\ n \in Int
  BY <1>1 DEF Object
<1>3. connection' = [connection EXCEPT ![c] = q]
  BY <1>1, Zenon
<1> HIDE DEF m, n
<1>4. o \in Object /\ p \in Object /\ q \in Object
  BY <1>1, <1>2 DEF Object
<1>5. /\ q.place = "free" /\ q.currSequence = m
      /\ \A f \in {"sockFd", "client", "pSendMsgMemPointer"} : q[f] = connection[c][f]
  BY <1>1 DEF Object
<1> HIDE DEF Object, q
<1>6. Writes(c, q)
  BY <1>3, <1>4, WriteObject
<1>7. QED
  BY <1>4, <1>5, <1>6 DEF m

LEMMA HandlerFields ==
    ASSUME SendInv, NEW t \in LogicThreads, logic[t].step # "idle", NEW live \in BOOLEAN
    PROVE  /\ logic[t].pConn \in Conns /\ connection[logic[t].pConn] \in Object
           /\ ReplyOf(t, live) \in Reply
           /\ ReplyOf(t, live).pConn = logic[t].pConn /\ ReplyOf(t, live).live = live
           /\ ReplyOf(t, live).currSequence = logic[t].currSequence
           /\ ReplyOf(t, live).client = logic[t].client
<1>1. logic[t].pConn \in Conns /\ logic[t].client \in Clients /\ logic[t].currSequence \in Nat
  BY DEF SendInv, HeaderInv, HandlerInv, TypeOK
<1>2. connection \in [Conns -> Object]
  BY DEF SendInv, TypeOK, Object
<1>3. QED
  BY <1>1, <1>2 DEF ReplyOf, Reply

HandlerState ==
    [step : {"idle", "replying", "cutting"}, pConn : Conns \cup {None},
     currSequence : Nat, client : Clients \cup {None}]

LEMMA HandlerMoves ==
    ASSUME TypeOK, NEW t \in LogicThreads
    PROVE  /\ [logic EXCEPT ![t] = Idle] \in [LogicThreads -> HandlerState]
           /\ [logic EXCEPT ![t].step = "cutting"] \in [LogicThreads -> HandlerState]
           /\ [logic EXCEPT ![t].step = "cutting"] =
                [logic EXCEPT ![t] = [logic[t] EXCEPT !.step = "cutting"]]
<1>1. logic \in [LogicThreads -> HandlerState]
  BY DEF TypeOK, HandlerState
<1>2. Idle \in HandlerState
  BY DEF Idle, HandlerState
<1>3. [logic EXCEPT ![t].step = "cutting"] =
        [logic EXCEPT ![t] = [logic[t] EXCEPT !.step = "cutting"]]
  BY Zenon
<1>4. [logic[t] EXCEPT !.step = "cutting"] \in HandlerState
  BY <1>1 DEF HandlerState
<1> HIDE DEF HandlerState
<1>5. QED
  BY <1>1, <1>2, <1>3, <1>4

(* TypeOK in four parts.                                                   *)
ListTypes ==
    /\ m_SendMsgList \in Seq(1 .. Len(reply)) /\ m_SendMsgListSize \in Nat
    /\ m_SendMsgListMutex \in {"free", "sender"} \cup LogicThreads
    /\ g_SendMsgPushEventSem \in Nat
ObjectTypes == reply \in Seq(Reply) /\ connection \in [Conns -> Object]
KernelTypes ==
    /\ socketOf \in [Fds -> Clients \cup {None}] /\ writable \in [Fds -> BOOLEAN]
    /\ status \in [Clients -> {"here", "shut", "shutBroken", "reset", "broken"}]
    /\ received \in [Clients -> Seq(1 .. Len(reply))]
    /\ accepted \in 0 .. MaxClients
ThreadTypes ==
    /\ sender \in SenderState /\ logic \in [LogicThreads -> HandlerState]
    /\ epoll \in [step : {"polling", "reading", "closing", "read"},
                  pConn : Conns \cup {None}, out : BOOLEAN]
    /\ worker \in {"running", "exited", "killed", "undefined"}

LEMMA TypesInParts ==
    /\ TypeOK <=> ListTypes /\ ObjectTypes /\ KernelTypes /\ ThreadTypes
    /\ TypeOK' <=> ListTypes' /\ ObjectTypes' /\ KernelTypes' /\ ThreadTypes'
BY DEF TypeOK, ListTypes, ObjectTypes, KernelTypes, ThreadTypes, Reply, Object, SenderState,
   HandlerState

LEMMA HandlerTypes ==
    ASSUME SendInv, NEW t \in LogicThreads, HandleMessage(t) \/ PushStep(t)
    PROVE  TypeOK'
<1> USE DEF SendInv
<1>1. CASE HandleMessage(t)
  <2>1. PICK c \in Online :
          logic' = [logic EXCEPT ![t] =
            [step |-> "replying", pConn |-> c, currSequence |-> connection[c].currSequence,
             client |-> connection[c].client]]
    BY <1>1 DEF HandleMessage
  <2>2. connection[c].currSequence \in Nat /\ connection[c].client \in Clients \cup {None}
        /\ c \in Conns
    BY DEF TypeOK, Online
  <2>3. ListTypes /\ ObjectTypes /\ KernelTypes /\ ThreadTypes
        /\ UNCHANGED <<m_SendMsgList, m_SendMsgListSize, m_SendMsgListMutex,
                       g_SendMsgPushEventSem, reply, connection, socketOf, writable, status,
                       received, accepted, sender, epoll, worker>>
    BY <1>1, TypesInParts DEF HandleMessage, list, kernel
  <2>4. logic' \in [LogicThreads -> HandlerState]
    BY <2>1, <2>2, <2>3 DEF ThreadTypes, HandlerState
  <2>5. ListTypes' /\ ObjectTypes' /\ KernelTypes'
    BY <2>3 DEF ListTypes, ObjectTypes, Object, KernelTypes
  <2>6. ThreadTypes'
    BY <2>3, <2>4 DEF ThreadTypes, SenderState
  <2>7. QED
    BY <2>5, <2>6, TypesInParts
<1>2. CASE PushReply(t)
  <2>1. /\ logic[t].pConn \in Conns /\ ReplyOf(t, TRUE) \in Reply
        /\ reply' = Append(reply, ReplyOf(t, TRUE))
        /\ connection' = [connection EXCEPT ![logic[t].pConn].sendMsgListCount = @ + 1]
        /\ m_SendMsgList' = Append(m_SendMsgList, Len(reply) + 1)
        /\ m_SendMsgListSize' = m_SendMsgListSize + 1
        /\ logic' = [logic EXCEPT ![t] = Idle]
        /\ g_SendMsgPushEventSem' = g_SendMsgPushEventSem + 1
        /\ UNCHANGED <<m_SendMsgListMutex, socketOf, writable, status, received, accepted,
                       sender, epoll, worker>>
    BY <1>2, HandlerFields DEF PushReply, QueueReply, kernel
  <2>2. /\ reply' \in Seq(Reply) /\ Len(reply) \in Nat /\ Len(reply') = Len(reply) + 1
        /\ m_SendMsgList \in Seq(1 .. Len(reply'))
        /\ received \in [Clients -> Seq(1 .. Len(reply'))]
        /\ sender.reply \in 0 .. Len(reply')
    BY <2>1, MoreReplies
  <2>3. \E o \in Object : Writes(logic[t].pConn, o)
    BY <2>1, CountWaiting DEF Counts
  <2>4. connection' \in [Conns -> Object']
    BY <2>2, <2>3 DEF Writes, Object
  <2>5. m_SendMsgList' \in Seq(1 .. Len(reply'))
    BY <2>1, <2>2, AppendProperties
  <2>6. /\ m_SendMsgListSize' \in Nat /\ g_SendMsgPushEventSem' \in Nat
        /\ logic' \in [LogicThreads -> HandlerState]
    <3>1. logic' \in [LogicThreads -> HandlerState]
      BY <2>1, HandlerMoves
    <3>2. m_SendMsgListSize \in Nat /\ g_SendMsgPushEventSem \in Nat
      BY DEF TypeOK
    <3>3. QED
      BY <2>1, <3>1, <3>2
  <2>7. sender' \in SenderState'
    BY <2>1, <2>2 DEF TypeOK, SenderState
  <2>8. QED
    BY <2>1, <2>2, <2>4, <2>5, <2>6, <2>7 DEF TypeOK, Reply, Object, SenderState, HandlerState
<1>3. CASE PushOverloaded(t)
  BY <1>3 DEF PushOverloaded, TypeOK, list, kernel
<1>4. CASE CutSlowClient(t)
  <2>1. /\ logic[t].pConn \in Conns /\ ReplyOf(t, FALSE) \in Reply
        /\ reply' = Append(reply, ReplyOf(t, FALSE))
        /\ m_SendMsgListMutex' = t
        /\ logic' = [logic EXCEPT ![t].step = "cutting"]
        /\ UNCHANGED <<m_SendMsgList, m_SendMsgListSize, g_SendMsgPushEventSem, connection, status,
                       received, accepted, sender, epoll, worker>>
    BY <1>4, HandlerFields DEF CutSlowClient
  <2>2. /\ reply' \in Seq(Reply)
        /\ m_SendMsgList \in Seq(1 .. Len(reply'))
        /\ connection \in [Conns -> Object']
        /\ received \in [Clients -> Seq(1 .. Len(reply'))]
        /\ sender.reply \in 0 .. Len(reply')
    BY <2>1, MoreReplies
  <2>3. socketOf' \in [Fds -> Clients \cup {None}] /\ writable' \in [Fds -> BOOLEAN]
    BY <1>4 DEF CutSlowClient, TypeOK
  <2>4. logic' \in [LogicThreads -> HandlerState]
    BY <2>1, HandlerMoves
  <2>5. sender' \in SenderState'
    BY <2>1, <2>2 DEF TypeOK, SenderState
  <2>6. QED
    BY <2>1, <2>2, <2>3, <2>4, <2>5 DEF TypeOK, Reply, Object, SenderState, HandlerState
<1>5. CASE QueueFreedReply(t)
  <2>1. /\ logic[t].pConn \in Conns /\ Len(reply) \in 1 .. Len(reply)
        /\ logic' = [logic EXCEPT ![t] = Idle]
        /\ UNCHANGED <<reply, socketOf, writable, status, received, accepted, sender, epoll, worker>>
    <3>1. logic[t].step = "cutting" /\ logic[t].pConn \in Conns
      BY <1>5 DEF QueueFreedReply, HeaderInv, HandlerInv
    <3>2. Len(reply) \in Nat /\ Len(reply) > 0
      BY <3>1, LenProperties DEF HeaderInv, CutInv, TypeOK
    <3>3. QED
      BY <1>5, <3>1, <3>2 DEF QueueFreedReply, kernel
  <2>2. \E o \in Object : Writes(logic[t].pConn, o)
    BY <1>5, <2>1, QueueFreedEffect DEF QueueFreedReply
  <2>3. connection' \in [Conns -> Object]
    BY <2>2 DEF Writes
  <2>4. m_SendMsgList' \in Seq(1 .. Len(reply))
    BY <1>5, <2>1, AppendProperties DEF QueueFreedReply, TypeOK
  <2>5. /\ m_SendMsgListSize' \in Nat /\ g_SendMsgPushEventSem' \in Nat
        /\ m_SendMsgListMutex' = "free"
        /\ logic' \in [LogicThreads -> HandlerState]
    <3>1. logic' \in [LogicThreads -> HandlerState]
      BY <2>1, HandlerMoves
    <3>2. m_SendMsgListSize \in Nat /\ g_SendMsgPushEventSem \in Nat
      BY DEF TypeOK
    <3>3. /\ m_SendMsgListSize' = m_SendMsgListSize + 1 /\ m_SendMsgListMutex' = "free"
          /\ g_SendMsgPushEventSem' = g_SendMsgPushEventSem + 1
      BY <1>5 DEF QueueFreedReply
    <3>4. QED
      BY <3>1, <3>2, <3>3
  <2>6. ListTypes /\ ObjectTypes /\ KernelTypes /\ ThreadTypes
    BY TypesInParts
  <2>7. ListTypes'
    BY <2>1, <2>4, <2>5 DEF ListTypes
  <2>8. ObjectTypes'
    BY <2>1, <2>3, <2>6 DEF ObjectTypes, Object
  <2>9. KernelTypes' /\ ThreadTypes'
    BY <2>1, <2>5, <2>6 DEF KernelTypes, ThreadTypes, SenderState
  <2>10. QED
    BY <2>7, <2>8, <2>9, TypesInParts
<1>6. QED
  BY <1>1, <1>2, <1>3, <1>4, <1>5 DEF PushStep

SenderSteps == {"waiting", "testing", "locking", "scanning", "sending", "holding", "registering"}

LEMMA SenderNext ==
    ASSUME TypeOK
    PROVE  /\ \A s \in SenderSteps : [sender EXCEPT !.step = s] \in SenderState
           /\ \A s \in SenderSteps : [sender EXCEPT !.step = s, !.pos = 1] \in SenderState
           /\ [sender EXCEPT !.pos = @ + 1] \in SenderState
           /\ BackToScan \in SenderState
           /\ \A f \in Fds \cup {NoFd}, r \in 0 .. Len(reply) :
                [sender EXCEPT !.step = "sending", !.fd = f, !.reply = r] \in SenderState
<1>1. sender \in SenderState /\ Len(reply) \in Nat
  BY LenProperties DEF TypeOK, SenderState
<1>2. \A s \in SenderSteps : [sender EXCEPT !.step = s] \in SenderState
  BY <1>1 DEF SenderState, SenderSteps
<1>3. \A s \in SenderSteps : [sender EXCEPT !.step = s, !.pos = 1] \in SenderState
  BY <1>1 DEF SenderState, SenderSteps
<1>4. [sender EXCEPT !.pos = @ + 1] \in SenderState
  BY <1>1 DEF SenderState
<1>5. BackToScan \in SenderState
  <2> DEFINE first == [sender EXCEPT !.step = "scanning"]
             second == [first EXCEPT !.reply = None]
  <2>1. BackToScan = [second EXCEPT !.fd = NoFd]
    BY Zenon DEF BackToScan
  <2>2. first \in SenderState
    BY <1>1 DEF SenderState
  <2> HIDE DEF first
  <2>3. None \in 0 .. Len(reply)
    BY <1>1 DEF None
  <2>4. second \in SenderState
    BY <2>2, <2>3 DEF SenderState
  <2> HIDE DEF second
  <2>5. QED
    BY <2>1, <2>4 DEF SenderState
<1>6. ASSUME NEW f \in Fds \cup {NoFd}, NEW r \in 0 .. Len(reply)
      PROVE  [sender EXCEPT !.step = "sending", !.fd = f, !.reply = r] \in SenderState
  BY <1>1, <1>6 DEF SenderState
<1>7. QED
  BY <1>2, <1>3, <1>4, <1>5, <1>6

LEMMA WaitTypes ==
    ASSUME TypeOK,
           WakeUp \/ WakeBySignal \/ TestListSize \/ LockSendList \/ UnlockSendList \/ SkipBlocked
             \/ ReadFreedReply
    PROVE  TypeOK'
<1>1. sender' \in SenderState
  <2>1. CASE WakeUp \/ WakeBySignal
    BY <2>1, SenderNext DEF WakeUp, WakeBySignal, SenderSteps
  <2>2. CASE TestListSize
    BY <2>2, SenderNext DEF TestListSize, SenderSteps
  <2>3. CASE LockSendList \/ UnlockSendList
    BY <2>3, SenderNext DEF LockSendList, UnlockSendList, SenderSteps
  <2>4. CASE SkipBlocked
    BY <2>4, SenderNext DEF SkipBlocked
  <2>5. CASE ReadFreedReply
    BY <2>5 DEF ReadFreedReply, TypeOK, SenderState
  <2>6. QED
    BY <2>1, <2>2, <2>3, <2>4, <2>5
<1>2. /\ g_SendMsgPushEventSem' \in Nat
      /\ m_SendMsgListMutex' \in {"free", "sender"} \cup LogicThreads
      /\ worker' \in {"running", "exited", "killed", "undefined"}
  BY DEF WakeUp, WakeBySignal, TestListSize, LockSendList, UnlockSendList, SkipBlocked,
         ReadFreedReply, TypeOK, list
<1>3. UNCHANGED <<m_SendMsgList, m_SendMsgListSize, reply, connection, kernel, logic, epoll>>
  BY DEF WakeUp, WakeBySignal, TestListSize, LockSendList, UnlockSendList, SkipBlocked,
         ReadFreedReply, list
<1>4. QED
  BY <1>1, <1>2, <1>3 DEF TypeOK, SenderState, kernel

(* A reply is freed.                                                       *)
LEMMA FreeTypes ==
    ASSUME TypeOK, NEW r \in 0 .. Len(reply), reply' = [reply EXCEPT ![r].live = FALSE]
    PROVE  /\ reply' \in Seq([pConn : Conns, currSequence : Nat, client : Clients, live : BOOLEAN])
           /\ Len(reply') = Len(reply) /\ Object' = Object /\ SenderState' = SenderState
<1>1. reply' \in Seq(Reply) /\ Len(reply') = Len(reply)
  BY FreeReply
<1>2. QED
  BY <1>1 DEF Reply, Object, SenderState

LEMMA DiscardTypes ==
    ASSUME SendInv, DiscardStale
    PROVE  TypeOK'
<1>1. /\ m_SendMsgList' \in Seq(1 .. Len(reply)) /\ m_SendMsgListSize' \in Nat
      /\ Scanned \in 0 .. Len(reply)
  <2>1. Scanned \in 1 .. Len(reply) => Scanned \in 0 .. Len(reply)
    OBVIOUS
  <2>2. QED
    BY <2>1, EraseEffect DEF SendInv, DiscardStale
<1>2. /\ reply' \in Seq([pConn : Conns, currSequence : Nat, client : Clients, live : BOOLEAN])
      /\ Len(reply') = Len(reply)
  BY <1>1, FreeTypes DEF SendInv, DiscardStale
<1>3. /\ ListTypes /\ ObjectTypes /\ KernelTypes /\ ThreadTypes
      /\ UNCHANGED <<m_SendMsgListMutex, g_SendMsgPushEventSem, connection, socketOf, writable,
                     status, received, accepted, sender, logic, epoll, worker>>
  BY TypesInParts DEF SendInv, DiscardStale, kernel
<1>4. ListTypes'
  BY <1>1, <1>2, <1>3 DEF ListTypes
<1>5. ObjectTypes'
  BY <1>2, <1>3 DEF ObjectTypes, Object, Reply
<1>6. KernelTypes' /\ ThreadTypes'
  BY <1>2, <1>3 DEF KernelTypes, ThreadTypes, SenderState
<1>7. QED
  BY <1>4, <1>5, <1>6, TypesInParts

LEMMA TakeTypes ==
    ASSUME SendInv, TakeReply
    PROVE  TypeOK'
<1>1. /\ m_SendMsgList' \in Seq(1 .. Len(reply)) /\ m_SendMsgListSize' \in Nat
      /\ Scanned \in 0 .. Len(reply) /\ Header.pConn \in Conns
      /\ connection[Header.pConn].sockFd \in Fds \cup {NoFd}
  <2>1. Scanned \in 1 .. Len(reply) => Scanned \in 0 .. Len(reply)
    OBVIOUS
  <2>2. QED
    BY <2>1, EraseEffect, Looks DEF SendInv, TakeReply, Object
<1>2. connection' \in [Conns -> Object]
  BY <1>1, TakeEffect DEF SendInv, TakeReply, Writes
<1>3. sender' \in SenderState
  <2>1. sender' = [sender EXCEPT !.step = "sending", !.fd = connection[Header.pConn].sockFd,
                                 !.reply = Scanned]
    BY DEF TakeReply
  <2>2. TypeOK
    BY DEF SendInv
  <2>3. QED
    BY <1>1, <2>1, <2>2, SenderNext
<1>4. TypeOK /\ UNCHANGED <<m_SendMsgListMutex, g_SendMsgPushEventSem, reply, socketOf, writable,
                           status, received, accepted, logic, epoll, worker>>
  BY DEF SendInv, TakeReply, kernel
<1>5. QED
  BY <1>1, <1>2, <1>3, <1>4 DEF TypeOK, Object, SenderState

(* send().                                                                 *)
LEMMA SendTypes ==
    ASSUME SendInv, NEW n \in 1 .. ReplyLength, SendParts(n)
    PROVE  /\ received' \in [Clients -> Seq(1 .. Len(reply))]
           /\ status' \in [Clients -> {"here", "shut", "shutBroken", "reset", "broken"}]
           /\ UNCHANGED <<socketOf, writable, accepted>>
<1>1. sender.reply \in 1 .. Len(reply)
  BY InHand DEF SendInv, SendParts, Holding
<1>2. received \in [Clients -> Seq(1 .. Len(reply))]
  BY DEF SendInv, TypeOK
<1>3. [i \in 1 .. n |-> sender.reply] \in Seq(1 .. Len(reply))
  BY <1>1, SeqDef, SendConstants
<1>4. \A k \in Clients : received[k] \o [i \in 1 .. n |-> sender.reply] \in Seq(1 .. Len(reply))
  BY <1>2, <1>3, ConcatProperties
<1>5. received' \in [Clients -> Seq(1 .. Len(reply))]
  BY <1>2, <1>4 DEF SendParts
<1>6. status' \in [Clients -> {"here", "shut", "shutBroken", "reset", "broken"}]
  BY DEF SendInv, TypeOK, SendParts
<1>7. QED
  BY <1>5, <1>6 DEF SendParts

(* FreeMemory(pConn->pSendMsgMemPointer).                                  *)
LEMMA FreeSentTypes ==
    ASSUME SendInv, sender.step \in {"sending", "holding"}, FreeSent
    PROVE  /\ sender.reply \in 1 .. Len(reply) /\ pConn \in Conns
           /\ connection[pConn].pSendMsgMemPointer = sender.reply
           /\ reply' = [reply EXCEPT ![sender.reply].live = FALSE]
           /\ reply' \in Seq([pConn : Conns, currSequence : Nat, client : Clients, live : BOOLEAN])
           /\ Len(reply') = Len(reply)
<1>1. sender.reply \in 1 .. Len(reply) /\ pConn \in Conns
  BY InHand DEF SendInv, Holding
<1>2. connection[pConn].pSendMsgMemPointer = sender.reply
  BY DEF SendInv, SenderInv
<1>3. reply' = [reply EXCEPT ![sender.reply].live = FALSE]
  BY <1>2 DEF FreeSent
<1>4. sender.reply \in 0 .. Len(reply)
  BY <1>1
<1>5. QED
  BY <1>1, <1>2, <1>3, <1>4, FreeTypes DEF SendInv

LEMMA SendResultTypes ==
    ASSUME SendInv, SendWhole \/ SendSome \/ SendWouldBlock \/ SendFails \/ SendRaisesSigpipe
    PROVE  TypeOK'
<1>1. CASE SendWhole
  <2>1. /\ received' \in [Clients -> Seq(1 .. Len(reply))]
        /\ status' \in [Clients -> {"here", "shut", "shutBroken", "reset", "broken"}]
        /\ UNCHANGED <<socketOf, writable, accepted>>
    BY <1>1, SendTypes, SendConstants DEF SendWhole
  <2>2. /\ reply' \in Seq([pConn : Conns, currSequence : Nat, client : Clients, live : BOOLEAN])
        /\ Len(reply') = Len(reply)
    BY <1>1, FreeSentTypes DEF SendWhole, SendParts
  <2>3. sender' \in SenderState
    BY <1>1, SenderNext DEF SendInv, SendWhole
  <2>4. QED
    BY <1>1, <2>1, <2>2, <2>3 DEF SendInv, SendWhole, TypeOK, SenderState, list
<1>2. CASE SendSome
  <2>1. PICK n \in 1 .. ReplyLength - 1 :
          /\ SendParts(n)
          /\ connection' = [connection EXCEPT ![pConn].sendMsgLen = @ - n]
    BY <1>2 DEF SendSome
  <2>2. n \in 1 .. ReplyLength /\ n \in 0 .. ReplyLength
    BY SendConstants
  <2>3. /\ received' \in [Clients -> Seq(1 .. Len(reply))]
        /\ status' \in [Clients -> {"here", "shut", "shutBroken", "reset", "broken"}]
        /\ UNCHANGED <<socketOf, writable, accepted>>
    BY <2>1, <2>2, SendTypes
  <2>4. pConn \in Conns /\ connection[pConn].sendMsgLen = ReplyLength
    BY <2>1, InHand DEF SendParts, SendInv, SenderInv, Holding
  <2>5. connection' \in [Conns -> Object]
    BY <2>1, <2>2, <2>4, SendSomeEffect DEF Writes, SendInv
  <2>6. sender' \in SenderState
    <3>1. TypeOK /\ sender' = [sender EXCEPT !.step = "holding"]
      BY <1>2 DEF SendInv, SendSome
    <3>2. QED
      BY <3>1, SenderNext DEF SenderSteps
  <2>7. TypeOK /\ UNCHANGED <<m_SendMsgList, m_SendMsgListSize, m_SendMsgListMutex,
                             g_SendMsgPushEventSem, reply, logic, epoll, worker>>
    BY <1>2 DEF SendInv, SendSome, list
  <2>8. QED
    BY <2>3, <2>5, <2>6, <2>7 DEF TypeOK, SenderState, Object
<1>3. CASE SendWouldBlock
  <2>1. sender' \in SenderState
    BY <1>3, SenderNext DEF SendInv, SendWouldBlock, SenderSteps
  <2>2. QED
    BY <1>3, <2>1, SenderMoves DEF SendInv, SendWouldBlock, TypeOK
<1>4. CASE SendFails
  <2>1. /\ reply' \in Seq([pConn : Conns, currSequence : Nat, client : Clients, live : BOOLEAN])
        /\ Len(reply') = Len(reply)
    BY <1>4, FreeSentTypes DEF SendFails
  <2>2. sender' \in SenderState
    BY <1>4, SenderNext DEF SendInv, SendFails
  <2>3. status' \in [Clients -> {"here", "shut", "shutBroken", "reset", "broken"}]
    BY <1>4 DEF SendInv, TypeOK, SendFails
  <2>4. QED
    BY <1>4, <2>1, <2>2, <2>3 DEF SendInv, SendFails, TypeOK, SenderState, list
<1>5. CASE SendRaisesSigpipe
  BY <1>5 DEF SendInv, SendRaisesSigpipe, TypeOK, list, kernel
<1>6. QED
  BY <1>1, <1>2, <1>3, <1>4, <1>5

LEMMA HoldTypes ==
    ASSUME SendInv, HoldReply \/ RegisterWritable
    PROVE  TypeOK'
<1>1. TypeOK /\ pConn \in Conns
  BY InHand DEF SendInv, HoldReply, RegisterWritable, Holding
<1>2. CASE HoldReply
  <2>1. connection' = [connection EXCEPT ![pConn].throwSendMsgCount =
                         connection[pConn].throwSendMsgCount + 1]
    BY <1>2 DEF HoldReply
  <2>2. connection' \in [Conns -> Object]
    <3> DEFINE c == pConn
    <3>1. c \in Conns /\ connection' = [connection EXCEPT ![c].throwSendMsgCount =
                                          connection[c].throwSendMsgCount + 1]
      BY <1>1, <2>1
    <3> HIDE DEF c
    <3>2. c \in Conns /\ 1 \in Int
      BY <3>1
    <3> DEFINE d == 1
    <3>3. d \in Int /\ connection' = [connection EXCEPT ![c].throwSendMsgCount =
                                          connection[c].throwSendMsgCount + d]
      BY <3>1
    <3> HIDE DEF d
    <3>4. Counts(c, 0, d)
      BY <1>1, <3>2, <3>3, CountHeld
    <3>5. QED
      BY <3>4 DEF Counts, Writes
  <2>3. sender' \in SenderState
    BY <1>1, <1>2, SenderNext DEF HoldReply, SenderSteps
  <2>4. UNCHANGED <<m_SendMsgList, m_SendMsgListSize, m_SendMsgListMutex, g_SendMsgPushEventSem,
                    reply, socketOf, writable, status, received, accepted, logic, epoll, worker>>
    BY <1>2 DEF HoldReply, list, kernel
  <2>5. QED
    BY <1>1, <2>2, <2>3, <2>4 DEF TypeOK, SenderState, Object
<1>3. CASE RegisterWritable
  <2>1. sender' \in SenderState
    BY <1>1, <1>3, SenderNext DEF RegisterWritable
  <2>2. /\ writable' \in [Fds -> BOOLEAN]
        /\ worker' \in {"running", "exited", "killed", "undefined"}
    BY <1>1, <1>3 DEF RegisterWritable, TypeOK
  <2>3. UNCHANGED <<m_SendMsgList, m_SendMsgListSize, m_SendMsgListMutex, g_SendMsgPushEventSem,
                    reply, connection, socketOf, status, received, accepted, logic, epoll>>
    BY <1>3 DEF RegisterWritable, list
  <2>4. QED
    BY <1>1, <2>1, <2>2, <2>3 DEF TypeOK, SenderState
<1>4. QED
  BY <1>2, <1>3

LEMMA EpollTypes ==
    ASSUME SendInv, EpollStep \/ FetchHangUp \/ KickFlood
    PROVE  TypeOK'
<1>1. TypeOK /\ (epoll.step # "polling" => epoll.pConn \in Conns)
  BY DEF SendInv, EpollInv
<1>2. CASE ReadRest
  BY <1>1, <1>2 DEF ReadRest, TypeOK, list, kernel
<1>3. CASE CloseSocket
  BY <1>1, <1>3 DEF CloseSocket, TypeOK, list
<1>4. CASE FinishClose
  <2>1. connection' \in [Conns -> Object]
    BY <1>1, <1>4, FinishCloseEffect DEF FinishClose, Writes
  <2>2. epoll' \in [step : {"polling", "reading", "closing", "read"}, pConn : Conns \cup {None},
                    out : BOOLEAN]
    BY <1>1, <1>4 DEF FinishClose, TypeOK
  <2>3. UNCHANGED <<m_SendMsgList, m_SendMsgListSize, m_SendMsgListMutex, g_SendMsgPushEventSem,
                    reply, socketOf, writable, status, received, accepted, sender, logic, worker>>
    BY <1>4 DEF FinishClose, list, kernel
  <2>4. QED
    BY <1>1, <2>1, <2>2, <2>3 DEF TypeOK, Object
<1>5. CASE ReleaseHold
  <2>1. connection' \in [Conns -> Object]
    <3> DEFINE c == epoll.pConn
               d == IF epoll.out THEN -1 ELSE 0
    <3>1. c \in Conns /\ connection[c].throwSendMsgCount \in Int
      BY <1>1, <1>5 DEF ReleaseHold, TypeOK
    <3>2. connection' = [connection EXCEPT ![c].throwSendMsgCount =
                           connection[c].throwSendMsgCount + d]
      <4>1. connection' = [connection EXCEPT ![c].throwSendMsgCount =
              IF epoll.out THEN connection[c].throwSendMsgCount - 1
                           ELSE connection[c].throwSendMsgCount]
        BY <1>5 DEF ReleaseHold
      <4>2. (IF epoll.out THEN connection[c].throwSendMsgCount - 1
                          ELSE connection[c].throwSendMsgCount) =
              connection[c].throwSendMsgCount + d
        BY <3>1
      <4> HIDE DEF c, d
      <4>3. QED
        BY <4>1, <4>2
    <3>3. d \in Int
      OBVIOUS
    <3> HIDE DEF c, d
    <3>4. Counts(c, 0, d)
      BY <1>1, <3>1, <3>2, <3>3, CountHeld
    <3>5. QED
      BY <3>4 DEF Counts, Writes
  <2>2. epoll' \in [step : {"polling", "reading", "closing", "read"}, pConn : Conns \cup {None},
                    out : BOOLEAN]
    BY <1>5 DEF ReleaseHold
  <2>3. UNCHANGED <<m_SendMsgList, m_SendMsgListSize, m_SendMsgListMutex, g_SendMsgPushEventSem,
                    reply, socketOf, writable, status, received, accepted, sender, logic, worker>>
    BY <1>5 DEF ReleaseHold, list, kernel
  <2>4. QED
    BY <1>1, <2>1, <2>2, <2>3 DEF TypeOK, Object
<1>6. CASE FetchHangUp \/ KickFlood
  <2>1. epoll' \in [step : {"polling", "reading", "closing", "read"}, pConn : Conns \cup {None},
                    out : BOOLEAN]
    <3>1. CASE FetchHangUp
      <4>1. PICK c \in Online :
              /\ Attached(c)
              /\ \E out \in {FALSE, writable[connection[c].sockFd]} :
                   epoll' = [step |-> "reading", pConn |-> c, out |-> out]
        BY <3>1 DEF FetchHangUp
      <4>2. c \in Conns /\ connection[c].sockFd \in Fds
        BY <1>1, <4>1 DEF Online, Attached, TypeOK
      <4>3. writable[connection[c].sockFd] \in BOOLEAN
        BY <1>1, <4>2 DEF TypeOK
      <4>4. PICK out \in BOOLEAN : epoll' = [step |-> "reading", pConn |-> c, out |-> out]
        BY <4>1, <4>3
      <4>5. QED
        BY <4>2, <4>4
    <3>2. CASE KickFlood
      BY <3>2 DEF KickFlood, Online
    <3>3. QED
      BY <1>6, <3>1, <3>2
  <2>2. UNCHANGED <<list, reply, connection, kernel, sender, logic, worker>>
    BY <1>6 DEF FetchHangUp, KickFlood
  <2>3. QED
    BY <1>1, <2>1, <2>2 DEF TypeOK, list, kernel
<1>7. QED
  BY <1>2, <1>3, <1>4, <1>5, <1>6 DEF EpollStep

LEMMA RestTypes ==
    ASSUME SendInv, AcceptClient \/ Recycle \/ (\E k \in Clients : HangUp(k))
    PROVE  TypeOK'
<1>1. TypeOK
  BY DEF SendInv
<1>2. CASE AcceptClient
  <2>1. accepted + 1 \in Clients /\ accepted' = accepted + 1 /\ accepted' \in 0 .. MaxClients
    BY <1>1, <1>2, SendConstants DEF AcceptClient, TypeOK, Clients
  <2>2. PICK c \in Conns, f \in Fds :
          /\ socketOf' = [socketOf EXCEPT ![f] = accepted + 1]
          /\ connection' = [connection EXCEPT ![c] =
               [place |-> "online", sockFd |-> f, client |-> accepted + 1,
                currSequence |-> @.currSequence + 1, throwSendMsgCount |-> 0,
                sendMsgListCount |-> 0, pSendMsgMemPointer |-> None, sendMsgLen |-> 0]]
    BY <1>2 DEF AcceptClient
  <2>3. connection' \in [Conns -> Object]
    BY <1>1, <2>1, <2>2, AcceptEffect DEF Serves, Writes
  <2>4. socketOf' \in [Fds -> Clients \cup {None}]
    BY <1>1, <2>1, <2>2 DEF TypeOK
  <2>5. UNCHANGED <<m_SendMsgList, m_SendMsgListSize, m_SendMsgListMutex, g_SendMsgPushEventSem,
                    reply, writable, status, received, sender, logic, epoll, worker>>
    BY <1>2 DEF AcceptClient, list
  <2>6. accepted' \in 0 .. MaxClients /\ connection' \in [Conns -> Object]
        /\ socketOf' \in [Fds -> Clients \cup {None}] /\ TypeOK
    BY <1>1, <2>1, <2>3, <2>4
  <2>7. TypeOK /\ UNCHANGED <<m_SendMsgList, m_SendMsgListSize, m_SendMsgListMutex,
                             g_SendMsgPushEventSem, reply, writable, status, received, sender,
                             logic, epoll, worker>>
    BY <1>1, <2>5
  <2> HIDE DEF Clients, None, NoFd
  <2>8. connection' \in [Conns -> Object']
    BY <2>6, <2>7 DEF Object
  <2>9. (connection \in [Conns -> Object])'
    BY <2>8
  <2>10. (socketOf \in [Fds -> Clients \cup {None}] /\ accepted \in 0 .. MaxClients)'
    BY <2>6
  <2>11. (sender \in SenderState /\ logic \in [LogicThreads -> HandlerState])'
    BY <2>7 DEF TypeOK, SenderState, HandlerState
  <2>12. (/\ m_SendMsgList \in Seq(1 .. Len(reply)) /\ m_SendMsgListSize \in Nat
         /\ m_SendMsgListMutex \in {"free", "sender"} \cup LogicThreads
         /\ g_SendMsgPushEventSem \in Nat /\ reply \in Seq(Reply))'
    BY <2>7 DEF TypeOK, Reply
  <2>13. (/\ writable \in [Fds -> BOOLEAN]
    /\ status \in [Clients -> {"here", "shut", "shutBroken", "reset", "broken"}]
    /\ received \in [Clients -> Seq(1 .. Len(reply))])'
    BY <2>7 DEF TypeOK
  <2>14. (/\ epoll \in [step : {"polling", "reading", "closing", "read"},
                  pConn : Conns \cup {None}, out : BOOLEAN]
    /\ worker \in {"running", "exited", "killed", "undefined"})'
    BY <2>7 DEF TypeOK
  <2>15. QED
    BY <2>9, <2>10, <2>11, <2>12, <2>13, <2>14, Zenon DEF TypeOK, Object, SenderState, HandlerState, Reply
<1>3. CASE Recycle
  <2>1. PICK c \in Conns :
          /\ LET r == connection[c].pSendMsgMemPointer IN
               /\ reply' = IF r = None THEN reply ELSE [reply EXCEPT ![r].live = FALSE]
               /\ worker' \in IF r # None /\ ~reply[r].live THEN {"running", "undefined"}
                                                           ELSE {"running"}
          /\ connection' = [connection EXCEPT ![c].place = "free", ![c].currSequence = @ + 1,
                             ![c].throwSendMsgCount = IF @ > 0 THEN 0 ELSE @]
    BY <1>3 DEF Recycle
  <2>2. connection' \in [Conns -> Object]
    BY <1>1, <2>1, RecycleEffect DEF Writes
  <2>3. connection[c].pSendMsgMemPointer \in 0 .. Len(reply)
    BY <1>1 DEF TypeOK
  <2>4. /\ reply' \in Seq([pConn : Conns, currSequence : Nat, client : Clients, live : BOOLEAN])
        /\ Len(reply') = Len(reply)
    <3>1. CASE connection[c].pSendMsgMemPointer = None
      BY <1>1, <2>1, <3>1 DEF TypeOK
    <3>2. CASE connection[c].pSendMsgMemPointer # None
      BY <1>1, <2>1, <2>3, <3>2, FreeTypes
    <3>3. QED
      BY <3>1, <3>2
  <2>5. /\ UNCHANGED <<m_SendMsgList, m_SendMsgListSize, m_SendMsgListMutex, g_SendMsgPushEventSem,
                       socketOf, writable, status, received, accepted, sender, logic, epoll>>
        /\ worker' \in {"running", "undefined"}
    BY <1>3 DEF Recycle, list, kernel
  <2>6. ListTypes /\ ObjectTypes /\ KernelTypes /\ ThreadTypes
    BY <1>1, TypesInParts
  <2>7. ObjectTypes'
    BY <2>2, <2>4 DEF ObjectTypes, Object, Reply
  <2>8. ListTypes' /\ KernelTypes' /\ ThreadTypes'
    BY <2>4, <2>5, <2>6 DEF ListTypes, KernelTypes, ThreadTypes, SenderState
  <2>9. QED
    BY <2>7, <2>8, TypesInParts
<1>4. CASE \E k \in Clients : HangUp(k)
  <2>1. status' \in [Clients -> {"here", "shut", "shutBroken", "reset", "broken"}]
    BY <1>1, <1>4 DEF HangUp, TypeOK
  <2>2. UNCHANGED <<m_SendMsgList, m_SendMsgListSize, m_SendMsgListMutex, g_SendMsgPushEventSem,
                    reply, connection, socketOf, writable, received, accepted, sender, logic,
                    epoll, worker>>
    BY <1>4 DEF HangUp, list
  <2>3. ListTypes /\ ObjectTypes /\ KernelTypes /\ ThreadTypes
    BY <1>1, TypesInParts
  <2>4. ListTypes' /\ ObjectTypes'
    BY <2>2, <2>3 DEF ListTypes, ObjectTypes, Object
  <2>5. KernelTypes' /\ ThreadTypes'
    BY <2>1, <2>2, <2>3 DEF KernelTypes, ThreadTypes, SenderState
  <2>6. QED
    BY <2>4, <2>5, TypesInParts
<1>5. QED
  BY <1>2, <1>3, <1>4

LEMMA TypeStep ==
    ASSUME SendInv, [Next]_vars
    PROVE  TypeOK'
<1>1. CASE UNCHANGED vars
  <2>1. ListTypes /\ ObjectTypes /\ KernelTypes /\ ThreadTypes
    BY TypesInParts DEF SendInv
  <2>2. ListTypes' /\ ObjectTypes'
    BY <1>1, <2>1 DEF ListTypes, ObjectTypes, Object, vars, list
  <2>3. KernelTypes' /\ ThreadTypes'
    BY <1>1, <2>1 DEF KernelTypes, ThreadTypes, SenderState, vars, kernel
  <2>4. QED
    BY <2>2, <2>3, TypesInParts
<1>2. TypeOK
  BY DEF SendInv
<1>3. ASSUME NEW t \in LogicThreads, HandleMessage(t) \/ PushStep(t) PROVE TypeOK'
  BY <1>3, HandlerTypes
<1>4. CASE SenderStep \/ WakeBySignal
  BY <1>2, <1>4, WaitTypes, DiscardTypes, TakeTypes, SendResultTypes, HoldTypes DEF SenderStep
<1>5. CASE EpollStep \/ FetchHangUp \/ KickFlood
  BY <1>5, EpollTypes
<1>6. CASE AcceptClient \/ Recycle \/ (\E k \in Clients : HangUp(k))
  BY <1>6, RestTypes
<1>7. QED
  BY <1>1, <1>3, <1>4, <1>5, <1>6 DEF Next

-----------------------------------------------------------------------------
(* What a step may change.                                                 *)

LEMMA WhoMoves ==
    ASSUME Next
    PROVE  /\ \/ UNCHANGED logic
              \/ \E t \in LogicThreads :
                   HandleMessage(t) \/ PushReply(t) \/ CutSlowClient(t) \/ QueueFreedReply(t)
           /\ UNCHANGED epoll \/ EpollStep \/ FetchHangUp \/ KickFlood
           /\ UNCHANGED sender \/ SenderStep \/ WakeBySignal
           /\ \/ UNCHANGED <<m_SendMsgList, m_SendMsgListSize>>
              \/ DiscardStale \/ TakeReply
              \/ \E t \in LogicThreads : PushReply(t) \/ QueueFreedReply(t)
           /\ \/ UNCHANGED m_SendMsgListMutex
              \/ LockSendList \/ UnlockSendList
              \/ \E t \in LogicThreads : CutSlowClient(t) \/ QueueFreedReply(t)
           /\ \/ UNCHANGED g_SendMsgPushEventSem
              \/ WakeUp \/ \E t \in LogicThreads : PushReply(t) \/ QueueFreedReply(t)
           /\ \/ UNCHANGED reply
              \/ DiscardStale \/ SendWhole \/ SendFails \/ Recycle
              \/ \E t \in LogicThreads : PushReply(t) \/ CutSlowClient(t)
           /\ \/ UNCHANGED connection
              \/ TakeReply \/ SendSome \/ HoldReply \/ FinishClose \/ ReleaseHold
              \/ AcceptClient \/ Recycle
              \/ \E t \in LogicThreads : PushReply(t) \/ QueueFreedReply(t)
           /\ \/ UNCHANGED socketOf
              \/ AcceptClient \/ CloseSocket \/ \E t \in LogicThreads : CutSlowClient(t)
           /\ \/ UNCHANGED status
              \/ SendWhole \/ SendSome \/ SendFails \/ \E k \in Clients : HangUp(k)
<1>1. CASE SenderStep \/ WakeBySignal
  BY <1>1 DEF SenderStep, WakeUp, WakeBySignal, TestListSize, LockSendList, UnlockSendList,
         ReadFreedReply, DiscardStale, SkipBlocked, TakeReply, SendWhole, SendSome,
         SendWouldBlock, SendFails, SendRaisesSigpipe, HoldReply, RegisterWritable, list, kernel,
         SendParts
<1>2. CASE EpollStep \/ AcceptClient \/ FetchHangUp \/ KickFlood \/ Recycle
  BY <1>2 DEF EpollStep, ReadRest, CloseSocket, FinishClose, ReleaseHold, AcceptClient,
         FetchHangUp, KickFlood, Recycle, list, kernel
<1>3. ASSUME NEW t \in LogicThreads, HandleMessage(t) \/ PushStep(t)
      PROVE  /\ UNCHANGED <<epoll, sender, status>>
             /\ \/ HandleMessage(t) /\ UNCHANGED <<list, reply, connection, socketOf>>
                \/ PushReply(t) /\ UNCHANGED <<m_SendMsgListMutex, socketOf>>
                \/ UNCHANGED <<list, reply, connection, socketOf, logic>>
                \/ /\ CutSlowClient(t)
                   /\ UNCHANGED <<m_SendMsgList, m_SendMsgListSize, g_SendMsgPushEventSem,
                                  connection>>
                \/ QueueFreedReply(t) /\ UNCHANGED <<reply, socketOf>>
  BY <1>3 DEF PushStep, HandleMessage, PushReply, PushOverloaded, CutSlowClient,
         QueueFreedReply, list, kernel
<1>4. ASSUME NEW k \in Clients, HangUp(k)
      PROVE  UNCHANGED <<list, reply, connection, socketOf, sender, logic, epoll>>
  BY <1>4 DEF HangUp
<1>5. CASE \E t \in LogicThreads : HandleMessage(t) \/ PushStep(t)
  <2>1. PICK t \in LogicThreads : HandleMessage(t) \/ PushStep(t)
    BY <1>5
  <2>2. /\ UNCHANGED <<epoll, sender, status>>
        /\ \/ HandleMessage(t) /\ UNCHANGED <<list, reply, connection, socketOf>>
           \/ PushReply(t) /\ UNCHANGED <<m_SendMsgListMutex, socketOf>>
           \/ UNCHANGED <<list, reply, connection, socketOf, logic>>
           \/ /\ CutSlowClient(t)
              /\ UNCHANGED <<m_SendMsgList, m_SendMsgListSize, g_SendMsgPushEventSem, connection>>
           \/ QueueFreedReply(t) /\ UNCHANGED <<reply, socketOf>>
    BY <1>3, <2>1
  <2>3. QED
    BY <2>2 DEF list
<1>6. CASE \E k \in Clients : HangUp(k)
  BY <1>4, <1>6 DEF list
<1>7. QED
  BY <1>1, <1>2, <1>5, <1>6 DEF Next

(* The fields that make an object the one of a client.                     *)
Kept(c) ==
    /\ connection'[c].place = connection[c].place
    /\ connection'[c].sockFd = connection[c].sockFd
    /\ connection'[c].client = connection[c].client
    /\ connection'[c].currSequence = connection[c].currSequence

(* PushReply, TakeReply, SendSome, HoldReply and ReleaseHold, of object c. *)
Counted(c) ==
    /\ \E t \in LogicThreads : PushReply(t) /\ c = logic[t].pConn
    /\ Kept(c)
    /\ connection'[c].throwSendMsgCount = connection[c].throwSendMsgCount
    /\ connection'[c].sendMsgListCount = connection[c].sendMsgListCount + 1
    /\ connection'[c].pSendMsgMemPointer = connection[c].pSendMsgMemPointer
    /\ connection'[c].sendMsgLen = connection[c].sendMsgLen

Taken(c) ==
    /\ TakeReply /\ c = Header.pConn
    /\ Kept(c)
    /\ connection'[c].throwSendMsgCount = connection[c].throwSendMsgCount
    /\ connection'[c].sendMsgListCount = connection[c].sendMsgListCount - 1
    /\ connection'[c].pSendMsgMemPointer = Scanned
    /\ connection'[c].sendMsgLen = ReplyLength

Sent(c) ==
    /\ SendSome /\ c = pConn
    /\ Kept(c)
    /\ connection'[c].throwSendMsgCount = connection[c].throwSendMsgCount
    /\ connection'[c].sendMsgListCount = connection[c].sendMsgListCount
    /\ connection'[c].pSendMsgMemPointer = connection[c].pSendMsgMemPointer

Held(c) ==
    /\ HoldReply /\ c = pConn
    /\ Kept(c)
    /\ connection'[c].throwSendMsgCount = connection[c].throwSendMsgCount + 1
    /\ connection'[c].sendMsgListCount = connection[c].sendMsgListCount
    /\ connection'[c].pSendMsgMemPointer = connection[c].pSendMsgMemPointer
    /\ connection'[c].sendMsgLen = connection[c].sendMsgLen

Released(c) ==
    /\ ReleaseHold /\ c = epoll.pConn
    /\ Kept(c)
    /\ connection'[c].throwSendMsgCount =
          IF epoll.out THEN connection[c].throwSendMsgCount - 1
                       ELSE connection[c].throwSendMsgCount
    /\ connection'[c].sendMsgListCount = connection[c].sendMsgListCount
    /\ connection'[c].pSendMsgMemPointer = connection[c].pSendMsgMemPointer
    /\ connection'[c].sendMsgLen = connection[c].sendMsgLen

(* CloseConnectionToRecy, GetOneToUse and PutOneToFree of object c.        *)
Closes(c) ==
    /\ \/ FinishClose /\ c = epoll.pConn
       \/ \E t \in LogicThreads : QueueFreedReply(t) /\ c = logic[t].pConn
    /\ connection[c].place # "free"
    /\ connection'[c].place = "closed" /\ connection'[c].sockFd = NoFd
    /\ connection'[c].client = connection[c].client
    /\ connection'[c].currSequence =
          IF connection[c].place = "closed" THEN connection[c].currSequence
                                            ELSE connection[c].currSequence + 1
    /\ connection'[c].throwSendMsgCount <= 0
    /\ connection'[c].pSendMsgMemPointer = connection[c].pSendMsgMemPointer
    /\ connection'[c].sendMsgLen = connection[c].sendMsgLen

Opens(c) ==
    /\ AcceptClient
    /\ connection[c].place = "free"
    /\ connection'[c].place = "online" /\ connection'[c].client \in Clients
    /\ connection'[c].currSequence = connection[c].currSequence + 1
    /\ connection'[c].throwSendMsgCount = 0 /\ connection'[c].sendMsgListCount = 0
    /\ connection'[c].pSendMsgMemPointer = None

Frees(c) ==
    /\ Recycle
    /\ connection[c].place = "closed"
    /\ \A t \in LogicThreads : logic[t].step # "idle" => logic[t].pConn # c
    /\ sender.reply # None => pConn # c
    /\ epoll.pConn # c
    /\ connection'[c].place = "free" /\ connection'[c].sockFd = connection[c].sockFd
    /\ connection'[c].currSequence = connection[c].currSequence + 1
    /\ connection'[c].pSendMsgMemPointer = connection[c].pSendMsgMemPointer
    /\ connection[c].pSendMsgMemPointer # None =>
          ~reply'[connection[c].pSendMsgMemPointer].live

Other(c) == connection'[c] = connection[c]

(* Opens(c) as AcceptClient has it, and Frees(c) as Recycle has it.        *)
LEMMA OpensOne ==
    ASSUME SendInv, AcceptClient
    PROVE  \E c \in Conns : Opens(c) /\ \A d \in Conns : d # c => Other(d)
<1>1. TypeOK
  BY DEF SendInv
<1> DEFINE k == accepted + 1
<1>2. PICK c \in Conns, f \in Fds :
        /\ connection[c].place = "free"
        /\ connection' = [connection EXCEPT ![c] =
             [place |-> "online", sockFd |-> f, client |-> k,
              currSequence |-> @.currSequence + 1, throwSendMsgCount |-> 0,
              sendMsgListCount |-> 0, pSendMsgMemPointer |-> None, sendMsgLen |-> 0]]
  BY DEF AcceptClient
<1>3. k \in Clients
  BY <1>1, SendConstants DEF AcceptClient, TypeOK, Clients
<1> HIDE DEF k
<1>4. PICK p \in Object : Serves(c, p, f, k)
  <2>1. connection' = [connection EXCEPT ![c] =
             [place |-> "online", sockFd |-> f, client |-> k,
              currSequence |-> @.currSequence + 1, throwSendMsgCount |-> 0,
              sendMsgListCount |-> 0, pSendMsgMemPointer |-> None, sendMsgLen |-> 0]]
    BY <1>2
  <2> HIDE DEF Object, Clients
  <2>2. QED
    BY <1>1, <1>3, <2>1, AcceptEffect
<1> HIDE DEF Object
<1>5. QED
  BY <1>2, <1>3, <1>4 DEF Opens, Writes, Serves, Other

LEMMA FreesOne ==
    ASSUME SendInv, Recycle
    PROVE  \E c \in Conns : Frees(c) /\ \A d \in Conns : d # c => Other(d)
<1>1. TypeOK /\ (sender.reply # None => sender.step \in Holding)
  BY DEF SendInv, SenderInv
<1>2. PICK c \in Conns :
         /\ connection[c].place = "closed"
         /\ \A t \in LogicThreads : logic[t].step # "idle" => logic[t].pConn # c
         /\ sender.step \in {"sending", "holding", "registering"} => pConn # c
         /\ epoll.pConn # c
         /\ LET r == connection[c].pSendMsgMemPointer IN
              reply' = IF r = None THEN reply ELSE [reply EXCEPT ![r].live = FALSE]
         /\ connection' = [connection EXCEPT ![c].place = "free", ![c].currSequence = @ + 1,
                             ![c].throwSendMsgCount = IF @ > 0 THEN 0 ELSE @]
  BY DEF Recycle
<1>3. PICK p \in Object :
        /\ Writes(c, p)
        /\ p.place = "free" /\ p.sockFd = connection[c].sockFd
        /\ p.currSequence = connection[c].currSequence + 1
        /\ p.pSendMsgMemPointer = connection[c].pSendMsgMemPointer
  BY <1>1, <1>2, RecycleEffect
<1>4. connection[c].pSendMsgMemPointer # None =>
        ~reply'[connection[c].pSendMsgMemPointer].live
  <2> DEFINE r == connection[c].pSendMsgMemPointer
  <2>1. r \in 0 .. Len(reply)
    BY <1>1 DEF TypeOK
  <2>2. r # None => reply' = [reply EXCEPT ![r].live = FALSE]
    BY <1>2
  <2> HIDE DEF r
  <2>3. r # None => reply'[r].live = FALSE
    BY <1>1, <2>1, <2>2, FreeReply
  <2>4. QED
    BY <2>3 DEF r
<1> HIDE DEF Object
<1>5. QED
  BY <1>1, <1>2, <1>3, <1>4 DEF Frees, Writes, Other, Holding

LEMMA ClosesOne ==
    ASSUME SendInv, NEW c \in Conns,
           \/ FinishClose /\ c = epoll.pConn
           \/ \E t \in LogicThreads : QueueFreedReply(t) /\ c = logic[t].pConn
    PROVE  Closes(c) /\ \A d \in Conns : d # c => Other(d)
<1>1. TypeOK
  BY DEF SendInv
<1>2. connection[c].place # "free"
  <2>1. CASE FinishClose /\ c = epoll.pConn
    BY <2>1 DEF SendInv, EpollInv, FinishClose
  <2>2. CASE \E t \in LogicThreads : QueueFreedReply(t) /\ c = logic[t].pConn
    BY <2>2 DEF SendInv, HeaderInv, HandlerInv, QueueFreedReply
  <2>3. QED
    BY <2>1, <2>2
<1>3. PICK p \in Object :
             LET o == connection[c] IN
             /\ Writes(c, p)
             /\ p.place = (IF o.place = "closed" THEN o.place ELSE "closed")
             /\ p.sockFd = NoFd /\ p.client = o.client
             /\ p.currSequence = (IF o.place = "closed" THEN o.currSequence
                                                        ELSE o.currSequence + 1)
             /\ p.throwSendMsgCount <= 0
             /\ p.pSendMsgMemPointer = o.pSendMsgMemPointer /\ p.sendMsgLen = o.sendMsgLen
  <2>1. CASE FinishClose /\ c = epoll.pConn
    <3>1. connection' = [connection EXCEPT ![c] = Closed(@)]
      BY <2>1 DEF FinishClose
    <3>2. QED
      BY <1>1, <3>1, FinishCloseEffect
  <2>2. CASE \E t \in LogicThreads : QueueFreedReply(t) /\ c = logic[t].pConn
    <3>1. PICK closed : /\ closed = Closed(connection[c])
                        /\ connection' = [connection EXCEPT ![c] =
                                            [closed EXCEPT !.sendMsgListCount = @ + 1]]
      BY <2>2 DEF QueueFreedReply
    <3>2. QED
      BY <1>1, <3>1, QueueFreedEffect
  <2>3. QED
    BY <2>1, <2>2
<1> HIDE DEF Object
<1>4. QED
  BY <1>2, <1>3 DEF Closes, Writes, Other

LEMMA CountsOne ==
    ASSUME SendInv, NEW t \in LogicThreads, PushReply(t)
    PROVE  Counted(logic[t].pConn) /\ \A d \in Conns : d # logic[t].pConn => Other(d)
<1> DEFINE c == logic[t].pConn
<1>1. TypeOK /\ c \in Conns /\ connection' = [connection EXCEPT ![c].sendMsgListCount = @ + 1]
  BY DEF SendInv, HeaderInv, HandlerInv, PushReply, QueueReply
<1>2. Counts(c, 1, 0)
  BY <1>1, CountWaiting
<1>3. connection[c].throwSendMsgCount + 0 = connection[c].throwSendMsgCount
  BY <1>1 DEF TypeOK
<1> HIDE DEF Object
<1>4. QED
  BY <1>2, <1>3 DEF Counts, OnlyCounts, Counted, Writes, Kept, Other

LEMMA TakesOne ==
    ASSUME SendInv, TakeReply
    PROVE  Taken(Header.pConn) /\ \A d \in Conns : d # Header.pConn => Other(d)
<1>1. TypeOK /\ Header.pConn \in Conns /\ Scanned \in 0 .. Len(reply)
  <2>1. Scanned \in 1 .. Len(reply) => Scanned \in 0 .. Len(reply)
    OBVIOUS
  <2>2. QED
    BY <2>1, Looks DEF SendInv, TakeReply
<1>2. \E p \in Object :
             LET o == connection[Header.pConn] IN
             /\ Writes(Header.pConn, p)
             /\ p.place = o.place /\ p.sockFd = o.sockFd /\ p.client = o.client
             /\ p.currSequence = o.currSequence /\ p.throwSendMsgCount = o.throwSendMsgCount
             /\ p.sendMsgListCount = o.sendMsgListCount - 1
             /\ p.pSendMsgMemPointer = Scanned /\ p.sendMsgLen = ReplyLength
  BY <1>1, TakeEffect DEF TakeReply
<1> HIDE DEF Object
<1>3. QED
  BY <1>2 DEF Taken, Writes, Kept, Other

LEMMA SendsOne ==
    ASSUME SendInv, SendSome
    PROVE  Sent(pConn) /\ \A d \in Conns : d # pConn => Other(d)
<1>1. PICK n \in 1 .. ReplyLength - 1 :
          /\ SendParts(n)
          /\ connection' = [connection EXCEPT ![pConn].sendMsgLen = @ - n]
  BY DEF SendSome
<1>2. n \in 0 .. ReplyLength
  BY SendConstants
<1>3. TypeOK /\ pConn \in Conns /\ connection[pConn].sendMsgLen = ReplyLength
  BY <1>1, InHand DEF SendParts, SendInv, SenderInv, Holding
<1>4. \E p \in Object :
             LET o == connection[pConn] IN
             /\ Writes(pConn, p)
             /\ p.place = o.place /\ p.sockFd = o.sockFd /\ p.client = o.client
             /\ p.currSequence = o.currSequence /\ p.throwSendMsgCount = o.throwSendMsgCount
             /\ p.sendMsgListCount = o.sendMsgListCount
             /\ p.pSendMsgMemPointer = o.pSendMsgMemPointer
  BY <1>1, <1>2, <1>3, SendSomeEffect
<1> HIDE DEF Object
<1>5. QED
  BY <1>4 DEF Sent, Writes, Kept, Other

LEMMA HoldsOne ==
    ASSUME SendInv, HoldReply
    PROVE  Held(pConn) /\ \A d \in Conns : d # pConn => Other(d)
<1>1. TypeOK /\ pConn \in Conns
  BY InHand DEF SendInv, HoldReply, Holding
<1> DEFINE c == pConn
           d == 1
<1>2. c \in Conns /\ d \in Int /\ connection' = [connection EXCEPT ![c].throwSendMsgCount =
                                          connection[c].throwSendMsgCount + d]
  BY <1>1 DEF HoldReply
<1>3. connection[c].sendMsgListCount + 0 = connection[c].sendMsgListCount
  BY <1>1 DEF TypeOK
<1> HIDE DEF c, d
<1>4. Counts(c, 0, d)
  BY <1>1, <1>2, CountHeld
<1> HIDE DEF Object
<1>5. QED
  BY <1>3, <1>4 DEF Counts, OnlyCounts, Held, Writes, Kept, Other, c, d

LEMMA ReleasesOne ==
    ASSUME SendInv, ReleaseHold
    PROVE  Released(epoll.pConn) /\ \A d \in Conns : d # epoll.pConn => Other(d)
<1> DEFINE c == epoll.pConn
           d == IF epoll.out THEN -1 ELSE 0
<1>1. TypeOK /\ c \in Conns /\ d \in Int
  BY DEF SendInv, EpollInv, ReleaseHold
<1>2. /\ connection[c].sendMsgListCount + 0 = connection[c].sendMsgListCount
      /\ connection[c].throwSendMsgCount + d = IF epoll.out
            THEN connection[c].throwSendMsgCount - 1 ELSE connection[c].throwSendMsgCount
  BY <1>1 DEF TypeOK
<1>3. connection' = [connection EXCEPT ![c].throwSendMsgCount =
                       connection[c].throwSendMsgCount + d]
  <2>1. connection' = [connection EXCEPT ![c].throwSendMsgCount =
          IF epoll.out THEN connection[c].throwSendMsgCount - 1
                       ELSE connection[c].throwSendMsgCount]
    BY DEF ReleaseHold
  <2> HIDE DEF c, d
  <2>2. QED
    BY <1>2, <2>1
<1> HIDE DEF d
<1>4. Counts(c, 0, d)
  BY <1>1, <1>3, CountHeld
<1> HIDE DEF Object
<1>5. QED
  BY <1>2, <1>4 DEF Counts, OnlyCounts, Released, Writes, Kept, Other

(* All that a step does to an object.                                      *)
LEMMA ObjectMoves ==
    ASSUME SendInv, Next, NEW c \in Conns
    PROVE  \/ Other(c) \/ Counted(c) \/ Taken(c) \/ Sent(c) \/ Held(c) \/ Released(c)
           \/ Closes(c) \/ Opens(c) \/ Frees(c)
<1>1. CASE UNCHANGED connection
  BY <1>1 DEF Other
<1>2. CASE TakeReply
  BY <1>2, TakesOne
<1>3. CASE SendSome
  BY <1>3, SendsOne
<1>4. CASE HoldReply
  BY <1>4, HoldsOne
<1>5. CASE FinishClose
  <2>1. epoll.pConn \in Conns
    BY <1>5 DEF SendInv, EpollInv, FinishClose
  <2>2. QED
    BY <1>5, <2>1, ClosesOne
<1>6. CASE ReleaseHold
  BY <1>6, ReleasesOne
<1>7. CASE AcceptClient
  BY <1>7, OpensOne
<1>8. CASE Recycle
  BY <1>8, FreesOne
<1>9. ASSUME NEW t \in LogicThreads, PushReply(t)
      PROVE  Other(c) \/ Counted(c)
  BY <1>9, CountsOne
<1>10. ASSUME NEW t \in LogicThreads, QueueFreedReply(t)
       PROVE  Other(c) \/ Closes(c)
  <2>1. logic[t].pConn \in Conns
    BY <1>10 DEF SendInv, HeaderInv, HandlerInv, QueueFreedReply
  <2>2. QED
    BY <1>10, <2>1, ClosesOne
<1>11. QED
  BY <1>1, <1>2, <1>3, <1>4, <1>5, <1>6, <1>7, <1>8, <1>9, <1>10, WhoMoves

HeadersStay ==
    /\ Len(reply) \in Nat /\ Len(reply') \in Nat /\ Len(reply) <= Len(reply')
    /\ \A r \in 1 .. Len(reply) :
         /\ reply'[r].pConn = reply[r].pConn
         /\ reply'[r].currSequence = reply[r].currSequence
         /\ reply'[r].client = reply[r].client
         /\ reply'[r].live => reply[r].live

(* A reply gets a header once, and its memory is freed once.               *)
LEMMA RepliesMove ==
    ASSUME SendInv, Next
    PROVE  HeadersStay
<1>1. TypeOK /\ Len(reply) \in Nat
  BY LenProperties DEF SendInv, TypeOK
<1>2. CASE UNCHANGED reply
  BY <1>1, <1>2 DEF HeadersStay
<1>3. ASSUME NEW r \in 1 .. Len(reply), reply' = [reply EXCEPT ![r].live = FALSE]
      PROVE  HeadersStay
  <2>1. r \in 0 .. Len(reply) /\ r # None
    BY <1>1 DEF None
  <2>2. /\ Len(reply') = Len(reply) /\ reply'[r].live = FALSE
        /\ \A i \in 1 .. Len(reply) :
                /\ reply'[i].pConn = reply[i].pConn
                /\ reply'[i].currSequence = reply[i].currSequence
                /\ reply'[i].client = reply[i].client
                /\ i # r => reply'[i].live = reply[i].live
    BY <1>1, <1>3, <2>1, FreeReply
  <2>3. QED
    BY <1>1, <2>2 DEF HeadersStay
<1>4. CASE DiscardStale
  BY <1>1, <1>3, <1>4, Looks DEF DiscardStale
<1>5. CASE SendWhole \/ SendFails
  BY <1>3, <1>5, FreeSentTypes DEF SendWhole, SendFails, SendParts
<1>6. CASE Recycle
  <2>1. PICK c \in Conns :
          LET r == connection[c].pSendMsgMemPointer IN
          reply' = IF r = None THEN reply ELSE [reply EXCEPT ![r].live = FALSE]
    BY <1>6 DEF Recycle
  <2>2. connection[c].pSendMsgMemPointer \in 0 .. Len(reply)
    BY <1>1 DEF TypeOK
  <2>3. connection[c].pSendMsgMemPointer # None =>
          connection[c].pSendMsgMemPointer \in 1 .. Len(reply)
    BY <1>1, <2>2 DEF None
  <2>4. QED
    BY <1>2, <1>3, <2>1, <2>3
<1>7. ASSUME NEW t \in LogicThreads, PushReply(t) \/ CutSlowClient(t)
      PROVE  HeadersStay
  <2>1. PICK live \in BOOLEAN : logic[t].step # "idle" /\ reply' = Append(reply, ReplyOf(t, live))
    BY <1>7 DEF PushReply, CutSlowClient
  <2> DEFINE header == ReplyOf(t, live)
  <2>2. header \in Reply
    BY <2>1, HandlerFields
  <2>3. reply' = Append(reply, header)
    BY <2>1
  <2> HIDE DEF header
  <2>4. /\ Len(reply') = Len(reply) + 1
        /\ \A r \in 1 .. Len(reply) : reply'[r] = reply[r]
    BY <1>1, <2>2, <2>3, MoreReplies
  <2>5. QED
    BY <1>1, <2>4 DEF HeadersStay
<1>8. QED
  BY <1>2, <1>4, <1>5, <1>6, <1>7, WhoMoves

(* A client that has hung up stays so, and one that has shut down its side *)
(* does not reset the connection afterwards.                               *)
LEMMA ClientsLeave ==
    ASSUME SendInv, Next, NEW k \in Clients
    PROVE  /\ HungUp(k) => HungUp(k)'
           /\ ShutDown(k) => ShutDown(k)'
<1>1. status \in [Clients -> {"here", "shut", "shutBroken", "reset", "broken"}]
  BY DEF SendInv, TypeOK
<1>2. CASE UNCHANGED status
  BY <1>2 DEF HungUp, ShutDown
<1>3. ASSUME NEW n, SendParts(n)
      PROVE  /\ HungUp(k) => HungUp(k)'
             /\ ShutDown(k) => ShutDown(k)'
  BY <1>1, <1>3 DEF SendParts, HungUp, ShutDown
<1>4. CASE SendWhole \/ SendSome
  BY <1>3, <1>4 DEF SendWhole, SendSome
<1>5. CASE SendFails
  BY <1>1, <1>5 DEF SendFails, HungUp, ShutDown
<1>6. CASE \E j \in Clients : HangUp(j)
  BY <1>1, <1>6 DEF HangUp, HungUp, ShutDown
<1>7. QED
  BY <1>2, <1>4, <1>5, <1>6, WhoMoves

(* What is known of a header stays known of it.                            *)
LEMMA KnownStays ==
    ASSUME SendInv, Next, NEW c \in Conns, NEW n \in Nat, NEW k, KnownAs(c, n, k)
    PROVE  KnownAs(c, n, k)'
<1>1. connection[c].currSequence \in Nat
  BY DEF SendInv, TypeOK
<1>2. CASE Kept(c) \/ Other(c)
  BY <1>2 DEF KnownAs, Kept, Other
<1>3. CASE Closes(c)
  BY <1>1, <1>3 DEF KnownAs, Closes
<1>4. CASE Opens(c) \/ Frees(c)
  BY <1>1, <1>4 DEF KnownAs, Opens, Frees
<1>5. QED
  BY <1>2, <1>3, <1>4, ObjectMoves DEF Counted, Taken, Sent, Held, Released

(* The object a thread works with does not become free and is not reused.  *)
LEMMA HandlersObject ==
    ASSUME SendInv, Next, NEW t \in LogicThreads, logic[t].step # "idle"
    PROVE  LET c == logic[t].pConn IN
           /\ connection'[c].place # "free"
           /\ connection'[c].place = "online" => connection[c].place = "online" /\ Kept(c)
<1> DEFINE c == logic[t].pConn
<1>1. c \in Conns /\ connection[c].place # "free"
  BY DEF SendInv, HeaderInv, HandlerInv
<1>2. ~Opens(c) /\ ~Frees(c)
  BY <1>1 DEF Opens, Frees
<1> HIDE DEF c
<1>3. CASE Kept(c) \/ Other(c)
  BY <1>1, <1>3 DEF Kept, Other, c
<1>4. CASE Closes(c)
  BY <1>4 DEF Closes, c
<1>5. QED
  BY <1>1, <1>2, <1>3, <1>4, ObjectMoves DEF Counted, Taken, Sent, Held, Released

LEMMA HandlerStep ==
    ASSUME SendInv, Next
    PROVE  HandlerInv'
<1> SUFFICES ASSUME NEW t \in LogicThreads, logic'[t].step # "idle"
             PROVE  /\ logic'[t].pConn \in Conns /\ logic'[t].client \in Clients
                    /\ connection'[logic'[t].pConn].place # "free"
                    /\ Known(logic[t])'
                    /\ connection'[logic'[t].pConn].place = "online" =>
                         logic'[t].currSequence = connection'[logic'[t].pConn].currSequence
  BY DEF HandlerInv
<1>1. logic \in [LogicThreads -> HandlerState]
  BY DEF SendInv, TypeOK, HandlerState
<1>2. CASE /\ logic[t].step # "idle" /\ logic'[t].pConn = logic[t].pConn
           /\ logic'[t].client = logic[t].client
           /\ logic'[t].currSequence = logic[t].currSequence
  <2>1. /\ logic[t].pConn \in Conns /\ logic[t].client \in Clients
        /\ logic[t].currSequence \in Nat
        /\ KnownAs(logic[t].pConn, logic[t].currSequence, logic[t].client)
        /\ connection[logic[t].pConn].place = "online" =>
              logic[t].currSequence = connection[logic[t].pConn].currSequence
    BY <1>1, <1>2 DEF SendInv, HeaderInv, HandlerInv, Known, HandlerState
  <2>2. /\ connection'[logic[t].pConn].place # "free"
        /\ connection'[logic[t].pConn].place = "online" =>
             connection[logic[t].pConn].place = "online" /\ Kept(logic[t].pConn)
    BY <1>2, HandlersObject
  <2> DEFINE c == logic[t].pConn
             n == logic[t].currSequence
             k == logic[t].client
  <2>3. c \in Conns /\ n \in Nat /\ KnownAs(c, n, k)
    BY <2>1
  <2> HIDE DEF c, n, k
  <2>4. PICK d \in Conns, m \in Nat, j \in {k} : d = c /\ m = n /\ KnownAs(d, m, j)
    BY <2>3
  <2>5. KnownAs(d, m, j)'
    BY <2>4, KnownStays
  <2>6. Known(logic[t])'
    BY <1>2, <2>4, <2>5 DEF Known, KnownAs, c, n, k
  <2>7. QED
    BY <1>2, <2>1, <2>2, <2>6 DEF Kept
<1>3. CASE UNCHANGED logic
  BY <1>2, <1>3
<1>4. ASSUME NEW u \in LogicThreads, HandleMessage(u)
      PROVE  \/ logic'[t] = logic[t]
             \/ \E c \in Online :
                  /\ logic'[t] = [step |-> "replying", pConn |-> c,
                                 currSequence |-> connection[c].currSequence,
                                 client |-> connection[c].client]
                  /\ UNCHANGED connection
  BY <1>1, <1>4 DEF HandleMessage
<1>5. ASSUME NEW u \in LogicThreads, PushReply(u) \/ QueueFreedReply(u)
      PROVE  logic'[t] = logic[t]
  <2>1. logic' = [logic EXCEPT ![u] = Idle]
    BY <1>5 DEF PushReply, QueueFreedReply
  <2>2. Idle.step = "idle"
    BY DEF Idle
  <2>3. QED
    BY <1>1, <2>1, <2>2
<1>6. ASSUME NEW u \in LogicThreads, CutSlowClient(u)
      PROVE  /\ logic[t].step # "idle" /\ logic'[t].pConn = logic[t].pConn
             /\ logic'[t].client = logic[t].client
             /\ logic'[t].currSequence = logic[t].currSequence
  BY <1>1, <1>6 DEF CutSlowClient, HandlerState
<1>7. ASSUME NEW c \in Online, UNCHANGED connection,
             logic'[t] = [step |-> "replying", pConn |-> c,
                          currSequence |-> connection[c].currSequence,
                          client |-> connection[c].client]
      PROVE  /\ logic'[t].pConn \in Conns /\ logic'[t].client \in Clients
             /\ connection'[logic'[t].pConn].place # "free"
             /\ Known(logic[t])'
             /\ connection'[logic'[t].pConn].place = "online" =>
                  logic'[t].currSequence = connection'[logic'[t].pConn].currSequence
  <2>1. /\ c \in Conns /\ connection[c].place = "online" /\ connection[c].client \in Clients
        /\ connection[c].currSequence \in Nat
    BY DEF Online, SendInv, TypeOK, PointerInv
  <2>2. QED
    BY <1>7, <2>1 DEF Known, KnownAs
<1>8. QED
  BY <1>2, <1>3, <1>4, <1>5, <1>6, <1>7, WhoMoves

(* A header that was not there is the one of a reply made in this step.    *)
LEMMA NewReply ==
    ASSUME SendInv, Next, NEW r \in 1 .. Len(reply'), r \notin 1 .. Len(reply)
    PROVE  \E t \in LogicThreads :
             /\ logic[t].step # "idle"
             /\ Len(reply) \in Nat /\ r = Len(reply) + 1 /\ Len(reply') = r
             /\ \/ PushReply(t) /\ reply'[r] = ReplyOf(t, TRUE)
                \/ CutSlowClient(t) /\ reply'[r] = ReplyOf(t, FALSE)
<1>1. TypeOK /\ Len(reply) \in Nat /\ reply \in Seq(Reply)
  BY LenProperties DEF SendInv, TypeOK, Reply
<1>2. ASSUME NEW t \in LogicThreads, NEW live \in BOOLEAN,
             logic[t].step # "idle", reply' = Append(reply, ReplyOf(t, live))
      PROVE  /\ r = Len(reply) + 1 /\ Len(reply') = r /\ reply'[r] = ReplyOf(t, live)
  <2> DEFINE header == ReplyOf(t, live)
  <2>2. header \in Reply
    BY <1>2, HandlerFields
  <2>3. reply' = Append(reply, header)
    BY <1>2
  <2> HIDE DEF header
  <2>4. /\ Len(reply') = Len(reply) + 1 /\ reply'[Len(reply')] = header
    BY <1>1, <2>2, <2>3, MoreReplies
  <2>5. r = Len(reply')
    BY <1>1, <2>4
  <2>6. QED
    BY <2>4, <2>5 DEF header
<1>3. Len(reply') # Len(reply) /\ ~ UNCHANGED reply
  OBVIOUS
<1>4. ASSUME NEW i \in 0 .. Len(reply), reply' = [reply EXCEPT ![i].live = FALSE]
      PROVE  FALSE
  BY <1>1, <1>3, <1>4, FreeReply
<1>5. ~DiscardStale
  <2>1. DiscardStale => Scanned \in 1 .. Len(reply)
    BY <1>1, Looks DEF DiscardStale
  <2>2. QED
    BY <1>4, <2>1 DEF DiscardStale
<1>6. ~SendWhole /\ ~SendFails
  BY <1>3, FreeSentTypes DEF SendWhole, SendFails, SendParts
<1>7. ~Recycle
  BY <1>1, <1>3, <1>4 DEF Recycle, TypeOK
<1>8. PICK t \in LogicThreads : PushReply(t) \/ CutSlowClient(t)
  BY <1>3, <1>5, <1>6, <1>7, WhoMoves
<1>9. /\ logic[t].step # "idle"
      /\ PushReply(t) => reply' = Append(reply, ReplyOf(t, TRUE))
      /\ CutSlowClient(t) => reply' = Append(reply, ReplyOf(t, FALSE))
  BY <1>8 DEF PushReply, CutSlowClient
<1>10. CASE PushReply(t)
  BY <1>1, <1>2, <1>9, <1>10
<1>11. CASE CutSlowClient(t)
  BY <1>1, <1>2, <1>9, <1>11
<1>12. QED
  BY <1>8, <1>10, <1>11

LEMMA RepliesStep ==
    ASSUME SendInv, Next
    PROVE  RepliesInv'
<1> SUFFICES ASSUME NEW r \in 1 .. Len(reply')
             PROVE  Known(reply[r])'
  BY DEF RepliesInv
<1>1. TypeOK /\ Len(reply) \in Nat /\ reply \in Seq(Reply)
  BY LenProperties DEF SendInv, TypeOK, Reply
<1>2. CASE r \in 1 .. Len(reply)
  <2>1. /\ reply'[r].pConn = reply[r].pConn
        /\ reply'[r].currSequence = reply[r].currSequence
        /\ reply'[r].client = reply[r].client
    BY <1>2, RepliesMove DEF HeadersStay
  <2>2. reply[r] \in Reply /\ Known(reply[r])
    BY <1>1, <1>2, ElementOfSeq DEF SendInv, HeaderInv, RepliesInv
  <2> DEFINE c == reply[r].pConn
             n == reply[r].currSequence
             k == reply[r].client
  <2>3. c \in Conns /\ n \in Nat /\ KnownAs(c, n, k)
    BY <2>2 DEF Known, Reply
  <2> HIDE DEF c, n, k
  <2>4. PICK d \in Conns, m \in Nat, j \in {k} : d = c /\ m = n /\ KnownAs(d, m, j)
    BY <2>3
  <2>5. KnownAs(d, m, j)'
    BY <2>4, KnownStays
  <2>6. QED
    BY <2>1, <2>4, <2>5 DEF Known, KnownAs, c, n, k
<1>3. CASE r \notin 1 .. Len(reply)
  <2>1. PICK t \in LogicThreads, live \in BOOLEAN :
          logic[t].step # "idle" /\ reply'[r] = ReplyOf(t, live)
    BY <1>3, NewReply
  <2>2. /\ ReplyOf(t, live).pConn = logic[t].pConn
        /\ ReplyOf(t, live).client = logic[t].client
        /\ ReplyOf(t, live).currSequence = logic[t].currSequence
        /\ logic[t].pConn \in Conns /\ ReplyOf(t, live).currSequence \in Nat
    BY <2>1, HandlerFields DEF Reply
  <2>3. Known(logic[t])
    BY <2>1 DEF SendInv, HeaderInv, HandlerInv
  <2> DEFINE c == logic[t].pConn
             n == logic[t].currSequence
             k == logic[t].client
  <2>4. c \in Conns /\ n \in Nat /\ KnownAs(c, n, k)
    BY <2>2, <2>3 DEF Known
  <2> HIDE DEF c, n, k
  <2>5. PICK d \in Conns, m \in Nat, j \in {k} : d = c /\ m = n /\ KnownAs(d, m, j)
    BY <2>4
  <2>6. KnownAs(d, m, j)'
    BY <2>5, KnownStays
  <2>7. QED
    BY <2>1, <2>2, <2>5, <2>6 DEF Known, KnownAs, c, n, k
<1>4. QED
  BY <1>2, <1>3

LEMMA CutStep ==
    ASSUME SendInv, Next
    PROVE  CutInv'
<1> SUFFICES ASSUME NEW t \in LogicThreads, logic'[t].step = "cutting"
             PROVE  /\ m_SendMsgListMutex' = t
                    /\ Len(reply') > 0 /\ reply'[Len(reply')].pConn = logic'[t].pConn
  BY DEF CutInv
<1>1. /\ logic \in [LogicThreads -> HandlerState] /\ Len(reply) \in Nat
      /\ \A u \in LogicThreads : u # "free" /\ u # "sender"
  BY LenProperties, SendConstants DEF SendInv, TypeOK, HandlerState
<1>2. ASSUME NEW u \in LogicThreads, CutSlowClient(u), t # u
      PROVE  logic'[t] = logic[t]
  BY <1>1, <1>2 DEF CutSlowClient
<1>3. ASSUME CutSlowClient(t)
      PROVE  /\ m_SendMsgListMutex' = t
             /\ Len(reply') > 0 /\ reply'[Len(reply')].pConn = logic'[t].pConn
  <2> DEFINE header == ReplyOf(t, FALSE)
  <2>1. /\ header \in Reply /\ header.pConn = logic[t].pConn
        /\ reply' = Append(reply, header) /\ m_SendMsgListMutex' = t
    BY <1>3, HandlerFields DEF CutSlowClient
  <2>2. logic'[t].pConn = logic[t].pConn
    BY <1>1, <1>3 DEF CutSlowClient, HandlerState
  <2> HIDE DEF header
  <2>3. Len(reply') = Len(reply) + 1 /\ reply'[Len(reply')] = header
    BY <2>1, MoreReplies DEF SendInv
  <2>4. QED
    BY <1>1, <2>1, <2>2, <2>3
<1>4. ASSUME logic'[t] = logic[t]
      PROVE  /\ m_SendMsgListMutex' = t
             /\ Len(reply') > 0 /\ reply'[Len(reply')].pConn = logic'[t].pConn
  <2>1. /\ m_SendMsgListMutex = t
        /\ Len(reply) > 0 /\ reply[Len(reply)].pConn = logic[t].pConn
    BY <1>4 DEF SendInv, HeaderInv, CutInv
  <2>2. \A u \in LogicThreads : ~PushReply(u) /\ ~CutSlowClient(u)
    BY <1>1, <2>1 DEF PushReply, CutSlowClient
  <2>3. ASSUME NEW u \in LogicThreads PROVE ~QueueFreedReply(u)
    <3>1. SUFFICES ASSUME QueueFreedReply(u) PROVE FALSE
      OBVIOUS
    <3>2. logic[u].step = "cutting" /\ logic' = [logic EXCEPT ![u] = Idle]
      BY <3>1 DEF QueueFreedReply
    <3>3. u = t
      BY <2>1, <3>2 DEF SendInv, HeaderInv, CutInv
    <3>4. logic'[t] = Idle
      BY <1>1, <3>2, <3>3
    <3>5. QED
      BY <3>4 DEF Idle
  <2>4. m_SendMsgListMutex' = t
    <3>1. ~LockSendList /\ ~UnlockSendList
      BY <1>1, <2>1 DEF LockSendList, UnlockSendList, SendInv, SenderInv
    <3>2. QED
      BY <2>1, <2>2, <2>3, <3>1, WhoMoves
  <2>5. Len(reply') = Len(reply)
    <3>1. Len(reply') \in Nat /\ Len(reply) <= Len(reply')
      BY RepliesMove DEF HeadersStay
    <3>2. Len(reply') \in 1 .. Len(reply') => Len(reply') \in 1 .. Len(reply)
      BY <2>2, NewReply
    <3>3. QED
      BY <1>1, <2>1, <3>1, <3>2
  <2>6. Len(reply) \in 1 .. Len(reply)
    BY <1>1, <2>1
  <2>7. QED
    BY <1>4, <2>1, <2>4, <2>5, <2>6, RepliesMove DEF HeadersStay
<1>5. CASE UNCHANGED logic
  BY <1>4, <1>5
<1>6. ASSUME NEW u \in LogicThreads, HandleMessage(u) \/ PushReply(u) \/ QueueFreedReply(u)
      PROVE  logic'[t] = logic[t]
  <2>1. CASE HandleMessage(u)
    <3>1. PICK c \in Online : logic' = [logic EXCEPT ![u] =
            [step |-> "replying", pConn |-> c, currSequence |-> connection[c].currSequence,
             client |-> connection[c].client]]
      BY <2>1 DEF HandleMessage
    <3>2. QED
      BY <1>1, <3>1
  <2>2. CASE PushReply(u) \/ QueueFreedReply(u)
    <3>1. logic' = [logic EXCEPT ![u] = Idle] /\ Idle.step = "idle"
      BY <2>2 DEF PushReply, QueueFreedReply, Idle
    <3>2. QED
      BY <1>1, <3>1
  <2>3. QED
    BY <1>6, <2>1, <2>2
<1>7. QED
  BY <1>2, <1>3, <1>4, <1>5, <1>6, WhoMoves

(* The reply in the sender's hand keeps its header.                        *)
LEMMA HandKept ==
    ASSUME SendInv, Next, sender.reply # None
    PROVE  /\ sender.step \in Holding /\ sender.reply \in 1 .. Len(reply)
           /\ pConn \in Conns /\ connection[pConn].place # "free"
           /\ reply'[sender.reply].pConn = pConn
           /\ reply'[sender.reply].client = reply[sender.reply].client
<1>1. sender.step \in Holding /\ connection[pConn].place # "free"
  BY DEF SendInv, SenderInv
<1>2. sender.reply \in 1 .. Len(reply) /\ pConn \in Conns
  BY <1>1, InHand DEF SendInv
<1>3. QED
  BY <1>1, <1>2, RepliesMove DEF HeadersStay, pConn

LEMMA BackFields ==
    ASSUME TypeOK
    PROVE  /\ BackToScan.step = "scanning" /\ BackToScan.reply = None
           /\ BackToScan.pos = sender.pos /\ BackToScan.fd = NoFd
<1>1. sender \in SenderState
  BY DEF TypeOK, SenderState
<1>2. QED
  BY <1>1 DEF BackToScan, SenderState

(* While the sender does something else, the object it works for is closed *)
(* at most.                                                                *)
LEMMA OthersSpare ==
    ASSUME SendInv, Next, UNCHANGED sender, sender.reply # None
    PROVE  /\ connection'[pConn].place # "free"
           /\ connection'[pConn].pSendMsgMemPointer = connection[pConn].pSendMsgMemPointer
           /\ connection'[pConn].sendMsgLen = connection[pConn].sendMsgLen
           /\ connection[pConn].throwSendMsgCount <= 0 => connection'[pConn].throwSendMsgCount <= 0
           /\ connection'[pConn].place = "online" => connection[pConn].place = "online"
<1> DEFINE c == pConn
<1>1. /\ sender.step \in Holding /\ c \in Conns /\ connection[c].place # "free"
      /\ sender \in SenderState /\ connection[c].throwSendMsgCount \in Int
  BY HandKept DEF SendInv, TypeOK, SenderState
<1>2. ~Taken(c) /\ ~Sent(c) /\ ~Held(c)
  <2>1. ~TakeReply
    BY <1>1 DEF TakeReply, Scans, Holding
  <2>2. ~SendSome
    <3>1. SUFFICES ASSUME SendSome PROVE FALSE
      OBVIOUS
    <3>2. sender.step = "sending" /\ sender' = [sender EXCEPT !.step = "holding"]
      BY <3>1 DEF SendSome, SendParts
    <3>3. QED
      BY <1>1, <3>2 DEF SenderState
  <2>3. ~HoldReply
    <3>1. SUFFICES ASSUME HoldReply PROVE FALSE
      OBVIOUS
    <3>2. sender.step = "holding" /\ sender' = [sender EXCEPT !.step = "registering"]
      BY <3>1 DEF HoldReply
    <3>3. QED
      BY <1>1, <3>2 DEF SenderState
  <2>4. QED
    BY <2>1, <2>2, <2>3 DEF Taken, Sent, Held
<1>3. ~Opens(c) /\ ~Frees(c)
  BY <1>1 DEF Opens, Frees
<1>4. Other(c) \/ Counted(c) \/ Released(c) \/ Closes(c)
  BY <1>1, <1>2, <1>3, ObjectMoves
<1> HIDE DEF c
<1>5. CASE Other(c) \/ Counted(c)
  BY <1>1, <1>5 DEF Other, Counted, Kept, c
<1>6. CASE Released(c)
  BY <1>1, <1>6 DEF Released, Kept, c
<1>7. CASE Closes(c)
  BY <1>1, <1>7 DEF Closes, c
<1>8. QED
  BY <1>4, <1>5, <1>6, <1>7

LEMMA MutexKept ==
    ASSUME SendInv, Next, sender.step \in {"scanning"} \cup Holding
    PROVE  m_SendMsgListMutex' = "sender" \/ sender'.step = "waiting"
<1>1. /\ m_SendMsgListMutex = "sender" /\ "sender" \notin LogicThreads
      /\ sender \in SenderState
  BY SendConstants DEF SendInv, SenderInv, TypeOK, SenderState
<1>2. CASE UnlockSendList
  BY <1>1, <1>2 DEF UnlockSendList, SenderState
<1>3. ~LockSendList
  BY <1>1 DEF LockSendList
<1>4. ASSUME NEW u \in LogicThreads
      PROVE  ~CutSlowClient(u) /\ ~QueueFreedReply(u)
  BY <1>1 DEF CutSlowClient, QueueFreedReply, SendInv, HeaderInv, CutInv
<1>5. QED
  BY <1>1, <1>2, <1>3, <1>4, WhoMoves

LEMMA SenderStays ==
    ASSUME SendInv, Next, UNCHANGED sender
    PROVE  SenderInv'
<1>1. CASE sender.reply = None
  <2>1. sender.step \notin Holding
    BY <1>1 DEF SendInv, SenderInv
  <2>2. sender.step = "scanning" => m_SendMsgListMutex' = "sender"
    BY MutexKept
  <2>3. QED
    BY <1>1, <2>1, <2>2 DEF SenderInv, Holding
<1>2. CASE sender.reply # None
  <2>1. /\ sender.step \in Holding /\ pConn' = pConn
    BY <1>2, HandKept DEF pConn
  <2>2. /\ sender.step \in {"sending", "holding"} =>
          /\ connection[pConn].pSendMsgMemPointer = sender.reply
          /\ connection[pConn].throwSendMsgCount <= 0
        /\ sender.step = "sending" => connection[pConn].sendMsgLen = ReplyLength
    BY DEF SendInv, SenderInv
  <2>3. m_SendMsgListMutex' = "sender"
    BY <2>1, MutexKept DEF Holding
  <2>4. QED
    BY <1>2, <2>1, <2>2, <2>3, OthersSpare DEF SenderInv
<1>3. QED
  BY <1>1, <1>2

LEMMA SenderStepInv ==
    ASSUME SendInv, Next
    PROVE  SenderInv'
<1>1. /\ sender \in SenderState /\ TypeOK
      /\ sender.step \in Holding <=> sender.reply # None
      /\ sender.step \in {"scanning"} \cup Holding => m_SendMsgListMutex = "sender"
  BY DEF SendInv, SenderInv, TypeOK, SenderState
<1>2. ASSUME sender'.reply = None, sender'.step \notin Holding,
             sender'.step = "scanning" => m_SendMsgListMutex' = "sender"
      PROVE  SenderInv'
  BY <1>2 DEF SenderInv, Holding
<1>3. CASE UNCHANGED sender
  BY <1>3, SenderStays
<1>4. CASE WakeUp \/ WakeBySignal \/ TestListSize \/ UnlockSendList
  <2>1. /\ sender'.reply = sender.reply /\ sender.step \notin Holding
        /\ sender'.step \notin Holding \cup {"scanning"}
    BY <1>1, <1>4 DEF WakeUp, WakeBySignal, TestListSize, UnlockSendList, SenderState, Holding
  <2>2. QED
    BY <1>1, <1>2, <2>1
<1>5. CASE LockSendList
  <2>1. /\ sender'.reply = sender.reply /\ sender.step \notin Holding
        /\ sender'.step = "scanning" /\ m_SendMsgListMutex' = "sender"
    BY <1>1, <1>5 DEF LockSendList, SenderState, Holding
  <2>2. QED
    BY <1>1, <1>2, <2>1 DEF Holding
<1>6. CASE SkipBlocked
  <2>1. /\ sender'.reply = sender.reply /\ sender.step \notin Holding
        /\ sender'.step = "scanning" /\ sender.step = "scanning"
        /\ UNCHANGED m_SendMsgListMutex
    BY <1>1, <1>6 DEF SkipBlocked, Scans, SenderState, Holding, list
  <2>2. QED
    BY <1>1, <1>2, <2>1 DEF Holding
<1>7. CASE SendWhole \/ SendFails \/ RegisterWritable
  <2>1. sender' = BackToScan /\ sender.step \in Holding /\ UNCHANGED m_SendMsgListMutex
    BY <1>7 DEF SendWhole, SendParts, SendFails, RegisterWritable, Holding, list
  <2>2. QED
    BY <1>1, <1>2, <2>1, BackFields DEF Holding
<1>8. CASE TakeReply
  <2>1. /\ Header.pConn \in Conns /\ Scanned \in 1 .. Len(reply)
        /\ Header = reply[Scanned] /\ Len(reply) \in Nat
        /\ connection[Header.pConn].throwSendMsgCount \in Int
        /\ Known(Header) /\ sender.step = "scanning"
    <3>1. Scans /\ sender.step = "scanning"
      BY <1>8 DEF TakeReply, Scans
    <3>2. /\ Scanned \in 1 .. Len(reply) /\ Header = reply[Scanned]
          /\ Header.pConn \in Conns /\ connection[Header.pConn] \in Object
      BY <1>1, <3>1, Looks
    <3>3. Known(Header)
      BY <3>2 DEF SendInv, HeaderInv, RepliesInv
    <3>4. Len(reply) \in Nat
      BY <1>1, LenProperties DEF TypeOK
    <3>5. QED
      BY <3>1, <3>2, <3>3, <3>4 DEF Object
  <2>2. /\ sender'.step = "sending" /\ sender'.reply = Scanned
        /\ UNCHANGED <<reply, m_SendMsgListMutex>>
    BY <1>1, <1>8 DEF TakeReply, SenderState
  <2>3. Taken(Header.pConn)
    BY <1>8, TakesOne
  <2>4. /\ connection[Header.pConn].place = "online"
        /\ connection[Header.pConn].throwSendMsgCount <= 0
    BY <1>8, <2>1 DEF TakeReply, Stale, Blocked, Known, KnownAs
  <2>5. pConn' = Header.pConn /\ Scanned # None
    BY <2>1, <2>2 DEF pConn, None
  <2>6. QED
    BY <1>1, <2>1, <2>2, <2>3, <2>4, <2>5 DEF SenderInv, Holding, Taken, Kept
<1>9. CASE SendSome
  <2>1. /\ sender'.step = "holding" /\ sender'.reply = sender.reply /\ sender.step = "sending"
        /\ UNCHANGED <<reply, m_SendMsgListMutex>>
    BY <1>1, <1>9 DEF SendSome, SendParts, SenderState, list
  <2>2. Sent(pConn) /\ pConn' = pConn
    BY <1>9, <2>1, SendsOne DEF pConn
  <2>3. QED
    BY <2>1, <2>2 DEF SendInv, SenderInv, Sent, Kept, Holding
<1>10. CASE SendWouldBlock
  <2>1. /\ sender'.step = "holding" /\ sender'.reply = sender.reply /\ sender.step = "sending"
        /\ UNCHANGED <<reply, connection, m_SendMsgListMutex>>
    BY <1>1, <1>10 DEF SendWouldBlock, SenderState, list
  <2>2. pConn' = pConn
    BY <2>1 DEF pConn
  <2>3. QED
    BY <2>1, <2>2 DEF SendInv, SenderInv, Holding
<1>11. CASE HoldReply
  <2>1. /\ sender'.step = "registering" /\ sender'.reply = sender.reply /\ sender.step = "holding"
        /\ UNCHANGED <<reply, m_SendMsgListMutex>>
    BY <1>1, <1>11 DEF HoldReply, SenderState, list
  <2>2. Held(pConn) /\ pConn' = pConn
    BY <1>11, <2>1, HoldsOne DEF pConn
  <2>3. QED
    BY <2>1, <2>2 DEF SendInv, SenderInv, Held, Kept, Holding
<1>12. CASE ReadFreedReply \/ DiscardStale \/ SendRaisesSigpipe
  <2>1. UNCHANGED sender
    BY <1>12 DEF ReadFreedReply, DiscardStale, SendRaisesSigpipe
  <2>2. QED
    BY <1>3, <2>1
<1>13. QED
  BY <1>3, <1>4, <1>5, <1>6, <1>7, <1>8, <1>9, <1>10, <1>11, <1>12, WhoMoves DEF SenderStep

PointerOf(c) ==
      LET object == connection[c]
          r == object.pSendMsgMemPointer
      IN
      /\ object.place = "online" => object.client \in Clients
      /\ object.place # "online" => object.sockFd = NoFd
      /\ object.place = "free" => r = None \/ ~reply[r].live
      /\ object.place = "online" /\ object.throwSendMsgCount < 0 => ShutDown(object.client)
      /\ object.place = "online" /\ r # None =>
            /\ reply[r].pConn = c /\ reply[r].client = object.client
            /\ reply[r].live =>
                 \/ object.throwSendMsgCount > 0
                 \/ sender.step \in {"sending", "holding"} /\ sender.reply = r
                 \/ ShutDown(object.client)

LEMMA PointerFacts ==
    ASSUME SendInv, NEW c \in Conns
    PROVE  /\ PointerOf(c) /\ Len(reply) \in Nat
           /\ connection[c].pSendMsgMemPointer \in 0 .. Len(reply)
           /\ connection[c].throwSendMsgCount \in Int
           /\ connection[c].pSendMsgMemPointer # None =>
                connection[c].pSendMsgMemPointer \in 1 .. Len(reply)
<1>1. PointerOf(c)
  BY DEF SendInv, PointerInv, PointerOf
<1>2. /\ Len(reply) \in Nat /\ connection[c].pSendMsgMemPointer \in 0 .. Len(reply)
      /\ connection[c].throwSendMsgCount \in Int
  BY LenProperties DEF SendInv, TypeOK
<1>3. QED
  BY <1>1, <1>2 DEF None

(* The object keeps its client and its pointer.                            *)
LEMMA PointerKept ==
    ASSUME SendInv, Next, NEW c \in Conns,
           Other(c) \/ Counted(c) \/ Sent(c) \/ Held(c) \/ Released(c)
    PROVE  PointerOf(c)'
<1>a. PICK r : r = connection[c].pSendMsgMemPointer
  OBVIOUS
<1>b. PICK k : k = connection[c].client
  OBVIOUS
<1>1. /\ PointerOf(c)
      /\ r # None => r \in 1 .. Len(reply)
      /\ connection[c].throwSendMsgCount \in Int
  BY <1>a, PointerFacts
<1>2. /\ Kept(c) /\ connection'[c].pSendMsgMemPointer = r
  BY <1>a DEF Other, Counted, Sent, Held, Released, Kept
<1>3. r # None =>
        /\ reply'[r].pConn = reply[r].pConn /\ reply'[r].client = reply[r].client
        /\ reply'[r].live => reply[r].live
  BY <1>1, RepliesMove DEF HeadersStay
<1>4. connection[c].place = "online" => k \in Clients /\ (ShutDown(k) => ShutDown(k)')
  <2>1. connection[c].place = "online" => k \in Clients
    BY <1>1, <1>b DEF PointerOf
  <2>2. QED
    BY <2>1, ClientsLeave
<1>5. \/ connection'[c].throwSendMsgCount >= connection[c].throwSendMsgCount
      \/ connection[c].place = "online" => ShutDown(k)
  <2>1. CASE Released(c)
    <3>1. epoll.step = "read" /\ c = epoll.pConn
      BY <2>1 DEF Released, ReleaseHold
    <3>2. epoll.out /\ connection[c].place = "online" => ShutDown(k)
      BY <1>b, <3>1 DEF SendInv, EpollInv
    <3>3. QED
      BY <1>1, <2>1, <3>2 DEF Released
  <2>2. CASE Other(c) \/ Counted(c) \/ Sent(c) \/ Held(c)
    BY <1>1, <2>2 DEF Other, Counted, Sent, Held
  <2>3. QED
    BY <2>1, <2>2
<1>6. connection'[c].throwSendMsgCount \in Int
  <2>1. (connection \in [Conns -> [place : {"free", "online", "closed"}, sockFd : Fds \cup {NoFd},
           client : Clients \cup {None}, currSequence : Nat, throwSendMsgCount : Int,
           sendMsgListCount : Int, pSendMsgMemPointer : 0 .. Len(reply),
           sendMsgLen : 0 .. ReplyLength]])'
    BY TypeStep DEF TypeOK
  <2>2. QED
    BY <2>1
<1>7. connection[c].place = "online" /\ connection'[c].throwSendMsgCount < 0 => ShutDown(k)'
  BY <1>1, <1>4, <1>5, <1>6, <1>b DEF PointerOf
<1>8. ASSUME connection[c].place = "online", r # None, reply'[r].live
      PROVE  \/ connection'[c].throwSendMsgCount > 0
             \/ sender'.step \in {"sending", "holding"} /\ sender'.reply = r
             \/ ShutDown(k)'
  <2>1. CASE connection[c].throwSendMsgCount > 0
    BY <1>1, <1>4, <1>5, <1>6, <1>8, <2>1
  <2>2. CASE ShutDown(k)
    BY <1>4, <1>8, <2>2
  <2>3. CASE sender.step \in {"sending", "holding"} /\ sender.reply = r
    <3>1. /\ sender \in SenderState /\ pConn = c /\ r \in 1 .. Len(reply)
          /\ connection[c].throwSendMsgCount <= 0
      <4>1. pConn = c /\ r \in 1 .. Len(reply)
        BY <1>1, <1>8, <1>a, <2>3 DEF pConn, PointerOf
      <4>2. sender \in SenderState
        BY DEF SendInv, TypeOK, SenderState
      <4>3. connection[pConn].throwSendMsgCount <= 0
        BY <2>3 DEF SendInv, SenderInv
      <4>4. QED
        BY <4>1, <4>2, <4>3
    <3>2. CASE UNCHANGED sender
      BY <2>3, <3>2
    <3>3. CASE SendSome \/ SendWouldBlock
      <4>1. sender' = [sender EXCEPT !.step = "holding"]
        BY <3>3 DEF SendSome, SendWouldBlock
      <4>2. QED
        BY <2>3, <3>1, <4>1 DEF SenderState
    <3>4. CASE SendWhole \/ SendFails
      <4>1. /\ sender.reply = r /\ r \in 0 .. Len(reply) /\ TypeOK /\ r # None
            /\ reply' = [reply EXCEPT ![sender.reply].live = FALSE]
        BY <1>8, <2>3, <3>1, <3>4, FreeSentTypes DEF SendWhole, SendFails, SendInv
      <4>2. reply' = [reply EXCEPT ![r].live = FALSE]
        BY <4>1
      <4>3. ~reply'[r].live
        BY <4>1, <4>2, FreeReply
      <4>4. QED
        BY <1>8, <4>3
    <3>5. CASE HoldReply
      <4>1. Held(c)
        BY <3>1, <3>5, HoldsOne
      <4>2. connection[c].throwSendMsgCount < 0 => ShutDown(k)
        BY <1>1, <1>8, <1>b DEF PointerOf
      <4>3. QED
        BY <1>1, <1>4, <1>8, <3>1, <4>1, <4>2 DEF Held
    <3>6. ASSUME ~ UNCHANGED sender
          PROVE  SendSome \/ SendWouldBlock \/ SendWhole \/ SendFails \/ HoldReply
      <4>1. /\ sender.step \in {"sending", "holding"}
            /\ SenderStep \/ WakeBySignal
        BY <2>3, <3>6, WhoMoves
      <4>2. QED
        BY <3>6, <4>1 DEF SenderStep, WakeBySignal, WakeUp, TestListSize, LockSendList,
           UnlockSendList, ReadFreedReply, DiscardStale, SkipBlocked, TakeReply, Scans,
           SendRaisesSigpipe, RegisterWritable
    <3>7. QED
      BY <3>2, <3>3, <3>4, <3>5, <3>6
  <2>4. QED
    BY <1>1, <1>3, <1>8, <1>a, <1>b, <2>1, <2>2, <2>3 DEF PointerOf
<1>9. connection'[c].client = k /\ (ShutDown(connection[c].client)' <=> ShutDown(k)')
  BY <1>2, <1>b DEF Kept, ShutDown
<1>10. QED
  BY <1>1, <1>2, <1>3, <1>4, <1>7, <1>8, <1>9, <1>a, <1>b DEF PointerOf, Kept

LEMMA PointerStep ==
    ASSUME SendInv, Next
    PROVE  PointerInv'
<1> SUFFICES ASSUME NEW c \in Conns PROVE PointerOf(c)'
  BY DEF PointerInv, PointerOf
<1>1. PointerOf(c)
  BY PointerFacts
<1>2. CASE Closes(c)
  BY <1>2 DEF Closes, PointerOf
<1>3. CASE Opens(c)
  BY <1>3 DEF Opens, PointerOf
<1>4. CASE Frees(c)
  BY <1>1, <1>4 DEF Frees, PointerOf
<1>5. CASE Taken(c)
  <2>1. /\ TakeReply /\ c = Header.pConn /\ Scanned \in 1 .. Len(reply) /\ Header = reply[Scanned]
        /\ Header.live /\ Known(Header) /\ ~Stale /\ UNCHANGED <<reply, status>>
    BY <1>5, Looks DEF Taken, TakeReply, SendInv, HeaderInv, RepliesInv, kernel
  <2>2. connection[c].place = "online" /\ Header.client = connection[c].client
    BY <2>1 DEF Stale, Known, KnownAs
  <2>3. sender'.step = "sending" /\ sender'.reply = Scanned
    BY <2>1 DEF TakeReply, SendInv, TypeOK
  <2>4. /\ Kept(c) /\ connection'[c].pSendMsgMemPointer = Scanned
        /\ connection'[c].throwSendMsgCount = connection[c].throwSendMsgCount
    BY <1>5 DEF Taken
  <2>5. QED
    BY <1>1, <2>1, <2>2, <2>3, <2>4 DEF PointerOf, Kept, ShutDown
<1>6. CASE Other(c) \/ Counted(c) \/ Sent(c) \/ Held(c) \/ Released(c)
  BY <1>6, PointerKept
<1>7. QED
  BY <1>2, <1>3, <1>4, <1>5, <1>6, ObjectMoves

EpollState ==
    [step : {"polling", "reading", "closing", "read"}, pConn : Conns \cup {None}, out : BOOLEAN]

LEMMA EpollMoves ==
    ASSUME SendInv, Next, epoll'.step # "polling"
    PROVE  EpollInv'
<1> DEFINE c == epoll'.pConn
<1>1. epoll \in EpollState /\ TypeOK
  BY DEF SendInv, TypeOK, EpollState
<1>2. CASE FetchHangUp
  <2>1. PICK d \in Online :
          /\ Attached(d) /\ status[connection[d].client] # "here"
          /\ \E out \in {FALSE, writable[connection[d].sockFd]} :
               epoll' = [step |-> "reading", pConn |-> d, out |-> out]
          /\ UNCHANGED <<connection, socketOf, status>>
    BY <1>2 DEF FetchHangUp, kernel
  <2>2. /\ d \in Conns /\ connection[d].place = "online"
        /\ socketOf[connection[d].sockFd] = connection[d].client
        /\ epoll'.step = "reading" /\ epoll'.pConn = d
    BY <2>1 DEF Online, Attached
  <2>3. QED
    BY <2>1, <2>2 DEF EpollInv, HungUp
<1>3. CASE KickFlood
  <2>1. PICK d \in Online :
          /\ Attached(d)
          /\ epoll' = [step |-> "reading", pConn |-> d, out |-> FALSE]
          /\ UNCHANGED <<connection, socketOf>>
    BY <1>3 DEF KickFlood, kernel
  <2>2. /\ d \in Conns /\ connection[d].place = "online"
        /\ socketOf[connection[d].sockFd] = connection[d].client
        /\ epoll'.step = "reading" /\ epoll'.pConn = d /\ ~epoll'.out
    BY <2>1 DEF Online, Attached
  <2>3. QED
    BY <2>1, <2>2 DEF EpollInv
<1>4. CASE ReadRest
  <2>1. /\ epoll.step = "reading" /\ epoll'.step = "read" /\ epoll'.pConn = epoll.pConn
        /\ epoll'.out = epoll.out /\ UNCHANGED <<connection, status>>
        /\ LET fd == connection[epoll.pConn].sockFd IN
             fd # NoFd /\ socketOf[fd] # None /\ status[socketOf[fd]] = "shut"
    BY <1>1, <1>4 DEF ReadRest, EpollState, kernel
  <2>2. ShutDown(connection[epoll.pConn].client)
    BY <2>1 DEF SendInv, EpollInv, ShutDown
  <2>3. epoll.pConn \in Conns /\ connection[epoll.pConn].place # "free"
    BY <2>1 DEF SendInv, EpollInv
  <2>4. QED
    BY <2>1, <2>2, <2>3 DEF EpollInv, ShutDown, HungUp
<1>5. CASE CloseSocket
  <2>1. /\ epoll.step = "reading" /\ epoll'.step = "closing" /\ epoll'.pConn = epoll.pConn
        /\ epoll'.out = epoll.out /\ UNCHANGED <<connection, status>>
    BY <1>1, <1>5 DEF CloseSocket, EpollState
  <2>2. QED
    BY <2>1 DEF SendInv, EpollInv, HungUp
<1>6. CASE FinishClose
  <2>1. /\ epoll.step = "closing" /\ epoll'.step = "read" /\ epoll'.pConn = epoll.pConn
    BY <1>1, <1>6 DEF FinishClose, EpollState
  <2>2. epoll.pConn \in Conns
    BY <2>1 DEF SendInv, EpollInv
  <2>3. Closes(epoll.pConn)
    BY <1>6, <2>2, ClosesOne
  <2>4. QED
    BY <2>1, <2>2, <2>3 DEF EpollInv, Closes
<1>7. ~ReleaseHold
  BY DEF ReleaseHold
<1>8. CASE UNCHANGED epoll
  <2>1. PICK d : d = epoll.pConn
    OBVIOUS
  <2>2. /\ d \in Conns /\ connection[d].place # "free"
        /\ epoll.step = "reading" /\ connection[d].sockFd # NoFd =>
              socketOf[connection[d].sockFd] \in {None, connection[d].client}
        /\ epoll.out /\ connection[d].place = "online" => HungUp(connection[d].client)
        /\ epoll.out /\ epoll.step = "read" /\ connection[d].place = "online" =>
              ShutDown(connection[d].client)
    BY <1>8, <2>1 DEF SendInv, EpollInv
  <2>3. PICK k : k = connection[d].client
    OBVIOUS
  <2>4. connection[d].place = "online" =>
          (HungUp(k) => HungUp(k)') /\ (ShutDown(k) => ShutDown(k)')
    <3>1. connection[d].place = "online" => k \in Clients
      BY <2>2, <2>3 DEF SendInv, PointerInv
    <3>2. QED
      BY <3>1, ClientsLeave
  <2>5. Kept(d) \/ Closes(d)
    <3>1. ~Opens(d) /\ ~Frees(d)
      BY <2>1, <2>2 DEF Opens, Frees
    <3>2. QED
      BY <2>2, <3>1, ObjectMoves DEF Other, Counted, Taken, Sent, Held, Released, Kept
  <2>6. \A f \in Fds : socketOf'[f] = None \/ socketOf'[f] = socketOf[f]
    <3>1. CASE UNCHANGED socketOf
      BY <3>1
    <3>2. ~AcceptClient
      BY <1>8 DEF AcceptClient
    <3>3. CASE CloseSocket
      BY <3>3 DEF CloseSocket
    <3>4. ASSUME NEW t \in LogicThreads, CutSlowClient(t)
          PROVE  \A f \in Fds : socketOf'[f] = None \/ socketOf'[f] = socketOf[f]
      BY <3>4 DEF CutSlowClient
    <3>5. QED
      BY <3>1, <3>2, <3>3, <3>4, WhoMoves
  <2>7. connection[d].sockFd \in Fds \cup {NoFd}
    BY <1>1, <2>2 DEF TypeOK
  <2>8. CASE Closes(d)
    BY <1>8, <2>1, <2>2, <2>8 DEF Closes, EpollInv
  <2>9. CASE Kept(d)
    <3>1. /\ connection'[d].client = k
          /\ (HungUp(connection[d].client)' <=> HungUp(k)')
          /\ (ShutDown(connection[d].client)' <=> ShutDown(k)')
      BY <2>3, <2>9 DEF Kept, HungUp, ShutDown
    <3>2. epoll.step = "reading" /\ connection'[d].sockFd # NoFd =>
            socketOf'[connection'[d].sockFd] \in {None, connection'[d].client}
      BY <2>2, <2>6, <2>7, <2>9 DEF Kept
    <3>3. /\ epoll.out /\ connection'[d].place = "online" => HungUp(connection[d].client)'
          /\ epoll.out /\ epoll.step = "read" /\ connection'[d].place = "online" =>
               ShutDown(connection[d].client)'
      BY <2>2, <2>3, <2>4, <2>9, <3>1 DEF Kept
    <3>4. epoll'.pConn = d /\ connection'[d].place # "free"
      BY <1>8, <2>1, <2>2, <2>9 DEF Kept
    <3>5. QED
      BY <1>8, <2>2, <3>2, <3>3, <3>4 DEF EpollInv, HungUp, ShutDown
  <2>10. QED
    BY <2>5, <2>8, <2>9
<1>9. QED
  BY <1>2, <1>3, <1>4, <1>5, <1>6, <1>7, <1>8, WhoMoves DEF EpollStep

LEMMA EpollStepInv ==
    ASSUME SendInv, Next
    PROVE  EpollInv'
<1>1. CASE epoll'.step = "polling"
  BY <1>1 DEF EpollInv
<1>2. CASE epoll'.step # "polling"
  BY <1>2, EpollMoves
<1>3. QED
  BY <1>1, <1>2

(* A reply in the list, and what was known of it.                          *)
LEMMA ListedReply ==
    ASSUME SendInv, NEW r \in 1 .. Len(reply)
    PROVE  /\ reply[r] \in Reply /\ Known(reply[r])
           /\ reply[r].pConn \in Conns /\ reply[r].currSequence \in Nat
           /\ reply[r].client \in Clients
<1>1. reply[r] \in Reply
  BY ElementOfSeq DEF SendInv, TypeOK, Reply
<1>2. QED
  BY <1>1 DEF SendInv, HeaderInv, RepliesInv, Reply

(* No step makes a reply ready that was in the list before.                *)
LEMMA ReadyBefore ==
    ASSUME SendInv, Next, NEW r \in 1 .. Len(reply), Ready(r)'
    PROVE  Ready(r)
<1>1. PICK c, n, k : c = reply[r].pConn /\ n = reply[r].currSequence /\ k = reply[r].client
  OBVIOUS
<1>2. /\ c \in Conns /\ n \in Nat /\ k \in Clients /\ KnownAs(c, n, k)
  BY <1>1, ListedReply DEF Known
<1>3. /\ reply'[r].pConn = c /\ reply'[r].currSequence = n /\ reply'[r].client = k
      /\ reply'[r].live => reply[r].live
  BY <1>1, RepliesMove DEF HeadersStay
<1>4. /\ reply'[r].live /\ connection'[c].currSequence = n
      /\ connection'[c].throwSendMsgCount <= 0 /\ status'[k] = "here"
  BY <1>3 DEF Ready
<1>5. KnownAs(c, n, k)'
  BY <1>2, KnownStays
<1>6. connection'[c].place = "online" /\ connection[c].currSequence \in Nat
  BY <1>2, <1>4, <1>5 DEF KnownAs, SendInv, TypeOK
<1>7. ~Closes(c) /\ ~Opens(c) /\ ~Frees(c)
  BY <1>2, <1>4, <1>6 DEF Closes, Opens, Frees, KnownAs
<1>8. Kept(c) /\ connection[c].currSequence = n
  <2>1. Kept(c)
    BY <1>2, <1>7, ObjectMoves DEF Other, Counted, Taken, Sent, Held, Released, Kept
  <2>2. QED
    BY <1>4, <2>1 DEF Kept
<1>9. connection[c].place = "online" /\ connection[c].client = k
  BY <1>2, <1>8 DEF KnownAs
<1>10. status[k] = "here" /\ ~ShutDown(k)
  <2>1. ~HungUp(k)'
    BY <1>4 DEF HungUp
  <2>2. ~HungUp(k)
    BY <1>2, <2>1, ClientsLeave
  <2>3. QED
    BY <2>2 DEF HungUp, ShutDown
<1>11. connection[c].throwSendMsgCount <= 0
  <2>1. connection[c].throwSendMsgCount \in Int
    BY <1>2, PointerFacts
  <2>2. CASE Released(c)
    <3>1. epoll.step = "read" /\ c = epoll.pConn
      BY <2>2 DEF Released, ReleaseHold
    <3>2. ~epoll.out
      BY <1>9, <1>10, <3>1 DEF SendInv, EpollInv
    <3>3. QED
      BY <1>4, <2>2, <3>2 DEF Released
  <2>3. CASE Other(c) \/ Counted(c) \/ Taken(c) \/ Sent(c)
    BY <1>4, <2>3 DEF Other, Counted, Taken, Sent
  <2>4. CASE Held(c)
    BY <1>4, <2>1, <2>4 DEF Held
  <2>5. QED
    BY <1>2, <1>7, <2>2, <2>3, <2>4, ObjectMoves
<1>12. QED
  BY <1>1, <1>3, <1>4, <1>8, <1>10, <1>11 DEF Ready

LEMMA WakeStepInv ==
    ASSUME SendInv, Next
    PROVE  WakeInv'
<1> DEFINE Ahead(i) == \/ g_SendMsgPushEventSem > 0
                       \/ sender.step \in {"testing", "locking"}
                       \/ sender.step \in {"scanning"} \cup Holding /\ sender.pos <= i
<1> SUFFICES ASSUME NEW i \in 1 .. Len(m_SendMsgList'), Ready(m_SendMsgList[i])'
             PROVE  \/ g_SendMsgPushEventSem' > 0
                    \/ sender'.step \in {"testing", "locking"}
                    \/ sender'.step \in {"scanning"} \cup Holding /\ sender'.pos <= i
  BY DEF WakeInv
<1>1. /\ TypeOK /\ sender \in SenderState /\ sender.pos \in Nat
      /\ g_SendMsgPushEventSem \in Nat /\ m_SendMsgList \in Seq(1 .. Len(reply))
      /\ Len(m_SendMsgList) \in Nat
  BY LenProperties DEF SendInv, TypeOK, SenderState
<1>2. ASSUME NEW j \in 1 .. Len(m_SendMsgList), m_SendMsgList'[i] = m_SendMsgList[j]
      PROVE  Ready(m_SendMsgList[j]) /\ Ahead(j)
  <2>1. PICK r \in 1 .. Len(reply) : r = m_SendMsgList[j]
    BY <1>1, ElementOfSeq
  <2>2. Ready(r)'
    BY <1>2, <2>1 DEF Ready
  <2>3. Ready(r)
    BY <2>2, ReadyBefore
  <2>4. QED
    BY <2>1, <2>3 DEF SendInv, WakeInv
<1>3. CASE \E t \in LogicThreads : PushReply(t) \/ QueueFreedReply(t)
  <2>1. g_SendMsgPushEventSem' = g_SendMsgPushEventSem + 1
    BY <1>3 DEF PushReply, QueueFreedReply
  <2>2. QED
    BY <1>1, <2>1
<1>4. CASE DiscardStale \/ TakeReply
  <2>1. /\ sender.step = "scanning" /\ sender.pos \in 1 .. Len(m_SendMsgList)
        /\ UNCHANGED g_SendMsgPushEventSem
        /\ Len(m_SendMsgList') = Len(m_SendMsgList) - 1
        /\ m_SendMsgList'[i] = IF i < sender.pos THEN m_SendMsgList[i] ELSE m_SendMsgList[i + 1]
    BY <1>4, EraseEffect DEF SendInv, DiscardStale, TakeReply, Scans
  <2>2. CASE i < sender.pos
    <3>1. i \in 1 .. Len(m_SendMsgList)
      BY <1>1, <2>1
    <3>2. Ahead(i)
      BY <1>2, <2>1, <2>2, <3>1
    <3>3. QED
      BY <1>1, <2>1, <2>2, <3>2
  <2>3. CASE i >= sender.pos
    <3>1. sender'.pos = sender.pos /\ sender'.step \in {"scanning", "sending"}
      BY <1>1, <1>4, <2>1 DEF DiscardStale, TakeReply, SenderState
    <3>2. QED
      BY <2>3, <3>1 DEF Holding
  <2>4. QED
    BY <1>1, <2>1, <2>2, <2>3
<1>5. CASE UNCHANGED <<m_SendMsgList, m_SendMsgListSize>>
  <2>1. i \in 1 .. Len(m_SendMsgList) /\ Ready(m_SendMsgList[i]) /\ Ahead(i)
    BY <1>2, <1>5
  <2>2. CASE UNCHANGED sender
    <3>1. CASE UNCHANGED g_SendMsgPushEventSem
      BY <2>1, <2>2, <3>1
    <3>2. ~WakeUp
      BY <1>1, <2>2 DEF WakeUp, SenderState
    <3>3. QED
      BY <1>3, <3>1, <3>2, WhoMoves
  <2>3. CASE WakeUp \/ WakeBySignal
    BY <1>1, <2>3 DEF WakeUp, WakeBySignal, SenderState
  <2>4. CASE TestListSize
    <3>1. m_SendMsgListSize > 0
      BY <1>1, <2>1 DEF SendInv, QueueCounted
    <3>2. QED
      BY <1>1, <2>4, <3>1 DEF TestListSize, SenderState
  <2>5. CASE LockSendList
    <3>1. sender'.step = "scanning" /\ sender'.pos = 1
      BY <1>1, <2>5 DEF LockSendList, SenderState
    <3>2. QED
      BY <3>1
  <2>6. CASE UnlockSendList
    <3>1. sender.step = "scanning" /\ sender.pos > Len(m_SendMsgList) /\ UNCHANGED g_SendMsgPushEventSem
      BY <2>6 DEF UnlockSendList
    <3>2. QED
      BY <1>1, <2>1, <3>1
  <2>7. CASE SkipBlocked
    <3>1. /\ sender.step = "scanning" /\ sender'.step = "scanning"
          /\ sender'.pos = sender.pos + 1 /\ UNCHANGED g_SendMsgPushEventSem
          /\ Blocked
      BY <1>1, <2>7 DEF SkipBlocked, Scans, SenderState, list
    <3>2. i # sender.pos
      <4>1. SUFFICES ASSUME i = sender.pos PROVE FALSE
        OBVIOUS
      <4>2. PICK r \in 1 .. Len(reply) : r = m_SendMsgList[i]
        BY <1>1, <2>1, ElementOfSeq
      <4>3. Header = reply[r] /\ connection[reply[r].pConn].throwSendMsgCount <= 0
        BY <2>1, <4>1, <4>2 DEF Header, Scanned, Ready
      <4>4. connection[reply[r].pConn].throwSendMsgCount \in Int
        BY <4>2, ListedReply, PointerFacts
      <4>5. QED
        BY <3>1, <4>3, <4>4 DEF Blocked
    <3>3. QED
      BY <1>1, <2>1, <3>1, <3>2
  <2>8. CASE \/ SendWhole \/ SendSome \/ SendWouldBlock \/ SendFails \/ HoldReply
             \/ RegisterWritable
    <3>1. /\ sender.step \in Holding /\ UNCHANGED g_SendMsgPushEventSem
      BY <2>8 DEF SendWhole, SendSome, SendWouldBlock, SendFails, HoldReply, RegisterWritable,
         SendParts, Holding, list
    <3>2. sender'.step \in {"scanning"} \cup Holding /\ sender'.pos = sender.pos
      <4>1. CASE SendWhole \/ SendFails \/ RegisterWritable
        BY <1>1, <4>1, BackFields DEF SendWhole, SendFails, RegisterWritable
      <4>2. CASE SendSome \/ SendWouldBlock \/ HoldReply
        BY <1>1, <4>2 DEF SendSome, SendWouldBlock, HoldReply, SenderState, Holding
      <4>3. QED
        BY <2>8, <4>1, <4>2
    <3>3. QED
      BY <2>1, <3>1, <3>2 DEF Holding
  <2>9. CASE ReadFreedReply \/ SendRaisesSigpipe
    <3>1. UNCHANGED sender
      BY <2>9 DEF ReadFreedReply, SendRaisesSigpipe
    <3>2. QED
      BY <2>2, <3>1
  <2>10. QED
    BY <1>4, <2>2, <2>3, <2>4, <2>5, <2>6, <2>7, <2>8, <2>9, WhoMoves DEF SenderStep
<1>6. QED
  BY <1>3, <1>4, <1>5, WhoMoves

(* What is erased from the list is the reply looked at.                    *)
LEMMA StillListed ==
    ASSUME SendInv, Next, NEW r, Listed(r)
    PROVE  \/ Listed(r)'
           \/ (DiscardStale \/ TakeReply) /\ r = Scanned
<1>1. /\ TypeOK /\ m_SendMsgList \in Seq(1 .. Len(reply)) /\ Len(m_SendMsgList) \in Nat
      /\ Len(reply) \in Nat
  BY LenProperties DEF SendInv, TypeOK
<1>2. PICK i \in 1 .. Len(m_SendMsgList) : m_SendMsgList[i] = r
  BY DEF Listed
<1>3. CASE UNCHANGED <<m_SendMsgList, m_SendMsgListSize>>
  BY <1>3 DEF Listed
<1>4. CASE DiscardStale \/ TakeReply
  <2>1. /\ sender.pos \in 1 .. Len(m_SendMsgList)
        /\ Len(m_SendMsgList') = Len(m_SendMsgList) - 1
        /\ \A j \in 1 .. Len(m_SendMsgList') : m_SendMsgList'[j] =
             IF j < sender.pos THEN m_SendMsgList[j] ELSE m_SendMsgList[j + 1]
    BY <1>4, EraseEffect DEF SendInv, DiscardStale, TakeReply, Scans
  <2>2. CASE i < sender.pos
    <3>1. i \in 1 .. Len(m_SendMsgList') /\ m_SendMsgList'[i] = r
      BY <1>1, <1>2, <2>1, <2>2
    <3>2. QED
      BY <3>1 DEF Listed
  <2>3. CASE i > sender.pos
    <3>1. i - 1 \in 1 .. Len(m_SendMsgList') /\ m_SendMsgList'[i - 1] = r
      BY <1>1, <1>2, <2>1, <2>3
    <3>2. QED
      BY <3>1 DEF Listed
  <2>4. CASE i = sender.pos
    BY <1>2, <1>4, <2>4 DEF Scanned
  <2>5. QED
    BY <2>1, <2>2, <2>3, <2>4
<1>5. ASSUME NEW t \in LogicThreads, PushReply(t) \/ QueueFreedReply(t)
      PROVE  Listed(r)'
  <2>1. PICK n \in Nat : m_SendMsgList' = Append(m_SendMsgList, n)
    <3>1. \/ m_SendMsgList' = Append(m_SendMsgList, Len(reply) + 1)
          \/ m_SendMsgList' = Append(m_SendMsgList, Len(reply))
      BY <1>5 DEF PushReply, QueueReply, QueueFreedReply
    <3>2. Len(reply) + 1 \in Nat
      BY <1>1
    <3>3. QED
      BY <1>1, <3>1, <3>2
  <2>2. m_SendMsgList \in Seq(Nat)
    BY <1>1, SeqMonotonic, 1 .. Len(reply) \subseteq Nat
  <2>3. /\ Len(m_SendMsgList') = Len(m_SendMsgList) + 1
        /\ \A j \in 1 .. Len(m_SendMsgList) : m_SendMsgList'[j] = m_SendMsgList[j]
    BY <2>1, <2>2, AppendProperties
  <2>4. i \in 1 .. Len(m_SendMsgList')
    BY <1>1, <2>3
  <2>5. QED
    BY <1>2, <2>3, <2>4 DEF Listed
<1>6. QED
  BY <1>3, <1>4, <1>5, WhoMoves

LEMMA LeakStep ==
    ASSUME SendInv, Next
    PROVE  NoReplyLeaked'
<1> SUFFICES ASSUME NEW r \in 1 .. Len(reply'), reply'[r].live
             PROVE  \/ Listed(r)'
                    \/ \E c \in Conns : connection'[c].pSendMsgMemPointer = r
                    \/ status'[reply'[r].client] \in {"shut", "shutBroken"}
  BY DEF NoReplyLeaked
<1>1. TypeOK /\ m_SendMsgList \in Seq(1 .. Len(reply)) /\ Len(reply) \in Nat
  BY LenProperties DEF SendInv, TypeOK
<1>2. CASE r \notin 1 .. Len(reply)
  <2>1. PICK t \in LogicThreads :
          /\ logic[t].step # "idle" /\ r = Len(reply) + 1
          /\ \/ PushReply(t) /\ reply'[r] = ReplyOf(t, TRUE)
             \/ CutSlowClient(t) /\ reply'[r] = ReplyOf(t, FALSE)
    BY <1>2, NewReply
  <2>2. ~ReplyOf(t, FALSE).live
    BY DEF ReplyOf
  <2>3. m_SendMsgList' = Append(m_SendMsgList, r)
    BY <2>1, <2>2 DEF PushReply, QueueReply
  <2>4. m_SendMsgList \in Seq(Nat) /\ r \in Nat
    BY <1>1, SeqMonotonic, 1 .. Len(reply) \subseteq Nat
  <2>5. /\ Len(m_SendMsgList') = Len(m_SendMsgList) + 1
        /\ m_SendMsgList'[Len(m_SendMsgList')] = r /\ Len(m_SendMsgList) \in Nat
    BY <2>3, <2>4, AppendProperties, LenProperties
  <2>6. Len(m_SendMsgList') \in 1 .. Len(m_SendMsgList')
    BY <2>5
  <2>7. QED
    BY <2>5, <2>6 DEF Listed
<1>3. CASE r \in 1 .. Len(reply)
  <2>1. reply[r].live /\ reply'[r].client = reply[r].client /\ reply[r].client \in Clients
    BY <1>3, RepliesMove, ListedReply DEF HeadersStay
  <2>2. PICK k \in Clients : k = reply[r].client
    BY <2>1
  <2>3. CASE ShutDown(k)
    <3>1. ShutDown(k)'
      BY <2>3, ClientsLeave
    <3>2. QED
      BY <2>1, <2>2, <3>1 DEF ShutDown
  <2>4. CASE Listed(r) /\ ~ShutDown(k)
    <3>1. CASE DiscardStale /\ r = Scanned
      <4>1. reply' = [reply EXCEPT ![r].live = FALSE] /\ r \in 0 .. Len(reply) /\ r # None
        BY <1>1, <1>3, <3>1 DEF DiscardStale, None
      <4>2. reply'[r].live = FALSE
        BY <1>1, <4>1, FreeReply
      <4>3. QED
        BY <4>2
    <3>2. CASE TakeReply /\ r = Scanned
      BY <3>2, TakesOne, Looks DEF Taken, TakeReply, SendInv
    <3>3. QED
      BY <2>4, <3>1, <3>2, StillListed
  <2>5. ASSUME NEW c \in Conns, connection[c].pSendMsgMemPointer = r, ~ShutDown(k)
        PROVE  connection'[c].pSendMsgMemPointer = r
    <3>1. PointerOf(c) /\ r # None
      BY <1>1, <1>3, PointerFacts DEF None
    <3>2. ~Opens(c)
      BY <2>1, <2>5, <3>1 DEF Opens, PointerOf
    <3>3. ~Taken(c)
      <4>1. SUFFICES ASSUME Taken(c) PROVE FALSE
        OBVIOUS
      <4>2. /\ c = Header.pConn /\ Scanned \in 1 .. Len(reply) /\ Header = reply[Scanned]
            /\ ~Stale /\ ~Blocked /\ sender.step = "scanning"
        BY <4>1, Looks DEF Taken, TakeReply, Scans, SendInv
      <4>3. Known(Header)
        BY <4>2, ListedReply
      <4>4. connection[c].place = "online" /\ ~(connection[c].throwSendMsgCount > 0)
        BY <4>2, <4>3 DEF Stale, Blocked, Known, KnownAs
      <4>5. QED
        BY <2>1, <2>2, <2>5, <3>1, <4>2, <4>4 DEF PointerOf
    <3>4. QED
      BY <2>5, <3>2, <3>3, ObjectMoves
         DEF Other, Counted, Sent, Held, Released, Closes, Frees
  <2>6. QED
    BY <1>3, <2>1, <2>2, <2>3, <2>4, <2>5 DEF SendInv, NoReplyLeaked, ShutDown
<1>4. QED
  BY <1>2, <1>3

LEMMA HeldStep ==
    ASSUME SendInv, Next
    PROVE  NotHeldWhenRecycled'
<1> SUFFICES ASSUME worker' = "running", NEW c \in Conns,
                    connection'[c].place = "closed", ~SenderHas(c)'
             PROVE  connection'[c].throwSendMsgCount <= 0
  BY DEF NotHeldWhenRecycled
<1>1. /\ worker = "running" /\ PointerOf(c) /\ connection[c].throwSendMsgCount \in Int
      /\ sender \in SenderState
  BY PointerFacts DEF Next, SendInv, TypeOK, SenderState
<1>2. SenderHas(c) => c = pConn /\ sender.reply # None
  BY DEF SenderHas, pConn
<1>3. sender'.reply = sender.reply => ~SenderHas(c)
  <2>1. SUFFICES ASSUME sender'.reply = sender.reply, SenderHas(c) PROVE FALSE
    OBVIOUS
  <2>2. reply'[sender.reply].pConn = c /\ sender.reply # None
    BY <1>2, <2>1, HandKept
  <2>3. QED
    BY <2>1, <2>2 DEF SenderHas
<1>4. CASE Closes(c) \/ Opens(c) \/ Frees(c)
  BY <1>4 DEF Closes, Opens, Frees
<1>5. CASE ~SenderHas(c) /\ connection[c].place = "closed"
  <2>1. connection[c].throwSendMsgCount <= 0
    BY <1>1, <1>5 DEF SendInv, NotHeldWhenRecycled
  <2>2. ~Held(c)
    BY <1>5 DEF Held, HoldReply, SenderHas, pConn, SendInv, SenderInv, Holding
  <2>3. CASE Other(c) \/ Counted(c) \/ Taken(c) \/ Sent(c)
    BY <2>1, <2>3 DEF Other, Counted, Taken, Sent
  <2>4. CASE Released(c)
    BY <1>1, <2>1, <2>4 DEF Released
  <2>5. QED
    BY <1>4, <2>2, <2>3, <2>4, ObjectMoves
<1>6. CASE SenderHas(c) /\ connection[c].place = "closed"
  <2>1. /\ sender'.reply # sender.reply /\ sender.step \in Holding /\ c = pConn
    BY <1>2, <1>3, <1>6, HandKept
  <2>2. CASE SendWhole \/ SendFails
    <3>1. sender.step = "sending" /\ UNCHANGED connection
      BY <2>2 DEF SendWhole, SendFails, SendParts
    <3>2. connection[c].throwSendMsgCount <= 0
      BY <2>1, <3>1 DEF SendInv, SenderInv
    <3>3. QED
      BY <3>1, <3>2
  <2>3. CASE RegisterWritable
    <3>1. connection[c].sockFd = NoFd
      BY <1>1, <1>6 DEF PointerOf
    <3>2. QED
      BY <2>1, <2>3, <3>1 DEF RegisterWritable
  <2>4. SendWhole \/ SendFails \/ RegisterWritable
    <3>1. ~ UNCHANGED sender
      BY <2>1
    <3>2. SenderStep \/ WakeBySignal
      BY <3>1, WhoMoves
    <3>3. ~SendSome /\ ~SendWouldBlock /\ ~HoldReply
      BY <1>1, <2>1 DEF SendSome, SendWouldBlock, HoldReply, SenderState
    <3>4. QED
      BY <2>1, <3>1, <3>2, <3>3 DEF SenderStep, WakeBySignal, WakeUp, TestListSize, LockSendList,
         UnlockSendList, ReadFreedReply, DiscardStale, SkipBlocked, TakeReply, Scans,
         SendRaisesSigpipe, Holding
  <2>5. QED
    BY <2>2, <2>3, <2>4
<1>7. Closes(c) \/ Opens(c) \/ Frees(c) \/ connection[c].place = "closed"
  BY ObjectMoves DEF Other, Counted, Taken, Sent, Held, Released, Kept
<1>8. QED
  BY <1>4, <1>5, <1>6, <1>7

-----------------------------------------------------------------------------
(* How many elements of a sequence are in a set.                           *)

Places(s, R) == {i \in 1 .. Len(s) : s[i] \in R}

LEMMA PlacesFinite ==
    ASSUME NEW S, NEW s \in Seq(S), NEW R
    PROVE  IsFiniteSet(Places(s, R)) /\ Cardinality(Places(s, R)) \in Nat
<1>1. Len(s) \in Int /\ 1 \in Int
  BY LenProperties
<1>2. IsFiniteSet(1 .. Len(s))
  BY <1>1, FS_Interval
<1>3. Places(s, R) \in SUBSET (1 .. Len(s))
  BY DEF Places
<1>4. IsFiniteSet(Places(s, R))
  BY <1>2, <1>3, FS_Subset
<1>5. QED
  BY <1>4, FS_CardinalityType

LEMMA PlacesAfterAppend ==
    ASSUME NEW S, NEW s \in Seq(S), NEW x \in S, NEW R
    PROVE  Cardinality(Places(Append(s, x), R)) =
             Cardinality(Places(s, R)) + (IF x \in R THEN 1 ELSE 0)
<1> DEFINE n == Len(s)
           t == Append(s, x)
<1>1. n \in Nat /\ Len(t) = n + 1 /\ t[n + 1] = x /\ \A i \in 1 .. n : t[i] = s[i]
  BY AppendProperties, LenProperties
<1> HIDE DEF n, t
<1>2. /\ IsFiniteSet(Places(s, R)) /\ Cardinality(Places(s, R)) \in Nat
      /\ n + 1 \notin Places(s, R)
  <2>1. IsFiniteSet(Places(s, R)) /\ Cardinality(Places(s, R)) \in Nat
    BY PlacesFinite
  <2>2. n + 1 \notin Places(s, R)
    BY <1>1 DEF Places, n
  <2>3. QED
    BY <2>1, <2>2
<1>3. Places(t, R) = IF x \in R THEN Places(s, R) \cup {n + 1} ELSE Places(s, R)
  BY <1>1 DEF Places, n
<1>4. Cardinality(Places(s, R) \cup {n + 1}) = Cardinality(Places(s, R)) + 1
  BY <1>2, FS_AddElement
<1>5. QED
  BY <1>2, <1>3, <1>4 DEF t

LEMMA PlacesAfterErase ==
    ASSUME NEW S, NEW s \in Seq(S), NEW t \in Seq(S), NEW p \in 1 .. Len(s), NEW R,
           Len(t) = Len(s) - 1,
           \A i \in 1 .. Len(t) : t[i] = IF i < p THEN s[i] ELSE s[i + 1]
    PROVE  Cardinality(Places(t, R)) = Cardinality(Places(s, R)) - (IF s[p] \in R THEN 1 ELSE 0)
<1> DEFINE A == Places(t, R)
           B == Places(s, R) \ {p}
           f == [i \in A |-> IF i < p THEN i ELSE i + 1]
<1>1. Len(s) \in Nat /\ Len(t) \in Nat
  BY LenProperties
<1>2. f \in [A -> B]
  BY <1>1 DEF Places
<1>3. \A a, b \in A : f[a] = f[b] => a = b
  BY <1>1 DEF Places
<1>4. \A b \in B : \E a \in A : f[a] = b
  <2> TAKE b \in B
  <2>1. CASE b < p
    <3>1. b \in A
      BY <1>1, <2>1 DEF Places
    <3>2. QED
      BY <2>1, <3>1
  <2>2. CASE b > p
    <3>1. b - 1 \in A /\ ~(b - 1 < p) /\ (b - 1) + 1 = b
      BY <1>1, <2>2 DEF Places
    <3>2. QED
      BY <3>1
  <2>3. b < p \/ b > p
    BY <1>1 DEF Places
  <2>4. QED
    BY <2>1, <2>2, <2>3
<1> HIDE DEF f
<1>5. f \in Bijection(A, B)
  BY <1>2, <1>3, <1>4, Fun_IsBij
<1>6. ExistsBijection(A, B)
  BY <1>5 DEF ExistsBijection
<1>7. IsFiniteSet(A) /\ IsFiniteSet(Places(s, R)) /\ Cardinality(Places(s, R)) \in Nat
  BY PlacesFinite
<1>8. Cardinality(B) = Cardinality(A)
  <2> HIDE DEF A, B
  <2>1. QED
    BY <1>6, <1>7, FS_Bijection
<1>9. Cardinality(B) = IF p \in Places(s, R) THEN Cardinality(Places(s, R)) - 1
                                            ELSE Cardinality(Places(s, R))
  BY <1>7, FS_RemoveElement
<1>10. p \in Places(s, R) <=> s[p] \in R
  BY DEF Places
<1> HIDE DEF B
<1>11. QED
  BY <1>7, <1>8, <1>9, <1>10

-----------------------------------------------------------------------------
(* The counts of the list.                                                 *)

(* The replies to the present client of object c.                          *)
RepliesOf(c) ==
    {n \in 1 .. Len(reply) :
       reply[n].pConn = c /\ reply[n].currSequence = connection[c].currSequence}

LEMMA CountedAsPlaces ==
    ASSUME m_SendMsgList \in Seq(1 .. Len(reply))
    PROVE  QueueCounted <=>
             /\ m_SendMsgListSize = Len(m_SendMsgList)
             /\ \A c \in Online : connection[c].sendMsgListCount =
                   Cardinality(Places(m_SendMsgList, RepliesOf(c)))
<1>1. ASSUME NEW c \in Online
      PROVE  Places(m_SendMsgList, RepliesOf(c)) =
               {i \in 1 .. Len(m_SendMsgList) :
                  LET r == reply[m_SendMsgList[i]] IN
                  r.pConn = c /\ r.currSequence = connection[c].currSequence}
  <2>1. \A i \in 1 .. Len(m_SendMsgList) : m_SendMsgList[i] \in 1 .. Len(reply)
    BY ElementOfSeq
  <2>2. QED
    BY <2>1 DEF Places, RepliesOf
<1>2. QED
  BY <1>1 DEF QueueCounted

LEMMA PlacesSame ==
    ASSUME NEW s, NEW R, NEW Q, \A i \in 1 .. Len(s) : s[i] \in R <=> s[i] \in Q
    PROVE  Places(s, R) = Places(s, Q)
BY DEF Places

(* The replies to the present client, of those there were already, are the *)
(* same while the object has the same client.                              *)
LEMMA RepliesKept ==
    ASSUME SendInv, Next, NEW c \in Conns, connection'[c].currSequence = connection[c].currSequence,
           NEW n \in 1 .. Len(reply)
    PROVE  n \in RepliesOf(c)' <=> n \in RepliesOf(c)
<1>1. /\ Len(reply) \in Nat /\ Len(reply') \in Nat /\ Len(reply) <= Len(reply')
      /\ reply'[n].pConn = reply[n].pConn /\ reply'[n].currSequence = reply[n].currSequence
  BY RepliesMove DEF HeadersStay
<1>2. n \in 1 .. Len(reply')
  BY <1>1
<1>3. QED
  BY <1>1, <1>2 DEF RepliesOf

(* An object that keeps its client.                                        *)
LEMMA CountKept ==
    ASSUME SendInv, Next, NEW c \in Conns, Kept(c), connection[c].place = "online"
    PROVE  connection'[c].sendMsgListCount = Cardinality(Places(m_SendMsgList', RepliesOf(c)'))
<1>1. PICK R, Q : R = RepliesOf(c) /\ Q = RepliesOf(c)'
  OBVIOUS
<1>2. /\ m_SendMsgList \in Seq(1 .. Len(reply)) /\ Len(reply) \in Nat /\ TypeOK
      /\ m_SendMsgListSize \in Nat /\ connection[c].sendMsgListCount \in Int
  BY LenProperties DEF SendInv, TypeOK
<1>3. connection[c].sendMsgListCount = Cardinality(Places(m_SendMsgList, R))
  BY <1>1, <1>2, CountedAsPlaces DEF SendInv, Online
<1>4. \A n \in 1 .. Len(reply) : n \in Q <=> n \in R
  BY <1>1, RepliesKept DEF Kept
<1>5. \A i \in 1 .. Len(m_SendMsgList) : m_SendMsgList[i] \in Q <=> m_SendMsgList[i] \in R
  BY <1>2, <1>4, ElementOfSeq
<1>6. Places(m_SendMsgList, Q) = Places(m_SendMsgList, R)
  BY <1>5, PlacesSame
<1>7. Cardinality(Places(m_SendMsgList, Q)) \in Nat
  BY <1>2, PlacesFinite
<1>8. ASSUME Other(c) \/ Sent(c) \/ Held(c) \/ Released(c)
      PROVE  connection'[c].sendMsgListCount = connection[c].sendMsgListCount
  BY <1>8 DEF Other, Sent, Held, Released
<1>9. \A t \in LogicThreads : QueueFreedReply(t) => c # logic[t].pConn
  BY ClosesOne DEF Closes, Kept
<1>10. ~Closes(c) /\ ~Opens(c) /\ ~Frees(c)
  BY DEF Closes, Opens, Frees, Kept
<1>11. CASE UNCHANGED <<m_SendMsgList, m_SendMsgListSize>>
  <2>1. ~Taken(c)
    BY <1>2, <1>11 DEF Taken, TakeReply, EraseScanned
  <2>2. ~Counted(c)
    <3>1. \A t \in LogicThreads : PushReply(t) => m_SendMsgListSize' = m_SendMsgListSize + 1
      BY DEF PushReply, QueueReply
    <3>2. \A t \in LogicThreads : ~PushReply(t)
      BY <1>2, <1>11, <3>1
    <3>3. QED
      BY <3>2 DEF Counted
  <2>3. connection'[c].sendMsgListCount = connection[c].sendMsgListCount
    BY <1>8, <1>10, <2>1, <2>2, ObjectMoves
  <2>4. QED
    BY <1>1, <1>3, <1>6, <1>11, <2>3
<1>12. CASE DiscardStale \/ TakeReply
  <2>1. /\ m_SendMsgList' \in Seq(1 .. Len(reply)) /\ sender.pos \in 1 .. Len(m_SendMsgList)
        /\ Len(m_SendMsgList') = Len(m_SendMsgList) - 1
        /\ \A i \in 1 .. Len(m_SendMsgList') : m_SendMsgList'[i] =
             IF i < sender.pos THEN m_SendMsgList[i] ELSE m_SendMsgList[i + 1]
        /\ Scanned \in 1 .. Len(reply) /\ Scanned = m_SendMsgList[sender.pos]
        /\ Header = reply[Scanned]
    BY <1>12, EraseEffect DEF SendInv, DiscardStale, TakeReply, Scans, Scanned, Header
  <2>2. PICK s, u, p : s = m_SendMsgList /\ u = m_SendMsgList' /\ p = sender.pos
    OBVIOUS
  <2>3. Cardinality(Places(u, Q)) = Cardinality(Places(s, Q)) - (IF s[p] \in Q THEN 1 ELSE 0)
    <3>1. PICK N : N = 1 .. Len(reply)
      OBVIOUS
    <3>2. /\ s \in Seq(N) /\ u \in Seq(N) /\ p \in 1 .. Len(s) /\ Len(u) = Len(s) - 1
          /\ \A i \in 1 .. Len(u) : u[i] = IF i < p THEN s[i] ELSE s[i + 1]
      BY <1>2, <2>1, <2>2, <3>1
    <3>3. QED
      BY <3>2, PlacesAfterErase
  <2>4. s[p] \in Q <=> reply[Scanned].pConn = c
                         /\ reply[Scanned].currSequence = connection[c].currSequence
    BY <1>1, <1>4, <2>1, <2>2 DEF RepliesOf
  <2>5. CASE DiscardStale
    <3>1. UNCHANGED connection /\ s[p] \notin Q
      BY <2>1, <2>4, <2>5 DEF DiscardStale, Stale
    <3>2. QED
      BY <1>1, <1>3, <1>6, <1>7, <2>2, <2>3, <3>1
  <2>6. CASE TakeReply /\ c = Header.pConn
    <3>1. connection'[c].sendMsgListCount = connection[c].sendMsgListCount - 1
      BY <2>6, TakesOne DEF Taken
    <3>2. s[p] \in Q
      BY <2>1, <2>4, <2>6 DEF TakeReply, Stale
    <3>3. QED
      BY <1>1, <1>3, <1>6, <1>7, <2>2, <2>3, <3>1, <3>2
  <2>7. CASE TakeReply /\ c # Header.pConn
    <3>1. connection'[c].sendMsgListCount = connection[c].sendMsgListCount
      BY <2>7, TakesOne DEF Other
    <3>2. s[p] \notin Q
      BY <2>1, <2>4, <2>7
    <3>3. QED
      BY <1>1, <1>3, <1>6, <1>7, <2>2, <2>3, <3>1, <3>2
  <2>8. QED
    BY <1>12, <2>5, <2>6, <2>7
<1>13. ASSUME NEW t \in LogicThreads, NEW n \in Nat, m_SendMsgList' = Append(m_SendMsgList, n)
       PROVE  Cardinality(Places(m_SendMsgList', Q)) =
                Cardinality(Places(m_SendMsgList, Q)) + (IF n \in Q THEN 1 ELSE 0)
  <2>1. m_SendMsgList \in Seq(Nat)
    BY <1>2, SeqMonotonic, 1 .. Len(reply) \subseteq Nat
  <2>2. QED
    BY <1>13, <2>1, PlacesAfterAppend
<1>14. ASSUME NEW t \in LogicThreads, PushReply(t)
       PROVE  connection'[c].sendMsgListCount = Cardinality(Places(m_SendMsgList', Q))
  <2>1. PICK n \in Nat : n = Len(reply) + 1
    BY <1>2
  <2>2. m_SendMsgList' = Append(m_SendMsgList, n) /\ logic[t].step # "idle"
    BY <1>14, <2>1 DEF PushReply, QueueReply
  <2>3. /\ Len(reply') = n /\ reply'[n].pConn = logic[t].pConn
        /\ reply'[n].currSequence = logic[t].currSequence
    <3> DEFINE header == ReplyOf(t, TRUE)
    <3>1. /\ header \in Reply /\ header.pConn = logic[t].pConn
          /\ header.currSequence = logic[t].currSequence
      BY <2>2, HandlerFields
    <3>2. reply' = Append(reply, header)
      BY <1>14 DEF PushReply
    <3> HIDE DEF header
    <3>3. QED
      BY <1>2, <2>1, <3>1, <3>2, MoreReplies
  <2>4. n \in 1 .. Len(reply')
    BY <1>2, <2>1, <2>3
  <2>5. n \in Q <=> logic[t].pConn = c /\ logic[t].currSequence = connection[c].currSequence
    BY <1>1, <2>3, <2>4 DEF RepliesOf, Kept
  <2>6. CASE c = logic[t].pConn
    <3>1. logic[t].currSequence = connection[c].currSequence
      BY <2>2, <2>6 DEF SendInv, HeaderInv, HandlerInv
    <3>2. connection'[c].sendMsgListCount = connection[c].sendMsgListCount + 1
      BY <1>14, <2>6, CountsOne DEF Counted
    <3>3. QED
      BY <1>3, <1>6, <1>7, <1>13, <2>2, <2>5, <2>6, <3>1, <3>2
  <2>7. CASE c # logic[t].pConn
    <3>1. connection'[c].sendMsgListCount = connection[c].sendMsgListCount
      BY <1>14, <2>7, CountsOne DEF Other
    <3>2. QED
      BY <1>3, <1>6, <1>7, <1>13, <2>2, <2>5, <2>7, <3>1
  <2>8. QED
    BY <2>6, <2>7
<1>15. ASSUME NEW t \in LogicThreads, QueueFreedReply(t)
       PROVE  connection'[c].sendMsgListCount = Cardinality(Places(m_SendMsgList', Q))
  <2>1. PICK n \in Nat : n = Len(reply)
    BY <1>2
  <2>2. /\ m_SendMsgList' = Append(m_SendMsgList, n) /\ logic[t].step = "cutting"
        /\ UNCHANGED reply
    BY <1>15, <2>1 DEF QueueFreedReply
  <2>3. reply[n].pConn = logic[t].pConn /\ logic[t].pConn \in Conns /\ c # logic[t].pConn
    BY <1>9, <1>15, <2>1, <2>2 DEF SendInv, HeaderInv, CutInv, HandlerInv
  <2>4. n \notin Q
    BY <1>1, <2>2, <2>3 DEF RepliesOf
  <2>5. connection'[c].sendMsgListCount = connection[c].sendMsgListCount
    BY <1>15, <2>3, ClosesOne DEF Other
  <2>6. QED
    BY <1>3, <1>6, <1>7, <1>13, <2>2, <2>4, <2>5
<1>16. QED
  BY <1>1, <1>11, <1>12, <1>14, <1>15, WhoMoves

LEMMA SizeStep ==
    ASSUME SendInv, Next
    PROVE  m_SendMsgListSize' = Len(m_SendMsgList')
<1>1. /\ m_SendMsgList \in Seq(1 .. Len(reply)) /\ Len(m_SendMsgList) \in Nat /\ Len(reply) \in Nat
      /\ m_SendMsgListSize = Len(m_SendMsgList)
  BY LenProperties DEF SendInv, TypeOK, QueueCounted
<1>2. CASE UNCHANGED <<m_SendMsgList, m_SendMsgListSize>>
  BY <1>1, <1>2
<1>3. CASE DiscardStale \/ TakeReply
  <2>1. Len(m_SendMsgList') = Len(m_SendMsgList) - 1
    BY <1>3, EraseEffect DEF SendInv, DiscardStale, TakeReply
  <2>2. m_SendMsgListSize' = m_SendMsgListSize - 1
    BY <1>3 DEF DiscardStale, TakeReply, EraseScanned
  <2>3. QED
    BY <1>1, <2>1, <2>2
<1>4. ASSUME NEW t \in LogicThreads, PushReply(t) \/ QueueFreedReply(t)
      PROVE  m_SendMsgListSize' = Len(m_SendMsgList')
  <2>1. /\ \/ m_SendMsgList' = Append(m_SendMsgList, Len(reply) + 1)
           \/ m_SendMsgList' = Append(m_SendMsgList, Len(reply))
        /\ m_SendMsgListSize' = m_SendMsgListSize + 1
    BY <1>4 DEF PushReply, QueueReply, QueueFreedReply
  <2>2. m_SendMsgList \in Seq(Nat)
    BY <1>1, SeqMonotonic, 1 .. Len(reply) \subseteq Nat
  <2>3. Len(reply) + 1 \in Nat
    BY <1>1
  <2>4. Len(m_SendMsgList') = Len(m_SendMsgList) + 1
    BY <1>1, <2>1, <2>2, <2>3, AppendProperties
  <2>5. QED
    BY <1>1, <2>1, <2>4
<1>5. QED
  BY <1>2, <1>3, <1>4, WhoMoves

LEMMA CountStep ==
    ASSUME SendInv, Next
    PROVE  QueueCounted'
<1>1. /\ (m_SendMsgList \in Seq(1 .. Len(reply)))'
      /\ Len(reply) \in Nat
  BY TypeStep, LenProperties DEF SendInv, TypeOK
<1>2. ASSUME NEW c \in Conns, connection'[c].place = "online"
      PROVE  connection'[c].sendMsgListCount = Cardinality(Places(m_SendMsgList', RepliesOf(c)'))
  <2>1. CASE Opens(c)
    <3>1. UNCHANGED <<reply, m_SendMsgList>>
      BY <2>1 DEF Opens, AcceptClient, list
    <3>2. connection[c].currSequence \in Nat
      BY DEF SendInv, TypeOK
    <3>3. ASSUME NEW n \in 1 .. Len(reply), reply[n].pConn = c
          PROVE  reply[n].currSequence # connection[c].currSequence + 1
      <4>1. Known(reply[n]) /\ reply[n].currSequence \in Nat
        BY ListedReply
      <4>2. reply[n].currSequence <= connection[c].currSequence
        BY <3>3, <4>1 DEF Known, KnownAs
      <4>3. QED
        BY <3>2, <4>1, <4>2
    <3>4. RepliesOf(c)' = {}
      BY <2>1, <3>1, <3>3 DEF RepliesOf, Opens
    <3>5. Places(m_SendMsgList', RepliesOf(c)') = {}
      BY <3>4 DEF Places
    <3>6. QED
      BY <2>1, <3>5, FS_EmptySet DEF Opens
  <2>2. CASE ~Opens(c)
    <3>1. Kept(c)
      BY <1>2, <2>2, ObjectMoves
         DEF Other, Counted, Taken, Sent, Held, Released, Kept, Closes, Frees
    <3>2. connection[c].place = "online"
      BY <1>2, <3>1 DEF Kept
    <3>3. QED
      BY <3>1, <3>2, CountKept
  <2>3. QED
    BY <2>1, <2>2
<1>3. ASSUME NEW c \in Online'
      PROVE  Places(m_SendMsgList', RepliesOf(c)') =
               {i \in 1 .. Len(m_SendMsgList') :
                  LET r == reply'[m_SendMsgList'[i]] IN
                  r.pConn = c /\ r.currSequence = connection'[c].currSequence}
  <2>1. \A i \in 1 .. Len(m_SendMsgList') : m_SendMsgList'[i] \in 1 .. Len(reply')
    BY <1>1, ElementOfSeq
  <2>2. QED
    BY <2>1 DEF Places, RepliesOf
<1>4. ASSUME NEW c \in Online'
      PROVE  connection'[c].sendMsgListCount = Cardinality(Places(m_SendMsgList', RepliesOf(c)'))
  BY <1>2 DEF Online
<1>5. QED
  BY <1>3, <1>4, SizeStep DEF QueueCounted

-----------------------------------------------------------------------------
(* The theorems.                                                           *)

LEMMA InitSatisfies ==
    ASSUME Init
    PROVE  SendInv
<1> USE DEF Init
<1>1. TypeOK
  <2>1. Len(reply) = 0 /\ ReplyLength \in Nat
    BY SendConstants
  <2>2. /\ 0 \in 0 .. Len(reply) /\ 0 \in 0 .. ReplyLength
        /\ accepted \in 0 .. MaxClients
    BY <2>1, SendConstants
  <2>3. connection \in [Conns -> Object]
    BY <2>2 DEF Object, None, NoFd
  <2>4. /\ m_SendMsgList \in Seq(1 .. Len(reply)) /\ reply \in Seq(Reply)
        /\ received \in [Clients -> Seq(1 .. Len(reply))]
    BY EmptySeq
  <2>5. logic \in [LogicThreads -> HandlerState]
    BY DEF Idle, HandlerState
  <2>6. sender \in SenderState
    BY <2>2 DEF SenderState, None
  <2>7. QED
    BY <2>2, <2>3, <2>4, <2>5, <2>6 DEF TypeOK, Object, Reply, HandlerState, SenderState
<1>2. Len(m_SendMsgList) = 0 /\ Len(reply) = 0
  OBVIOUS
<1>3. SenderInv /\ CutInv /\ RepliesInv /\ HandlerInv /\ EpollInv /\ WakeInv /\ NoReplyLeaked
  BY <1>2 DEF SenderInv, CutInv, RepliesInv, HandlerInv, EpollInv, WakeInv, NoReplyLeaked,
     Holding, Idle
<1>4. PointerInv /\ QueueCounted /\ NotHeldWhenRecycled
  BY <1>2 DEF PointerInv, QueueCounted, NotHeldWhenRecycled, Online
<1>5. QED
  BY <1>1, <1>3, <1>4 DEF SendInv, HeaderInv

LEMMA StepPreserves ==
    ASSUME SendInv, [Next]_vars
    PROVE  SendInv'
<1>1. CASE UNCHANGED vars
  <2>1. UNCHANGED <<m_SendMsgList, m_SendMsgListSize, m_SendMsgListMutex, g_SendMsgPushEventSem,
                    reply, connection, socketOf, status, sender, logic, epoll, worker>>
    BY <1>1 DEF vars, list, kernel
  <2>2. (SenderInv /\ HeaderInv)'
    BY <2>1 DEF SendInv, HeaderInv, SenderInv, CutInv, RepliesInv, HandlerInv, Known, KnownAs,
       pConn
  <2>3. (PointerInv /\ EpollInv /\ WakeInv)'
    BY <2>1 DEF SendInv, PointerInv, EpollInv, WakeInv, Ready, HungUp, ShutDown
  <2>4. (QueueCounted /\ NoReplyLeaked /\ NotHeldWhenRecycled)'
    BY <2>1 DEF SendInv, QueueCounted, Online, NoReplyLeaked, Listed, NotHeldWhenRecycled,
       SenderHas, pConn
  <2>5. QED
    BY <2>2, <2>3, <2>4, TypeStep DEF SendInv
<1>2. CASE Next
  BY <1>2, TypeStep, SenderStepInv, CutStep, RepliesStep, HandlerStep, PointerStep, EpollStepInv,
     WakeStepInv, CountStep, LeakStep, HeldStep DEF SendInv, HeaderInv
<1>3. QED
  BY <1>1, <1>2

(* SendInv holds in every state of the send list and its sender.           *)
THEOREM InvariantHolds == Spec => []SendInv
<1>1. Init => SendInv
  BY InitSatisfies
<1>2. SendInv /\ [Next]_vars => SendInv'
  BY StepPreserves
<1>3. QED
  BY <1>1, <1>2, PTL DEF Spec

(* Every member and local variable of the send list, its threads and the   *)
(* connections keeps its type.                                             *)
THEOREM TypeCorrect == Spec => []TypeOK
<1>1. SendInv => TypeOK
  BY DEF SendInv
<1>2. QED
  BY <1>1, InvariantHolds, PTL

(* m_SendMsgListSize is the length of the list, and what is compared with  *)
(* MAX_EACHCONN_SENDCOUNT is the number of the present client's replies.   *)
THEOREM CountsAreRight == Spec => []QueueCounted
<1>1. SendInv => QueueCounted
  BY DEF SendInv
<1>2. QED
  BY <1>1, InvariantHolds, PTL

(* SendMsgThread does not go to sleep over a reply it could send.          *)
THEOREM NobodyWaitsInVain == Spec => []NoReplyForgotten
<1>1. SendInv => NoReplyForgotten
  <2> SUFFICES ASSUME SendInv, sender.step = "waiting", g_SendMsgPushEventSem = 0,
                      NEW i \in 1 .. Len(m_SendMsgList)
               PROVE  LET r == reply[m_SendMsgList[i]] IN
                      \/ ~r.live
                      \/ connection[r.pConn].currSequence # r.currSequence
                      \/ connection[r.pConn].throwSendMsgCount > 0
                      \/ status[r.client] # "here"
    BY DEF NoReplyForgotten
  <2>1. PICK n \in 1 .. Len(reply) : n = m_SendMsgList[i]
    BY ElementOfSeq DEF SendInv, TypeOK
  <2>2. connection[reply[n].pConn].throwSendMsgCount \in Int
    BY ListedReply, PointerFacts
  <2>3. ~Ready(n)
    BY <2>1 DEF SendInv, WakeInv, Holding
  <2>4. QED
    BY <2>1, <2>2, <2>3 DEF Ready
<1>2. QED
  BY <1>1, InvariantHolds, PTL

(* The memory of a reply is lost only to a client that has shut down its   *)
(* side of the connection.                                                 *)
THEOREM MemoryIsFreed == Spec => []NoReplyLeaked
<1>1. SendInv => NoReplyLeaked
  BY DEF SendInv
<1>2. QED
  BY <1>1, InvariantHolds, PTL

(* The recycling thread never finds a connection that still counts a reply *)
(* it waits to complete.                                                   *)
THEOREM NothingHeldAtRecycling == Spec => []NotHeldWhenRecycled
<1>1. SendInv => NotHeldWhenRecycled
  BY DEF SendInv
<1>2. QED
  BY <1>1, InvariantHolds, PTL

-----------------------------------------------------------------------------
(* Replies arrive whole and in order.                                      *)

(* Clients are numbered as they are accepted.                              *)
ClientsInv ==
    /\ \A c \in Online : connection[c].client <= accepted
    /\ \A r \in 1 .. Len(reply) : reply[r].client <= accepted
    /\ \A t \in LogicThreads : logic[t].step # "idle" => logic[t].client <= accepted

OwnHeader(c, header) ==
    header.client = connection[c].client =>
      header.pConn = c /\ header.currSequence = connection[c].currSequence

(* A client is served by one object, and every header that names it names  *)
(* that object and its present sequence number.                            *)
OwnerInv ==
    \A c \in Online :
      /\ \A d \in Online : connection[d].client = connection[c].client => d = c
      /\ \A r \in 1 .. Len(reply) : OwnHeader(c, reply[r])
      /\ \A t \in LogicThreads : logic[t].step # "idle" => OwnHeader(c, logic[t])

(* The list is in the order the replies were made; the reply in hand was   *)
(* taken from where the sender stands.                                     *)
ListInv ==
    /\ \A i, j \in 1 .. Len(m_SendMsgList) : i < j => m_SendMsgList[i] < m_SendMsgList[j]
    /\ \A t \in LogicThreads : logic[t].step = "cutting" => ~Listed(Len(reply))
    /\ sender.reply # None =>
         \A i \in 1 .. Len(m_SendMsgList) :
           IF i < sender.pos THEN m_SendMsgList[i] < sender.reply
                             ELSE m_SendMsgList[i] > sender.reply

(* What the sender has in hand is alive, not all of it is sent, and the    *)
(* descriptor it has loaded is the one of the reply's client.              *)
HandInv ==
    /\ sender.step \in {"sending", "holding"} =>
         reply[sender.reply].live /\ connection[pConn].sendMsgLen > 0
    /\ sender.step = "sending" =>
         \A c \in Conns : Served(c) /\ reply[sender.reply].client = connection[c].client =>
           sender.fd = connection[c].sockFd

(* The sender has passed a reply to a connected client only if another one *)
(* is held.                                                                *)
ScanInv ==
    sender.step \in {"scanning"} \cup Holding =>
      \A c \in Conns : Served(c) /\ connection[c].throwSendMsgCount <= 0 =>
        \A i \in 1 .. Len(m_SendMsgList) :
          i < sender.pos => m_SendMsgList[i] \notin RepliesTo(connection[c].client)

(* A connected client's object holds one reply at most, which is alive and *)
(* not finished, and epoll is asked for the descriptor once it is held.    *)
Completes(c, held) ==
    /\ held # None /\ reply[held].live /\ ~Listed(held)
    /\ connection[c].sendMsgLen > 0
    /\ \/ writable[connection[c].sockFd]
       \/ sender.step = "registering" /\ sender.reply # None /\ pConn = c

HoldsOf(c) ==
    LET held == connection[c].pSendMsgMemPointer IN
    /\ held # None => reply[held].pConn = c
    /\ connection[c].place = "online" => connection[c].throwSendMsgCount <= 1
    /\ Served(c) /\ connection[c].throwSendMsgCount > 0 => Completes(c, held)

HoldInv == \A c \in Conns : HoldsOf(c)

(* How much a connected client has got of reply r: nothing before it is    *)
(* sent, all of it afterwards, and what is not left of it in between.      *)
Unsent(r) ==
    \/ Listed(r)
    \/ sender.step = "sending" /\ sender.reply = r
Begun(c, r) ==
    \/ connection[c].throwSendMsgCount > 0 /\ connection[c].pSendMsgMemPointer = r
    \/ sender.step = "holding" /\ sender.reply = r
Due(c, r) ==
    IF Unsent(r) THEN 0
    ELSE IF Begun(c, r) THEN ReplyLength - connection[c].sendMsgLen
    ELSE ReplyLength

PartsInv ==
    \A c \in Conns : Served(c) =>
      \A r \in RepliesTo(connection[c].client) : PartsOf(r, connection[c].client) = Due(c, r)

WholeInv ==
    \A c \in Conns : Served(c) =>
      LET k == connection[c].client IN
      \A r, s \in RepliesTo(k) : r < s /\ PartsOf(s, k) > 0 => PartsOf(r, k) = ReplyLength

OrderInv ==
    \A c \in Conns : Served(c) =>
      LET k == connection[c].client IN
      \A i, j \in 1 .. Len(received[k]) :
        i < j /\ received[k][i] \in RepliesTo(k) /\ received[k][j] \in RepliesTo(k) =>
          received[k][i] <= received[k][j]

StreamInv ==
    /\ ClientsInv /\ OwnerInv /\ ListInv /\ HandInv /\ ScanInv /\ HoldInv
    /\ PartsInv /\ WholeInv /\ OrderInv

(* The object that serves the client accepted in this step.                *)
Fresh(c) ==
    /\ AcceptClient
    /\ connection[c].place = "free"
    /\ connection'[c].place = "online"
    /\ connection'[c].client = accepted + 1
    /\ connection'[c].throwSendMsgCount = 0
    /\ connection'[c].pSendMsgMemPointer = None
    /\ connection'[c].sockFd \in Fds
    /\ socketOf[connection'[c].sockFd] = None
    /\ socketOf' = [socketOf EXCEPT ![connection'[c].sockFd] = accepted + 1]

LEMMA AcceptsOne ==
    ASSUME SendInv, AcceptClient
    PROVE  \E c \in Conns : Fresh(c) /\ \A d \in Conns : d # c => Other(d)
<1>1. TypeOK
  BY DEF SendInv
<1> DEFINE k == accepted + 1
<1>2. PICK c \in Conns, f \in Fds :
        /\ connection[c].place = "free"
        /\ socketOf[f] = None
        /\ socketOf' = [socketOf EXCEPT ![f] = k]
        /\ connection' = [connection EXCEPT ![c] =
             [place |-> "online", sockFd |-> f, client |-> k,
              currSequence |-> @.currSequence + 1, throwSendMsgCount |-> 0,
              sendMsgListCount |-> 0, pSendMsgMemPointer |-> None, sendMsgLen |-> 0]]
  BY DEF AcceptClient
<1>3. k \in Clients
  BY <1>1, SendConstants DEF AcceptClient, TypeOK, Clients
<1>4. k = accepted + 1
  OBVIOUS
<1> HIDE DEF k
<1>5. PICK p \in Object : Serves(c, p, f, k)
  <2>1. connection' = [connection EXCEPT ![c] =
             [place |-> "online", sockFd |-> f, client |-> k,
              currSequence |-> @.currSequence + 1, throwSendMsgCount |-> 0,
              sendMsgListCount |-> 0, pSendMsgMemPointer |-> None, sendMsgLen |-> 0]]
    BY <1>2
  <2> HIDE DEF Object, Clients
  <2>2. QED
    BY <1>1, <1>3, <2>1, AcceptEffect
<1> HIDE DEF Object
<1>6. QED
  BY <1>2, <1>4, <1>5 DEF Fresh, Serves, Writes, Other

(* An object in use after a step has been in use before, with the same     *)
(* client and descriptor, or has been opened.                              *)
LEMMA OnlineMoves ==
    ASSUME SendInv, Next, NEW c \in Conns, connection'[c].place = "online"
    PROVE  \/ connection[c].place = "online" /\ Kept(c) /\ ~Opens(c) /\ ~Closes(c) /\ ~Frees(c)
           \/ Fresh(c)
<1>1. CASE Opens(c)
  <2>1. PICK d \in Conns : Fresh(d) /\ \A e \in Conns : e # d => Other(e)
    BY <1>1, AcceptsOne DEF Opens
  <2>2. d = c
    BY <1>1, <2>1 DEF Opens, Other
  <2>3. QED
    BY <2>1, <2>2
<1>2. CASE Kept(c) \/ Other(c)
  BY <1>2 DEF Kept, Other, Opens, Closes, Frees
<1>3. ~Closes(c) /\ ~Frees(c)
  BY DEF Closes, Frees
<1>4. QED
  BY <1>1, <1>2, <1>3, ObjectMoves DEF Counted, Taken, Sent, Held, Released

(* What a thread of the pool works on after a step it has worked on before,*)
(* or it has been given a message of an object in use.                     *)
LEMMA HandlerWorks ==
    ASSUME SendInv, Next, NEW t \in LogicThreads, logic'[t].step # "idle"
    PROVE  \/ /\ logic[t].step # "idle"
              /\ logic'[t].pConn = logic[t].pConn /\ logic'[t].client = logic[t].client
              /\ logic'[t].currSequence = logic[t].currSequence
           \/ /\ UNCHANGED <<reply, connection, accepted>>
              /\ \E c \in Online :
                   /\ logic'[t].pConn = c /\ logic'[t].client = connection[c].client
                   /\ logic'[t].currSequence = connection[c].currSequence
                   /\ logic'[t].step = "replying"
<1>1. logic \in [LogicThreads -> HandlerState]
  BY DEF SendInv, TypeOK, HandlerState
<1>2. CASE UNCHANGED logic
  BY <1>2
<1>3. ASSUME NEW u \in LogicThreads, HandleMessage(u)
      PROVE  /\ UNCHANGED <<reply, connection, accepted>>
             /\ \/ logic'[t] = logic[t]
                \/ \E c \in Online :
                     logic'[t] = [step |-> "replying", pConn |-> c,
                                  currSequence |-> connection[c].currSequence,
                                  client |-> connection[c].client]
  BY <1>1, <1>3 DEF HandleMessage, kernel
<1>4. ASSUME NEW u \in LogicThreads, PushReply(u) \/ QueueFreedReply(u)
      PROVE  logic'[t] = logic[t]
  <2>1. logic' = [logic EXCEPT ![u] = Idle]
    BY <1>4 DEF PushReply, QueueFreedReply
  <2>2. Idle.step = "idle"
    BY DEF Idle
  <2>3. QED
    BY <1>1, <2>1, <2>2
<1>5. ASSUME NEW u \in LogicThreads, CutSlowClient(u)
      PROVE  /\ logic[t].step # "idle" /\ logic'[t].pConn = logic[t].pConn
             /\ logic'[t].client = logic[t].client
             /\ logic'[t].currSequence = logic[t].currSequence
  BY <1>1, <1>5 DEF CutSlowClient, HandlerState
<1>6. CASE \E u \in LogicThreads : HandleMessage(u)
  <2>1. /\ UNCHANGED <<reply, connection, accepted>>
        /\ \/ logic'[t] = logic[t]
           \/ \E c \in Online :
                logic'[t] = [step |-> "replying", pConn |-> c,
                             currSequence |-> connection[c].currSequence,
                             client |-> connection[c].client]
    BY <1>3, <1>6
  <2>2. CASE logic'[t] = logic[t]
    BY <2>2
  <2>3. ASSUME NEW c \in Online,
               logic'[t] = [step |-> "replying", pConn |-> c,
                             currSequence |-> connection[c].currSequence,
                             client |-> connection[c].client]
        PROVE  /\ logic'[t].pConn = c /\ logic'[t].client = connection[c].client
               /\ logic'[t].currSequence = connection[c].currSequence
               /\ logic'[t].step = "replying"
    BY <2>3
  <2>4. QED
    BY <2>1, <2>2, <2>3
<1>7. CASE \E u \in LogicThreads : PushReply(u) \/ QueueFreedReply(u)
  BY <1>4, <1>7
<1>8. CASE \E u \in LogicThreads : CutSlowClient(u)
  BY <1>5, <1>8
<1>9. QED
  BY <1>2, <1>6, <1>7, <1>8, WhoMoves

(* What becomes of the kernel's side.                                      *)
LEMMA KernelMoves ==
    ASSUME Next
    PROVE  /\ \/ UNCHANGED writable
              \/ RegisterWritable \/ CloseSocket \/ \E t \in LogicThreads : CutSlowClient(t)
           /\ UNCHANGED received \/ SendWhole \/ SendSome
           /\ UNCHANGED accepted \/ AcceptClient
<1>1. CASE SenderStep \/ WakeBySignal
  BY <1>1 DEF SenderStep, WakeUp, WakeBySignal, TestListSize, LockSendList, UnlockSendList,
         ReadFreedReply, DiscardStale, SkipBlocked, TakeReply, SendWhole, SendSome,
         SendWouldBlock, SendFails, SendRaisesSigpipe, HoldReply, RegisterWritable, kernel,
         SendParts
<1>2. CASE EpollStep \/ AcceptClient \/ FetchHangUp \/ KickFlood \/ Recycle
  BY <1>2 DEF EpollStep, ReadRest, CloseSocket, FinishClose, ReleaseHold, AcceptClient,
         FetchHangUp, KickFlood, Recycle, kernel
<1>3. ASSUME NEW t \in LogicThreads, HandleMessage(t) \/ PushStep(t)
      PROVE  /\ UNCHANGED <<received, accepted>>
             /\ UNCHANGED writable \/ CutSlowClient(t)
  BY <1>3 DEF PushStep, HandleMessage, PushReply, PushOverloaded, CutSlowClient,
         QueueFreedReply, kernel
<1>4. CASE \E t \in LogicThreads : HandleMessage(t) \/ PushStep(t)
  BY <1>3, <1>4
<1>5. ASSUME NEW k \in Clients, HangUp(k)
      PROVE  UNCHANGED <<writable, received, accepted>>
  BY <1>5 DEF HangUp
<1>6. QED
  BY <1>1, <1>2, <1>4, <1>5 DEF Next

LEMMA SocketsMove ==
    ASSUME SendInv, Next, NEW f \in Fds
    PROVE  \/ socketOf'[f] = socketOf[f]
           \/ /\ socketOf'[f] = None
              /\ \/ CloseSocket /\ connection[epoll.pConn].sockFd = f
                 \/ \E t \in LogicThreads :
                      CutSlowClient(t) /\ connection[logic[t].pConn].sockFd = f
           \/ AcceptClient /\ socketOf[f] = None /\ socketOf'[f] = accepted + 1
<1>1. socketOf \in [Fds -> Clients \cup {None}]
  BY DEF SendInv, TypeOK
<1>2. CASE AcceptClient
  BY <1>1, <1>2 DEF AcceptClient
<1>3. CASE CloseSocket
  BY <1>1, <1>3 DEF CloseSocket
<1>4. ASSUME NEW t \in LogicThreads, CutSlowClient(t)
      PROVE  \/ socketOf'[f] = socketOf[f]
             \/ socketOf'[f] = None /\ connection[logic[t].pConn].sockFd = f
  BY <1>1, <1>4 DEF CutSlowClient
<1>5. QED
  BY <1>2, <1>3, <1>4, WhoMoves

LEMMA AcceptedGrows ==
    ASSUME SendInv, Next
    PROVE  accepted \in Nat /\ accepted' \in Nat /\ accepted <= accepted'
<1>1. accepted \in Nat
  BY SendConstants DEF SendInv, TypeOK
<1>2. QED
  BY <1>1, KernelMoves DEF AcceptClient

(* A reply that is made goes to a client accepted before.                  *)
LEMMA ReplyClients ==
    ASSUME SendInv, ClientsInv, Next, NEW r \in 1 .. Len(reply')
    PROVE  reply'[r].client <= accepted
<1>1. CASE r \in 1 .. Len(reply)
  BY <1>1, RepliesMove DEF HeadersStay, ClientsInv
<1>2. CASE r \notin 1 .. Len(reply)
  <2>1. PICK t \in LogicThreads :
          logic[t].step # "idle" /\ \E live \in BOOLEAN : reply'[r] = ReplyOf(t, live)
    BY <1>2, NewReply
  <2>2. QED
    BY <2>1, HandlerFields DEF ClientsInv
<1>3. QED
  BY <1>1, <1>2

LEMMA ClientsStep ==
    ASSUME SendInv, ClientsInv, Next
    PROVE  ClientsInv'
<1>1. accepted \in Nat /\ accepted' \in Nat /\ accepted <= accepted'
  BY AcceptedGrows
<1>2. ASSUME NEW c \in Conns, connection'[c].place = "online"
      PROVE  connection'[c].client <= accepted'
  <2>1. CASE connection[c].place = "online" /\ Kept(c)
    <3>1. connection[c].client \in Int /\ connection[c].client <= accepted
      BY <2>1, PointerFacts DEF ClientsInv, Clients, Online, PointerOf
    <3>2. QED
      BY <1>1, <2>1, <3>1 DEF Kept
  <2>2. CASE Fresh(c)
    BY <1>1, <2>2 DEF Fresh, AcceptClient
  <2>3. QED
    BY <1>2, <2>1, <2>2, OnlineMoves
<1>3. ASSUME NEW r \in 1 .. Len(reply')
      PROVE  reply'[r].client <= accepted'
  <2>1. reply'[r].client <= accepted
    BY ReplyClients
  <2>2. reply' \in Seq(Reply)
    BY TypeStep DEF TypeOK, Reply
  <2>3. reply'[r].client \in Int
    <3>1. PICK headers : headers = reply'
      OBVIOUS
    <3> HIDE DEF Reply
    <3>2. headers[r] \in Reply
      BY <2>2, <3>1, ElementOfSeq
    <3>3. QED
      BY <3>1, <3>2 DEF Reply, Clients
  <2>4. QED
    BY <1>1, <2>1, <2>3
<1>4. ASSUME NEW t \in LogicThreads, logic'[t].step # "idle"
      PROVE  logic'[t].client <= accepted'
  <2>1. CASE logic[t].step # "idle" /\ logic'[t].client = logic[t].client
    <3>1. logic[t].client \in Int /\ logic[t].client <= accepted
      BY <2>1 DEF ClientsInv, SendInv, HeaderInv, HandlerInv, Clients
    <3>2. QED
      BY <1>1, <2>1, <3>1
  <2>2. ASSUME NEW c \in Online, logic'[t].client = connection[c].client
        PROVE  logic'[t].client <= accepted'
    <3>1. connection[c].client \in Int /\ connection[c].client <= accepted
      BY PointerFacts DEF ClientsInv, Clients, Online, PointerOf
    <3>2. QED
      BY <1>1, <2>2, <3>1
  <2>3. QED
    BY <1>4, <2>1, <2>2, HandlerWorks
<1>5. QED
  BY <1>2, <1>3, <1>4 DEF ClientsInv, Online

(* A client that is served after a step has been served by the same object *)
(* before, or has been accepted.                                           *)
LEMMA ServedMoves ==
    ASSUME SendInv, ClientsInv, Next, NEW c \in Conns, Served(c)'
    PROVE  \/ /\ Served(c) /\ connection[c].place = "online" /\ Kept(c)
              /\ connection[c].client \in Clients
              /\ ~Opens(c) /\ ~Closes(c) /\ ~Frees(c)
           \/ Fresh(c)
<1>1. connection'[c].place = "online"
  BY DEF Served, Online
<1>2. CASE connection[c].place = "online" /\ Kept(c) /\ ~Opens(c) /\ ~Closes(c) /\ ~Frees(c)
  <2>1. PICK k, f : k = connection[c].client /\ f = connection[c].sockFd
    OBVIOUS
  <2>2. k \in Clients /\ k <= accepted /\ k \in Int /\ accepted \in Nat
    BY <1>2, <2>1, PointerFacts, AcceptedGrows DEF PointerOf, ClientsInv, Online, Clients
  <2>3. /\ connection'[c].client = k /\ connection'[c].sockFd = f
        /\ f # NoFd /\ socketOf'[f] = k /\ ~HungUp(k)'
    BY <1>2, <2>1 DEF Kept, Served, Attached, HungUp
  <2>4. f \in Fds
    BY <2>1, <2>3 DEF SendInv, TypeOK
  <2>5. k # accepted + 1 /\ k # None
    BY <2>2 DEF None, Clients
  <2>6. socketOf[f] = k
    BY <2>3, <2>4, <2>5, SocketsMove
  <2>7. ~HungUp(k)
    BY <2>2, <2>3, ClientsLeave
  <2>8. Served(c)
    BY <1>2, <2>1, <2>3, <2>6, <2>7 DEF Served, Attached, Online, HungUp
  <2>9. QED
    BY <1>2, <2>1, <2>2, <2>8
<1>3. QED
  BY <1>1, <1>2, OnlineMoves

(* One object is opened at most, for a client without replies yet.         *)
LEMMA FreshFacts ==
    ASSUME SendInv, ClientsInv, Next, NEW c \in Conns, Fresh(c)
    PROVE  /\ accepted \in Nat
           /\ \A d \in Conns : d # c => Other(d)
           /\ \A d \in Online : connection[d].client # connection'[c].client
           /\ \A r \in 1 .. Len(reply') : reply'[r].client # connection'[c].client
           /\ \A t \in LogicThreads :
                logic'[t].step # "idle" => logic'[t].client # connection'[c].client
<1>1. accepted \in Nat /\ connection'[c].client = accepted + 1
  BY AcceptedGrows DEF Fresh
<1>2. \A d \in Conns : d # c => Other(d)
  <2>1. PICK e \in Conns : \A d \in Conns : d # e => Other(d)
    BY AcceptsOne DEF Fresh
  <2>2. e = c
    BY <2>1 DEF Fresh, Other
  <2>3. QED
    BY <2>1, <2>2
<1>3. ASSUME NEW n, n <= accepted
      PROVE  n # accepted + 1
  BY <1>1, <1>3
<1>4. \A d \in Online : connection[d].client # connection'[c].client
  BY <1>1, <1>3 DEF ClientsInv
<1>5. \A r \in 1 .. Len(reply') : reply'[r].client # connection'[c].client
  BY <1>1, <1>3, ReplyClients
<1>6. ASSUME NEW t \in LogicThreads, logic'[t].step # "idle"
      PROVE  logic'[t].client # connection'[c].client
  <2>1. ~ UNCHANGED connection
    BY DEF Fresh
  <2>2. logic[t].step # "idle" /\ logic'[t].client = logic[t].client
    BY <1>6, <2>1, HandlerWorks
  <2>3. QED
    BY <1>1, <1>3, <2>2 DEF ClientsInv
<1>7. QED
  BY <1>1, <1>2, <1>4, <1>5, <1>6

LEMMA OwnerStep ==
    ASSUME SendInv, ClientsInv, OwnerInv, Next
    PROVE  OwnerInv'
<1> SUFFICES ASSUME NEW c \in Conns, connection'[c].place = "online"
             PROVE  /\ \A d \in Conns : connection'[d].place = "online"
                          /\ connection'[d].client = connection'[c].client => d = c
                    /\ \A r \in 1 .. Len(reply') : OwnHeader(c, reply[r])'
                    /\ \A t \in LogicThreads : logic'[t].step # "idle" => OwnHeader(c, logic[t])'
  BY DEF OwnerInv, Online
<1>1. CASE Fresh(c)
  <2>1. ASSUME NEW d \in Conns, connection'[d].place = "online",
               connection'[d].client = connection'[c].client
        PROVE  d = c
    BY <1>1, <2>1, FreshFacts DEF Other, Online
  <2>2. QED
    BY <1>1, <2>1, FreshFacts DEF OwnHeader
<1>2. CASE c \in Online /\ Kept(c) /\ ~Fresh(c)
  <2>1. ASSUME NEW d \in Conns, connection'[d].place = "online",
               connection'[d].client = connection'[c].client
        PROVE  d = c
    <3>1. CASE Fresh(d)
      BY <1>2, <2>1, <3>1, FreshFacts DEF Kept
    <3>2. CASE d \in Online /\ Kept(d)
      BY <1>2, <2>1, <3>2 DEF OwnerInv, Kept
    <3>3. QED
      BY <2>1, <3>1, <3>2, OnlineMoves DEF Online
  <2>2. ASSUME NEW r \in 1 .. Len(reply')
        PROVE  OwnHeader(c, reply[r])'
    <3>1. CASE r \in 1 .. Len(reply)
      <4>1. OwnHeader(c, reply[r])
        BY <1>2, <3>1 DEF OwnerInv
      <4>2. QED
        BY <1>2, <3>1, <4>1, RepliesMove DEF HeadersStay, OwnHeader, Kept
    <3>2. CASE r \notin 1 .. Len(reply)
      <4>1. PICK t \in LogicThreads :
              logic[t].step # "idle" /\ \E live \in BOOLEAN : reply'[r] = ReplyOf(t, live)
        BY <3>2, NewReply
      <4>2. /\ reply'[r].client = logic[t].client /\ reply'[r].pConn = logic[t].pConn
            /\ reply'[r].currSequence = logic[t].currSequence
        BY <4>1, HandlerFields
      <4>3. OwnHeader(c, logic[t])
        BY <1>2, <4>1 DEF OwnerInv
      <4>4. QED
        BY <1>2, <4>2, <4>3 DEF OwnHeader, Kept
    <3>3. QED
      BY <3>1, <3>2
  <2>3. ASSUME NEW t \in LogicThreads, logic'[t].step # "idle"
        PROVE  OwnHeader(c, logic[t])'
    <3>1. CASE /\ logic[t].step # "idle"
               /\ logic'[t].pConn = logic[t].pConn /\ logic'[t].client = logic[t].client
               /\ logic'[t].currSequence = logic[t].currSequence
      <4>1. OwnHeader(c, logic[t])
        BY <1>2, <3>1 DEF OwnerInv
      <4>2. QED
        BY <1>2, <3>1, <4>1 DEF OwnHeader, Kept
    <3>2. ASSUME NEW d \in Online, logic'[t].pConn = d, logic'[t].client = connection[d].client,
                 logic'[t].currSequence = connection[d].currSequence
          PROVE  OwnHeader(c, logic[t])'
      <4>1. connection[d].client = connection[c].client => d = c
        BY <1>2, <3>2 DEF OwnerInv
      <4>2. QED
        BY <1>2, <3>2, <4>1 DEF OwnHeader, Kept
    <3>3. QED
      BY <2>3, <3>1, <3>2, HandlerWorks
  <2>4. QED
    BY <2>1, <2>2, <2>3
<1>3. QED
  BY <1>1, <1>2, OnlineMoves DEF Online

(* A thread that cuts a client goes on until the reply is queued.          *)
LEMMA CuttingGoesOn ==
    ASSUME SendInv, Next, NEW t \in LogicThreads
    PROVE  /\ logic[t].step = "cutting" => logic'[t] = logic[t] \/ QueueFreedReply(t)
           /\ logic'[t].step = "cutting" => logic'[t] = logic[t] \/ CutSlowClient(t)
           /\ CutSlowClient(t) => /\ logic'[t].step = "cutting"
                                  /\ logic'[t].pConn = logic[t].pConn
<1>1. logic \in [LogicThreads -> HandlerState]
  BY DEF SendInv, TypeOK, HandlerState
<1>2. CASE UNCHANGED logic
  <2>1. ~CutSlowClient(t)
    BY <1>1, <1>2 DEF CutSlowClient, HandlerState
  <2>2. QED
    BY <1>2, <2>1
<1>3. ASSUME NEW u \in LogicThreads, HandleMessage(u)
      PROVE  \/ logic'[t] = logic[t]
             \/ logic[t].step # "cutting" /\ logic'[t].step = "replying"
  BY <1>1, <1>3 DEF HandleMessage
<1>4. ASSUME NEW u \in LogicThreads, PushReply(u) \/ QueueFreedReply(u)
      PROVE  /\ logic'[t] = logic[t] \/ (t = u /\ logic'[t] = Idle)
             /\ PushReply(u) => logic[u].step = "replying"
  BY <1>1, <1>4 DEF PushReply, QueueFreedReply
<1>5. ASSUME NEW u \in LogicThreads, CutSlowClient(u)
      PROVE  logic' = [logic EXCEPT ![u].step = "cutting"] /\ logic[u].step = "replying"
  BY <1>1, <1>5 DEF CutSlowClient
<1>6. Idle.step = "idle"
  BY DEF Idle
<1>7. CASE \E u \in LogicThreads : HandleMessage(u)
  <2>1. ~CutSlowClient(t)
    <3>1. PICK u \in LogicThreads : HandleMessage(u)
      BY <1>7
    <3>2. logic'[u].step = "replying" /\ logic[u].step = "idle"
      BY <1>1, <3>1 DEF HandleMessage
    <3>3. SUFFICES ASSUME CutSlowClient(t) PROVE FALSE
      OBVIOUS
    <3>4. u = t
      BY <1>1, <1>5, <3>2, <3>3
    <3>5. logic[t].step = "replying"
      BY <1>5, <3>3
    <3>6. QED
      BY <3>2, <3>4, <3>5
  <2>2. QED
    BY <1>3, <1>7, <2>1
<1>8. CASE \E u \in LogicThreads : PushReply(u) \/ QueueFreedReply(u)
  <2>1. PICK u \in LogicThreads : PushReply(u) \/ QueueFreedReply(u)
    BY <1>8
  <2>2. logic' = [logic EXCEPT ![u] = Idle]
    BY <2>1 DEF PushReply, QueueFreedReply
  <2>3. ~CutSlowClient(t)
    <3>1. SUFFICES ASSUME CutSlowClient(t) PROVE FALSE
      OBVIOUS
    <3>2. logic[t].step = "replying" /\ logic'[t].step = "cutting"
      BY <1>1, <1>5, <3>1 DEF HandlerState
    <3>3. QED
      BY <1>1, <1>6, <2>2, <3>2
  <2>4. QED
    BY <1>4, <1>6, <2>1, <2>3
<1>9. CASE \E u \in LogicThreads : CutSlowClient(u)
  <2>1. PICK u \in LogicThreads : CutSlowClient(u)
    BY <1>9
  <2>2. logic' = [logic EXCEPT ![u].step = "cutting"] /\ logic[u].step = "replying"
    BY <1>5, <2>1
  <2>3. /\ t # u => logic'[t] = logic[t]
        /\ logic'[u].step = "cutting" /\ logic'[u].pConn = logic[u].pConn
    BY <1>1, <2>2 DEF HandlerState
  <2>4. t # u => ~CutSlowClient(t)
    BY <1>1, <1>5, <2>2, <2>3
  <2>5. QED
    BY <2>1, <2>2, <2>3, <2>4
<1>10. QED
  BY <1>2, <1>7, <1>8, <1>9, WhoMoves

-----------------------------------------------------------------------------
(* The list and its order.                                                 *)

(* A reply is added at the end, by a thread that has the mutex.            *)
Adds(x) ==
    /\ m_SendMsgList' = Append(m_SendMsgList, x)
    /\ \A i \in 1 .. Len(m_SendMsgList) : m_SendMsgList[i] < x
    /\ sender.step \notin {"scanning"} \cup Holding
    /\ UNCHANGED sender
    /\ \E t \in LogicThreads :
         \/ PushReply(t) /\ x = Len(reply) + 1
         \/ QueueFreedReply(t) /\ x = Len(reply)

(* The reply the sender looks at is erased.                                *)
Erases ==
    /\ DiscardStale \/ TakeReply
    /\ sender.step = "scanning"
    /\ sender.reply = None
    /\ sender.pos \in 1 .. Len(m_SendMsgList)
    /\ sender'.pos = sender.pos
    /\ Len(m_SendMsgList') = Len(m_SendMsgList) - 1
    /\ \A i \in 1 .. Len(m_SendMsgList') :
         m_SendMsgList'[i] = IF i < sender.pos THEN m_SendMsgList[i] ELSE m_SendMsgList[i + 1]

LEMMA ListMoves ==
    ASSUME SendInv, ListInv, Next
    PROVE  /\ Len(m_SendMsgList) \in Nat /\ Len(reply) \in Nat
           /\ \A i \in 1 .. Len(m_SendMsgList) : m_SendMsgList[i] \in 1 .. Len(reply)
           /\ \/ UNCHANGED m_SendMsgList
              \/ Erases
              \/ \E x \in 1 .. Len(reply') : Adds(x)
<1>1. /\ m_SendMsgList \in Seq(1 .. Len(reply)) /\ Len(reply) \in Nat
      /\ Len(m_SendMsgList) \in Nat /\ TypeOK /\ sender \in SenderState
  BY LenProperties DEF SendInv, TypeOK, SenderState
<1>2. \A i \in 1 .. Len(m_SendMsgList) : m_SendMsgList[i] \in 1 .. Len(reply)
  BY <1>1, ElementOfSeq
<1>3. CASE DiscardStale \/ TakeReply
  <2>1. Scans /\ EraseScanned
    BY <1>3 DEF DiscardStale, TakeReply
  <2>2. sender.reply = None /\ sender.step = "scanning" /\ sender.pos \in 1 .. Len(m_SendMsgList)
    BY <2>1 DEF Scans, SendInv, SenderInv, Holding
  <2>3. sender'.pos = sender.pos
    BY <1>1, <1>3 DEF DiscardStale, TakeReply, SenderState
  <2>4. QED
    BY <1>1, <1>2, <1>3, <2>1, <2>2, <2>3, EraseEffect DEF SendInv, Erases
<1>4. ASSUME NEW t \in LogicThreads, PushReply(t)
      PROVE  \E x \in 1 .. Len(reply') : Adds(x)
  <2>1. /\ m_SendMsgList' = Append(m_SendMsgList, Len(reply) + 1)
        /\ m_SendMsgListMutex = "free" /\ UNCHANGED sender
        /\ logic[t].step # "idle"
        /\ reply' = Append(reply, ReplyOf(t, TRUE))
    BY <1>4 DEF PushReply, QueueReply
  <2>2. Len(reply') = Len(reply) + 1
    <3>1. PICK header \in Reply : header = ReplyOf(t, TRUE)
      BY <2>1, HandlerFields
    <3>2. reply' = Append(reply, header)
      BY <2>1, <3>1
    <3>3. QED
      BY <1>1, <3>2, MoreReplies
  <2>3. sender.step \notin {"scanning"} \cup Holding
    BY <2>1, SendConstants DEF SendInv, SenderInv
  <2>4. \A i \in 1 .. Len(m_SendMsgList) : m_SendMsgList[i] < Len(reply) + 1
    BY <1>1, <1>2
  <2>5. Adds(Len(reply) + 1)
    BY <1>4, <2>1, <2>3, <2>4 DEF Adds
  <2>6. QED
    BY <1>1, <2>2, <2>5
<1>5. ASSUME NEW t \in LogicThreads, QueueFreedReply(t)
      PROVE  \E x \in 1 .. Len(reply') : Adds(x)
  <2>1. /\ m_SendMsgList' = Append(m_SendMsgList, Len(reply))
        /\ UNCHANGED <<sender, reply>> /\ logic[t].step = "cutting"
    BY <1>5 DEF QueueFreedReply
  <2>2. m_SendMsgListMutex = t /\ Len(reply) > 0 /\ ~Listed(Len(reply))
    BY <2>1 DEF SendInv, HeaderInv, CutInv, ListInv
  <2>3. sender.step \notin {"scanning"} \cup Holding
    BY <2>2, SendConstants DEF SendInv, SenderInv
  <2>4. \A i \in 1 .. Len(m_SendMsgList) : m_SendMsgList[i] < Len(reply)
    BY <1>1, <1>2, <2>2 DEF Listed
  <2>5. Adds(Len(reply))
    BY <1>5, <2>1, <2>3, <2>4 DEF Adds
  <2>6. QED
    BY <1>1, <2>1, <2>2, <2>5
<1>6. QED
  BY <1>1, <1>2, <1>3, <1>4, <1>5, WhoMoves

LEMMA AddsEffect ==
    ASSUME SendInv, NEW x, x \in 1 .. Len(reply'), Adds(x)
    PROVE  /\ Len(m_SendMsgList') = Len(m_SendMsgList) + 1
           /\ m_SendMsgList'[Len(m_SendMsgList) + 1] = x
           /\ \A i \in 1 .. Len(m_SendMsgList) : m_SendMsgList'[i] = m_SendMsgList[i]
           /\ sender.reply = None /\ sender'.reply = None
<1>1. m_SendMsgList \in Seq(Int)
  <2>1. \A q \in Seq(1 .. Len(reply)) : q \in Seq(Int)
    BY LenProperties, SeqMonotonic DEF SendInv, TypeOK
  <2>2. QED
    BY <2>1 DEF SendInv, TypeOK
<1>2. x \in Int /\ m_SendMsgList' = Append(m_SendMsgList, x)
  BY DEF Adds
<1>3. sender.reply = None /\ sender'.reply = None
  BY DEF SendInv, SenderInv, Adds
<1>4. QED
  BY <1>1, <1>2, <1>3, AppendProperties

(* The sender keeps the reply it has in hand, or has taken it.             *)
LEMMA HandMoves ==
    ASSUME SendInv, Next, sender'.reply # None
    PROVE  \/ /\ TakeReply
              /\ sender'.reply = Scanned /\ sender'.pos = sender.pos /\ sender'.step = "sending"
              /\ sender'.fd = connection[Header.pConn].sockFd
              /\ UNCHANGED reply
           \/ /\ ~TakeReply
              /\ sender.reply # None /\ sender'.reply = sender.reply /\ sender'.pos = sender.pos
              /\ sender.step \in Holding /\ sender'.fd = sender.fd
              /\ \/ UNCHANGED sender
                 \/ SendSome /\ sender'.step = "holding"
                 \/ SendWouldBlock /\ sender'.step = "holding"
                 \/ HoldReply /\ sender'.step = "registering"
<1>1. /\ sender \in SenderState /\ TypeOK
      /\ sender.step \in Holding <=> sender.reply # None
  BY DEF SendInv, SenderInv, TypeOK, SenderState
<1>2. CASE UNCHANGED sender
  <2>1. ~TakeReply
    <3>1. TakeReply => sender.step = "scanning" /\ sender'.step = "sending"
      BY <1>1 DEF TakeReply, Scans, SenderState
    <3>2. QED
      BY <1>2, <3>1
  <2>2. QED
    BY <1>1, <1>2, <2>1
<1>3. ~SendWhole /\ ~SendFails /\ ~RegisterWritable
  BY <1>1, BackFields DEF SendWhole, SendFails, RegisterWritable
<1>4. CASE WakeUp \/ WakeBySignal \/ TestListSize \/ LockSendList \/ UnlockSendList \/ SkipBlocked
  <2>1. sender'.reply = sender.reply /\ sender.step \notin Holding
    BY <1>1, <1>4 DEF WakeUp, WakeBySignal, TestListSize, LockSendList, UnlockSendList,
       SkipBlocked, Scans, SenderState, Holding
  <2>2. QED
    BY <1>1, <2>1
<1>5. CASE TakeReply
  BY <1>1, <1>5 DEF TakeReply, SenderState
<1>6. CASE SendSome \/ SendWouldBlock \/ HoldReply
  <2>1. /\ sender.step \in Holding /\ ~TakeReply
        /\ \/ SendSome /\ sender' = [sender EXCEPT !.step = "holding"]
           \/ SendWouldBlock /\ sender' = [sender EXCEPT !.step = "holding"]
           \/ HoldReply /\ sender' = [sender EXCEPT !.step = "registering"]
    BY <1>6 DEF SendSome, SendParts, SendWouldBlock, HoldReply, TakeReply, Scans, Holding
  <2>2. QED
    BY <1>1, <2>1 DEF SenderState
<1>7. QED
  <2>1. UNCHANGED sender \/ SenderStep \/ WakeBySignal
    BY WhoMoves
  <2>2. ReadFreedReply \/ DiscardStale \/ SendRaisesSigpipe => UNCHANGED sender
    BY DEF ReadFreedReply, DiscardStale, SendRaisesSigpipe
  <2>3. QED
    BY <1>2, <1>3, <1>4, <1>5, <1>6, <2>1, <2>2 DEF SenderStep

LEMMA ListStep ==
    ASSUME SendInv, ListInv, Next
    PROVE  ListInv'
<1>1. PICK q, n : q = m_SendMsgList /\ n = Len(m_SendMsgList)
  OBVIOUS
<1>2. PICK s : s = m_SendMsgList'
  OBVIOUS
<1>3. /\ n = Len(q) /\ n \in Nat /\ Len(reply) \in Nat /\ \A i \in 1 .. n : q[i] \in 1 .. Len(reply)
      /\ s = q \/ Erases \/ \E x \in 1 .. Len(reply') : Adds(x)
  BY <1>1, <1>2, ListMoves
<1>4. /\ \A i, j \in 1 .. n : i < j => q[i] < q[j]
      /\ sender.reply # None =>
           \A i \in 1 .. n : IF i < sender.pos THEN q[i] < sender.reply ELSE q[i] > sender.reply
  BY <1>1 DEF ListInv
<1>5. ASSUME Erases
      PROVE  /\ sender.pos \in 1 .. n /\ Len(s) = n - 1
             /\ \A i \in 1 .. n - 1 : s[i] = IF i < sender.pos THEN q[i] ELSE q[i + 1]
  BY <1>1, <1>2, <1>5 DEF Erases
<1>6. ASSUME NEW x \in 1 .. Len(reply'), Adds(x)
      PROVE  /\ Len(s) = n + 1 /\ s[n + 1] = x /\ \A i \in 1 .. n : s[i] = q[i] /\ q[i] < x
  BY <1>1, <1>2, <1>6, AddsEffect DEF Adds
<1>7. \A i, j \in 1 .. Len(s) : i < j => s[i] < s[j]
  <2>1. CASE s = q
    BY <1>3, <1>4, <2>1
  <2>2. CASE Erases
    <3> TAKE i, j \in 1 .. Len(s)
    <3>1. PICK a \in 1 .. n : a = (IF i < sender.pos THEN i ELSE i + 1) /\ s[i] = q[a]
      BY <1>3, <1>5, <2>2
    <3>2. PICK b \in 1 .. n : b = (IF j < sender.pos THEN j ELSE j + 1) /\ s[j] = q[b]
      BY <1>3, <1>5, <2>2
    <3>3. i < j => a < b
      BY <1>3, <1>5, <2>2, <3>1, <3>2
    <3>4. QED
      BY <1>4, <3>1, <3>2, <3>3
  <2>3. ASSUME NEW x \in 1 .. Len(reply'), Adds(x)
        PROVE  \A i, j \in 1 .. Len(s) : i < j => s[i] < s[j]
    <3>1. Len(s) = n + 1 /\ s[n + 1] = x /\ \A i \in 1 .. n : s[i] = q[i] /\ q[i] < x
      BY <1>6, <2>3
    <3> TAKE i, j \in 1 .. Len(s)
    <3>2. i \in 1 .. n + 1 /\ j \in 1 .. n + 1
      BY <3>1
    <3>3. CASE j = n + 1
      <4>1. i < j => i \in 1 .. n
        BY <1>3, <3>2, <3>3
      <4>2. QED
        BY <3>1, <3>3, <4>1
    <3>4. CASE j # n + 1
      <4>1. i < j => i \in 1 .. n /\ j \in 1 .. n
        BY <1>3, <3>2, <3>4
      <4>2. QED
        BY <1>4, <3>1, <4>1
    <3>5. QED
      BY <3>3, <3>4
  <2>4. QED
    BY <1>3, <2>1, <2>2, <2>3
<1>8. ASSUME NEW t \in LogicThreads, logic'[t].step = "cutting"
      PROVE  ~Listed(Len(reply))'
  <2>1. CASE CutSlowClient(t)
    <3>1. Len(reply') = Len(reply) + 1
      <4>1. logic[t].step # "idle" /\ reply' = Append(reply, ReplyOf(t, FALSE)) /\ TypeOK
        BY <2>1 DEF CutSlowClient, SendInv
      <4>2. PICK header \in Reply : header = ReplyOf(t, FALSE)
        BY <4>1, HandlerFields
      <4>3. reply' = Append(reply, header)
        BY <4>1, <4>2
      <4>4. QED
        BY <4>1, <4>3, MoreReplies
    <3>2. s = q
      BY <1>1, <1>2, <2>1 DEF CutSlowClient
    <3>3. \A i \in 1 .. n : q[i] # Len(reply) + 1
      BY <1>3
    <3>4. QED
      BY <1>1, <1>2, <3>1, <3>2, <3>3 DEF Listed
  <2>2. CASE logic'[t] = logic[t]
    <3>1. m_SendMsgListMutex = t /\ t # "free" /\ t # "sender" /\ ~Listed(Len(reply))
      BY <1>8, <2>2, SendConstants DEF SendInv, HeaderInv, CutInv, ListInv
    <3>2. \A u \in LogicThreads : ~PushReply(u) /\ ~CutSlowClient(u)
      BY <3>1 DEF PushReply, CutSlowClient
    <3>3. \A u \in LogicThreads : ~QueueFreedReply(u)
      <4> SUFFICES ASSUME NEW u \in LogicThreads, QueueFreedReply(u)
                   PROVE  FALSE
        OBVIOUS
      <4>1. logic[u].step = "cutting" /\ logic' = [logic EXCEPT ![u] = Idle]
        BY DEF QueueFreedReply
      <4>2. u = t
        BY <3>1, <4>1 DEF SendInv, HeaderInv, CutInv
      <4>3. logic \in [LogicThreads -> HandlerState] /\ Idle.step = "idle"
        BY DEF SendInv, TypeOK, HandlerState, Idle
      <4>4. QED
        BY <1>8, <4>1, <4>2, <4>3
    <3>4. sender.step # "scanning"
      BY <3>1 DEF SendInv, SenderInv
    <3>5. s = q
      BY <1>3, <3>2, <3>3, <3>4 DEF Erases, Adds
    <3>6. Len(reply') = Len(reply)
      <4>1. Len(reply') \in Nat /\ Len(reply) <= Len(reply')
        BY RepliesMove DEF HeadersStay
      <4>2. Len(reply) + 1 \notin 1 .. Len(reply')
        <5>1. PICK r : r = Len(reply) + 1
          OBVIOUS
        <5>2. r \notin 1 .. Len(reply)
          BY <1>3, <5>1
        <5>3. r \notin 1 .. Len(reply')
          BY <3>2, <5>2, NewReply
        <5>4. QED
          BY <5>1, <5>3
      <4>3. QED
        BY <1>3, <4>1, <4>2
    <3>7. QED
      BY <1>1, <1>2, <3>1, <3>5, <3>6 DEF Listed
  <2>3. QED
    BY <1>8, <2>1, <2>2, CuttingGoesOn
<1>9. ASSUME sender'.reply # None, NEW i \in 1 .. Len(s)
      PROVE  IF i < sender'.pos THEN s[i] < sender'.reply ELSE s[i] > sender'.reply
  <2>1. CASE TakeReply /\ sender'.reply = Scanned /\ sender'.pos = sender.pos
    <3>1. sender.step = "scanning" /\ sender'.step = "sending"
      BY <1>9, <2>1, HandMoves DEF TakeReply, Scans, Holding
    <3>2. Erases
      <4>1. s # q
        BY <1>1, <1>2, <2>1, EraseEffect DEF TakeReply, SendInv
      <4>2. QED
        BY <1>3, <3>1, <4>1 DEF Adds
    <3>3. Scanned = q[sender.pos]
      BY <1>1 DEF Scanned
    <3>4. PICK p : p = sender.pos /\ sender'.pos = p /\ sender'.reply = q[p]
      BY <2>1, <3>3
    <3>5. /\ p \in 1 .. n /\ Len(s) = n - 1
          /\ \A j \in 1 .. n - 1 : s[j] = IF j < p THEN q[j] ELSE q[j + 1]
      BY <1>5, <3>2, <3>4
    <3>6. /\ i \in 1 .. n - 1 /\ i \in 1 .. n /\ i + 1 \in 1 .. n
          /\ q[i] \in Int /\ q[i + 1] \in Int /\ q[p] \in Int
      <4>1. i \in 1 .. n - 1
        BY <3>5
      <4>2. i \in 1 .. n /\ i + 1 \in 1 .. n
        BY <1>3, <4>1
      <4>3. QED
        BY <1>3, <3>5, <4>1, <4>2
    <3>7. CASE i < p
      BY <1>4, <3>4, <3>5, <3>6, <3>7
    <3>8. CASE ~(i < p)
      <4>1. p < i + 1
        BY <3>5, <3>6, <3>8
      <4>2. q[p] < q[i + 1]
        BY <1>4, <3>5, <3>6, <4>1
      <4>3. s[i] = q[i + 1]
        BY <3>5, <3>6, <3>8
      <4>4. QED
        BY <3>4, <3>6, <3>8, <4>2, <4>3
    <3>9. QED
      BY <3>7, <3>8
  <2>2. CASE /\ sender.reply # None /\ sender'.reply = sender.reply /\ sender'.pos = sender.pos
             /\ sender.step \in Holding
    <3>1. s = q
      BY <1>3, <2>2 DEF Erases, Adds
    <3>2. QED
      BY <1>3, <1>4, <2>2, <3>1
  <2>3. QED
    BY <1>9, <2>1, <2>2, HandMoves
<1>10. QED
  BY <1>2, <1>7, <1>8, <1>9 DEF ListInv

(* What is freed: an expired reply, one the sender has done with, or what a*)
(* connection that is recycled points to.                                  *)
LEMMA FreedReply ==
    ASSUME SendInv, Next, NEW r \in 1 .. Len(reply), reply[r].live, ~reply'[r].live
    PROVE  \/ DiscardStale /\ r = Scanned
           \/ (SendWhole \/ SendFails) /\ r = sender.reply
           \/ \E d \in Conns :
                /\ connection[d].place = "closed" /\ connection[d].pSendMsgMemPointer = r
                /\ sender.reply # None => pConn # d
<1>1. TypeOK /\ Len(reply) \in Nat
  BY LenProperties DEF SendInv, TypeOK
<1>2. ASSUME NEW n \in 0 .. Len(reply), reply' = [reply EXCEPT ![n].live = FALSE]
      PROVE  r = n
  BY <1>1, <1>2, FreeReply
<1>3. CASE DiscardStale
  <2>1. Scanned \in 0 .. Len(reply) /\ reply' = [reply EXCEPT ![Scanned].live = FALSE]
    BY <1>1, <1>3, Looks DEF DiscardStale
  <2>2. QED
    BY <1>2, <1>3, <2>1
<1>4. CASE SendWhole \/ SendFails
  <2>1. sender.reply \in 0 .. Len(reply) /\ reply' = [reply EXCEPT ![sender.reply].live = FALSE]
    BY <1>4, FreeSentTypes DEF SendWhole, SendFails, SendParts
  <2>2. QED
    BY <1>2, <1>4, <2>1
<1>5. CASE Recycle
  <2>1. PICK d \in Conns :
          /\ connection[d].place = "closed"
          /\ sender.step \in {"sending", "holding", "registering"} => pConn # d
          /\ LET n == connection[d].pSendMsgMemPointer IN
             reply' = IF n = None THEN reply ELSE [reply EXCEPT ![n].live = FALSE]
    BY <1>5 DEF Recycle
  <2>2. PICK n : n = connection[d].pSendMsgMemPointer
    OBVIOUS
  <2>3. n \in 0 .. Len(reply) /\ reply' = [reply EXCEPT ![n].live = FALSE]
    BY <2>1, <2>2, PointerFacts
  <2>4. sender.reply # None => pConn # d
    BY <2>1 DEF SendInv, SenderInv, Holding
  <2>5. QED
    BY <1>2, <2>1, <2>2, <2>3, <2>4
<1>6. ASSUME NEW t \in LogicThreads, PushReply(t) \/ CutSlowClient(t)
      PROVE  FALSE
  <2>1. PICK live \in BOOLEAN : logic[t].step # "idle" /\ reply' = Append(reply, ReplyOf(t, live))
    BY <1>6 DEF PushReply, CutSlowClient
  <2>2. PICK header \in Reply : header = ReplyOf(t, live)
    BY <2>1, HandlerFields
  <2>3. reply' = Append(reply, header)
    BY <2>1, <2>2
  <2>4. reply'[r] = reply[r]
    BY <1>1, <2>3, MoreReplies
  <2>5. QED
    BY <2>4
<1>7. ~ UNCHANGED reply
  OBVIOUS
<1>8. QED
  BY <1>3, <1>4, <1>5, <1>6, <1>7, WhoMoves

(* How much of the reply in hand is left.                                  *)
LEMMA SendSomeLeaves ==
    ASSUME SendInv, SendSome
    PROVE  /\ pConn \in Conns
           /\ connection[pConn].sendMsgLen = ReplyLength
           /\ \E n \in 1 .. ReplyLength - 1 :
                SendParts(n) /\ connection'[pConn].sendMsgLen = ReplyLength - n
<1>1. sender.step = "sending"
  BY DEF SendSome, SendParts
<1>2. /\ pConn \in Conns /\ connection[pConn] \in Object
      /\ connection[pConn].sendMsgLen = ReplyLength
  BY <1>1, InHand DEF SendInv, SenderInv, Holding
<1>3. PICK n \in 1 .. ReplyLength - 1 :
        SendParts(n) /\ connection' = [connection EXCEPT ![pConn].sendMsgLen = @ - n]
  BY DEF SendSome
<1>4. PICK c : c = pConn
  OBVIOUS
<1>5. connection'[c].sendMsgLen = connection[c].sendMsgLen - n
  <2>1. connection \in [Conns -> Object]
    BY DEF SendInv, TypeOK, Object
  <2>2. connection'[c] = [connection[c] EXCEPT !.sendMsgLen = connection[c].sendMsgLen - n]
    BY <1>2, <1>3, <1>4, <2>1
  <2>3. QED
    BY <1>2, <1>4, <2>2 DEF Object
<1>6. QED
  BY <1>2, <1>3, <1>4, <1>5

LEMMA HandStep ==
    ASSUME SendInv, ClientsInv, OwnerInv, HandInv, HoldInv, Next
    PROVE  HandInv'
<1>1. ASSUME sender'.step \in {"sending", "holding"}
      PROVE  reply'[sender'.reply].live /\ connection'[reply'[sender'.reply].pConn].sendMsgLen > 0
  <2>1. sender'.reply # None /\ ReplyLength > 0
    BY <1>1, SenderStepInv, SendConstants DEF SenderInv, Holding
  <2>2. CASE TakeReply /\ sender'.reply = Scanned /\ UNCHANGED reply
    <3>1. Taken(Header.pConn)
      BY <2>2, TakesOne
    <3>2. QED
      BY <2>1, <2>2, <3>1 DEF Taken, TakeReply, Header
  <2>3. CASE /\ sender.reply # None /\ sender'.reply = sender.reply
             /\ \/ UNCHANGED sender
                \/ SendSome /\ sender'.step = "holding"
                \/ SendWouldBlock /\ sender'.step = "holding"
    <3>1. PICK r : r = sender.reply
      OBVIOUS
    <3>2. /\ sender.step \in {"sending", "holding"}
          /\ r \in 1 .. Len(reply) /\ reply[r].pConn = pConn /\ reply'[r].pConn = pConn
      BY <1>1, <2>3, <3>1, HandKept DEF SendSome, SendParts, SendWouldBlock, pConn
    <3>3. reply[r].live /\ connection[pConn].sendMsgLen > 0
      BY <3>1, <3>2 DEF HandInv
    <3>4. reply'[r].live
      <4>1. ~DiscardStale \/ r # Scanned
        BY <3>2 DEF DiscardStale, Scans
      <4>2. ~SendWhole /\ ~SendFails
        <5>1. sender'.reply # None
          BY <2>1
        <5>2. QED
          BY <5>1, BackFields DEF SendWhole, SendFails, SendInv
      <4>3. \A d \in Conns : pConn # d => connection[d].pSendMsgMemPointer # r
        BY <2>1, <2>3, <3>1, <3>2 DEF HoldInv, HoldsOf
      <4>4. SUFFICES ASSUME ~reply'[r].live PROVE FALSE
        OBVIOUS
      <4>5. QED
        BY <2>3, <3>2, <3>3, <4>1, <4>2, <4>3, <4>4, FreedReply
    <3>5. connection'[pConn].sendMsgLen > 0
      <4>1. CASE UNCHANGED sender
        BY <2>3, <3>3, <4>1, OthersSpare
      <4>2. CASE SendSome
        BY <4>2, SendSomeLeaves, SendConstants
      <4>3. CASE SendWouldBlock
        BY <3>3, <4>3 DEF SendWouldBlock
      <4>4. QED
        BY <2>3, <4>1, <4>2, <4>3
    <3>6. QED
      BY <2>3, <3>1, <3>2, <3>4, <3>5
  <2>4. QED
    BY <1>1, <2>1, <2>2, <2>3, HandMoves
<1>2. ASSUME sender'.step = "sending", NEW c \in Conns, Served(c)',
             reply'[sender'.reply].client = connection'[c].client
      PROVE  sender'.fd = connection'[c].sockFd
  <2>1. sender'.reply # None
    BY <1>2, SenderStepInv DEF SenderInv, Holding
  <2>2. sender'.reply \in 1 .. Len(reply')
    <3>1. (sender' \in SenderState') /\ Len(reply) \in Nat /\ Len(reply') \in Nat
      BY TypeStep, RepliesMove DEF TypeOK, SenderState, HeadersStay
    <3>2. QED
      BY <2>1, <3>1 DEF SenderState, None
  <2>3. Served(c) /\ connection[c].place = "online" /\ Kept(c)
    BY <1>2, <2>2, ServedMoves, FreshFacts
  <2>4. CASE TakeReply /\ sender'.reply = Scanned /\ sender'.fd = connection[Header.pConn].sockFd
             /\ UNCHANGED reply
    <3>1. reply[Scanned].client = connection[c].client /\ Scanned \in 1 .. Len(reply)
      BY <1>2, <2>2, <2>3, <2>4 DEF Kept
    <3>2. Header.pConn = c
      BY <2>3, <3>1 DEF OwnerInv, OwnHeader, Header, Online
    <3>3. QED
      BY <2>3, <2>4, <3>2 DEF Kept
  <2>5. CASE UNCHANGED sender /\ sender.reply # None
    <3>1. reply'[sender.reply].client = reply[sender.reply].client
      BY <2>5, HandKept
    <3>2. QED
      BY <1>2, <2>3, <2>5, <3>1 DEF HandInv, Kept
  <2>6. QED
    BY <1>2, <2>1, <2>4, <2>5, HandMoves
<1>3. QED
  BY <1>1, <1>2 DEF HandInv, pConn

(* The object of a client that stays connected: what it holds changes by   *)
(* the sender's hand only.                                                 *)
LEMMA ServedObject ==
    ASSUME SendInv, Next, NEW c \in Conns, Served(c), Served(c)', Kept(c)
    PROVE  \/ /\ Taken(c) /\ connection[c].throwSendMsgCount <= 0
           \/ /\ Sent(c) /\ sender.step = "sending"
              /\ connection[c].throwSendMsgCount <= 0
           \/ /\ Held(c) /\ sender.step = "holding"
              /\ connection[c].throwSendMsgCount = 0
              /\ connection[c].pSendMsgMemPointer = sender.reply
           \/ /\ ~Taken(c) /\ ~Sent(c) /\ ~Held(c)
              /\ connection'[c].throwSendMsgCount = connection[c].throwSendMsgCount
              /\ connection'[c].pSendMsgMemPointer = connection[c].pSendMsgMemPointer
              /\ connection'[c].sendMsgLen = connection[c].sendMsgLen
<1>1. /\ connection[c].place = "online" /\ connection'[c].place = "online"
      /\ ~ShutDown(connection[c].client) /\ connection[c].throwSendMsgCount \in Int
  BY PointerFacts DEF Served, Online, ShutDown
<1>2. CASE Taken(c)
  <2>1. c = Header.pConn /\ ~Blocked
    BY <1>2 DEF Taken, TakeReply
  <2>2. QED
    BY <1>1, <1>2, <2>1 DEF Blocked
<1>3. CASE Sent(c)
  BY <1>3 DEF Sent, SendSome, SendParts, SendInv, SenderInv
<1>4. CASE Held(c)
  <2>1. /\ sender.step = "holding" /\ connection[c].pSendMsgMemPointer = sender.reply
        /\ connection[c].throwSendMsgCount <= 0
    BY <1>4 DEF Held, HoldReply, SendInv, SenderInv
  <2>2. ~(connection[c].throwSendMsgCount < 0)
    BY <1>1, PointerFacts DEF PointerOf
  <2>3. QED
    BY <1>1, <1>4, <2>1, <2>2
<1>5. CASE Released(c)
  <2>1. ~epoll.out
    BY <1>1, <1>5 DEF Released, ReleaseHold, SendInv, EpollInv
  <2>2. QED
    BY <1>2, <1>3, <1>4, <1>5, <2>1 DEF Released
<1>6. ~Closes(c) /\ ~Opens(c) /\ ~Frees(c)
  BY <1>1 DEF Closes, Opens, Frees
<1>7. QED
  BY <1>2, <1>3, <1>4, <1>5, <1>6, ObjectMoves DEF Other, Counted

LEMMA SenderGoesOn ==
    ASSUME SendInv, Next, sender'.step \in {"scanning"} \cup Holding
    PROVE  \/ sender'.pos = 1
           \/ /\ sender.step \in {"scanning"} \cup Holding
              /\ sender.pos \in Nat
              /\ sender'.pos = sender.pos \/ (SkipBlocked /\ sender'.pos = sender.pos + 1)
<1>1. sender \in SenderState /\ TypeOK /\ sender.pos \in Nat
  BY DEF SendInv, TypeOK, SenderState
<1>2. CASE UNCHANGED sender
  BY <1>1, <1>2
<1>3. CASE WakeUp \/ WakeBySignal \/ TestListSize \/ UnlockSendList
  <2>1. sender'.step \notin {"scanning"} \cup Holding
    BY <1>1, <1>3 DEF WakeUp, WakeBySignal, TestListSize, UnlockSendList, SenderState, Holding
  <2>2. QED
    BY <2>1
<1>4. CASE LockSendList
  BY <1>1, <1>4 DEF LockSendList, SenderState
<1>5. CASE SkipBlocked
  BY <1>1, <1>5 DEF SkipBlocked, Scans, SenderState
<1>6. CASE TakeReply \/ SendSome \/ SendWouldBlock \/ HoldReply
  BY <1>1, <1>6 DEF TakeReply, Scans, SendSome, SendParts, SendWouldBlock, HoldReply, SenderState,
     Holding
<1>7. CASE SendWhole \/ SendFails \/ RegisterWritable
  <2>1. sender' = BackToScan /\ sender.step \in Holding
    BY <1>7 DEF SendWhole, SendParts, SendFails, RegisterWritable, Holding
  <2>2. QED
    BY <1>1, <2>1, BackFields
<1>8. QED
  <2>1. UNCHANGED sender \/ SenderStep \/ WakeBySignal
    BY WhoMoves
  <2>2. ReadFreedReply \/ DiscardStale \/ SendRaisesSigpipe => UNCHANGED sender
    BY DEF ReadFreedReply, DiscardStale, SendRaisesSigpipe
  <2>3. QED
    BY <1>2, <1>3, <1>4, <1>5, <1>6, <1>7, <2>1, <2>2 DEF SenderStep

LEMMA ScanStep ==
    ASSUME SendInv, ClientsInv, OwnerInv, ListInv, ScanInv, Next
    PROVE  ScanInv'
<1> SUFFICES ASSUME sender'.step \in {"scanning"} \cup Holding,
                    NEW c \in Conns, Served(c)', connection'[c].throwSendMsgCount <= 0,
                    NEW i \in 1 .. Len(m_SendMsgList'), i < sender'.pos
             PROVE  m_SendMsgList'[i] \notin RepliesTo(connection[c].client)'
  BY DEF ScanInv
<1>1. PICK q, s, n : q = m_SendMsgList /\ s = m_SendMsgList' /\ n = Len(q)
  OBVIOUS
<1>2. /\ n \in Nat /\ \A j \in 1 .. n : q[j] \in 1 .. Len(reply)
      /\ s = q \/ Erases \/ \E x \in 1 .. Len(reply') : Adds(x)
  BY <1>1, ListMoves
<1>3. i # 0 /\ i \in Nat /\ ~(i < 1)
  <2>1. m_SendMsgList' \in Seq(1 .. Len(reply'))
    BY TypeStep DEF TypeOK
  <2>2. Len(m_SendMsgList') \in Nat
    BY <2>1, LenProperties
  <2>3. QED
    BY <2>2
<1>4. CASE Fresh(c)
  <2>1. \A r \in 1 .. Len(reply') : reply'[r].client # connection'[c].client
    BY <1>4, FreshFacts
  <2>2. QED
    BY <2>1 DEF RepliesTo
<1>5. CASE Served(c) /\ Kept(c) /\ connection[c].place = "online"
  <2>1. /\ sender.step \in {"scanning"} \cup Holding /\ sender.pos \in Nat
        /\ sender'.pos = sender.pos \/ (SkipBlocked /\ sender'.pos = sender.pos + 1)
    BY <1>3, SenderGoesOn
  <2>2. connection[c].throwSendMsgCount <= 0
    BY <1>5, ServedObject
  <2>3. \A j \in 1 .. n : j < sender.pos => q[j] \notin RepliesTo(connection[c].client)
    BY <1>1, <1>5, <2>1, <2>2 DEF ScanInv
  <2>4. ~ \E x \in 1 .. Len(reply') : Adds(x)
    BY <2>1 DEF Adds
  <2>5. PICK j \in 1 .. n : s[i] = q[j] /\ (j < sender.pos \/ (SkipBlocked /\ j = sender.pos))
    <3>1. CASE s = q
      BY <1>1, <1>2, <1>3, <2>1, <3>1
    <3>2. CASE Erases
      <4>1. ~SkipBlocked
        BY <3>2 DEF SkipBlocked, DiscardStale, TakeReply, Erases, Blocked
      <4>2. i < sender.pos /\ sender.pos \in 1 .. n
        BY <1>1, <2>1, <3>2, <4>1 DEF Erases
      <4>3. i \in 1 .. n /\ s[i] = q[i]
        BY <1>1, <1>2, <1>3, <3>2, <4>2 DEF Erases
      <4>4. QED
        BY <4>2, <4>3
    <3>3. QED
      BY <1>2, <2>4, <3>1, <3>2
  <2>6. q[j] \in 1 .. Len(reply) /\ reply[q[j]].client # connection[c].client
    <3>1. q[j] \in 1 .. Len(reply)
      BY <1>2
    <3>2. CASE j < sender.pos
      BY <2>3, <3>1, <3>2 DEF RepliesTo
    <3>3. CASE SkipBlocked /\ j = sender.pos
      <4>1. q[j] = Scanned /\ connection[reply[q[j]].pConn].throwSendMsgCount > 0
        BY <1>1, <3>3 DEF SkipBlocked, Blocked, Header, Scanned
      <4>2. connection[c].throwSendMsgCount \in Int
        BY PointerFacts
      <4>3. reply[q[j]].pConn # c
        BY <2>2, <4>1, <4>2
      <4>4. OwnHeader(c, reply[q[j]])
        BY <1>5, <3>1 DEF OwnerInv, Online
      <4>5. QED
        BY <3>1, <4>3, <4>4 DEF OwnHeader
    <3>4. QED
      BY <2>5, <3>2, <3>3
  <2>7. reply'[s[i]].client # connection'[c].client
    BY <1>5, <2>5, <2>6, RepliesMove DEF HeadersStay, Kept
  <2>8. QED
    BY <1>1, <2>7 DEF RepliesTo
<1>6. QED
  BY <1>4, <1>5, ServedMoves

(* EPOLLOUT stays asked for while the socket is not closed.                *)
LEMMA WritableStays ==
    ASSUME SendInv, Next, NEW f \in Fds, socketOf'[f] # None, writable[f]
    PROVE  writable'[f]
<1>1. writable \in [Fds -> BOOLEAN]
  BY DEF SendInv, TypeOK
<1>2. CASE RegisterWritable
  BY <1>1, <1>2 DEF RegisterWritable
<1>3. CASE CloseSocket
  <2>1. connection[epoll.pConn].sockFd # f
    BY <1>3 DEF CloseSocket
  <2>2. QED
    BY <1>3, <2>1 DEF CloseSocket
<1>4. ASSUME NEW t \in LogicThreads, CutSlowClient(t)
      PROVE  writable'[f]
  <2>1. connection[logic[t].pConn].sockFd # f
    BY <1>4 DEF CutSlowClient
  <2>2. QED
    BY <1>4, <2>1 DEF CutSlowClient
<1>5. QED
  BY <1>2, <1>3, <1>4, KernelMoves

(* A reply to a client that stays connected does not come back to the list.*)
LEMMA NotListedAgain ==
    ASSUME SendInv, ListInv, Next, NEW c \in Conns, Served(c)',
           NEW r \in 1 .. Len(reply), ~Listed(r), reply[r].pConn = c
    PROVE  ~Listed(r)'
<1>1. PICK q, s, n : q = m_SendMsgList /\ s = m_SendMsgList' /\ n = Len(q)
  OBVIOUS
<1>2. /\ n \in Nat /\ Len(reply) \in Nat
      /\ s = q \/ Erases \/ \E x \in 1 .. Len(reply') : Adds(x)
  BY <1>1, ListMoves
<1>3. \A j \in 1 .. n : q[j] # r
  BY <1>1 DEF Listed
<1>4. CASE s = q
  BY <1>1, <1>3, <1>4 DEF Listed
<1>5. CASE Erases
  <2>1. Len(s) = n - 1 /\ \A i \in 1 .. n - 1 : s[i] = IF i < sender.pos THEN q[i] ELSE q[i + 1]
    BY <1>1, <1>5 DEF Erases
  <2>2. \A i \in 1 .. n - 1 : s[i] # r
    BY <1>2, <1>3, <2>1
  <2>3. QED
    BY <1>1, <2>1, <2>2 DEF Listed
<1>6. ASSUME NEW x \in 1 .. Len(reply'), Adds(x)
      PROVE  ~Listed(r)'
  <2>1. Len(s) = n + 1 /\ s[n + 1] = x /\ \A i \in 1 .. n : s[i] = q[i]
    BY <1>1, <1>6, AddsEffect
  <2>2. x # r
    <3>1. CASE x = Len(reply) + 1
      BY <1>2, <3>1
    <3>2. ASSUME NEW t \in LogicThreads, QueueFreedReply(t), x = Len(reply)
          PROVE  x # r
      <4>1. /\ reply[Len(reply)].pConn = logic[t].pConn /\ logic[t].pConn \in Conns
        BY <3>2 DEF QueueFreedReply, SendInv, HeaderInv, CutInv, HandlerInv
      <4>2. connection'[logic[t].pConn].place = "closed"
        BY <3>2, <4>1, ClosesOne DEF Closes
      <4>3. logic[t].pConn # c
        BY <4>2 DEF Served, Online
      <4>4. QED
        BY <3>2, <4>1, <4>3
    <3>3. QED
      BY <1>6, <3>1, <3>2 DEF Adds
  <2>3. \A i \in 1 .. n + 1 : s[i] # r
    BY <1>2, <1>3, <2>1, <2>2
  <2>4. QED
    BY <1>1, <2>1, <2>3 DEF Listed
<1>7. QED
  BY <1>2, <1>4, <1>5, <1>6

LEMMA HoldStep ==
    ASSUME SendInv, ClientsInv, OwnerInv, ListInv, HandInv, HoldInv, Next
    PROVE  HoldInv'
<1> SUFFICES ASSUME NEW c \in Conns
             PROVE  HoldsOf(c)'
  BY DEF HoldInv
<1>1. PICK held, pointer : /\ held = connection[c].pSendMsgMemPointer
                           /\ pointer = connection'[c].pSendMsgMemPointer
  OBVIOUS
<1>2. /\ held \in 0 .. Len(reply) /\ Len(reply) \in Nat
      /\ held # None => held \in 1 .. Len(reply) /\ reply[held].pConn = c
      /\ connection[c].throwSendMsgCount \in Int
  BY <1>1, PointerFacts DEF HoldInv, HoldsOf
<1>3. pointer # None => reply'[pointer].pConn = c
  <2>1. held # None => reply'[held].pConn = c
    BY <1>2, RepliesMove DEF HeadersStay
  <2>2. CASE Taken(c)
    <3>1. pointer = Scanned /\ Header.pConn = c /\ UNCHANGED reply
      BY <1>1, <2>2 DEF Taken, TakeReply
    <3>2. QED
      BY <3>1 DEF Header
  <2>3. CASE Opens(c)
    BY <1>1, <2>3 DEF Opens
  <2>4. QED
    BY <1>1, <2>1, <2>2, <2>3, ObjectMoves
       DEF Other, Counted, Sent, Held, Released, Closes, Frees
<1>4. ASSUME connection'[c].place = "online"
      PROVE  connection'[c].throwSendMsgCount <= 1
  <2>1. CASE Fresh(c)
    BY <2>1 DEF Fresh
  <2>2. CASE connection[c].place = "online" /\ ~Opens(c) /\ ~Closes(c) /\ ~Frees(c)
    <3>1. connection[c].throwSendMsgCount <= 1
      BY <2>2 DEF HoldInv, HoldsOf
    <3>2. CASE Held(c)
      <4>1. connection[c].throwSendMsgCount <= 0
        BY <3>2 DEF Held, HoldReply, SendInv, SenderInv
      <4>2. QED
        BY <1>2, <3>2, <4>1 DEF Held
    <3>3. CASE Released(c)
      BY <1>2, <3>1, <3>3 DEF Released
    <3>4. QED
      BY <2>2, <3>1, <3>2, <3>3, ObjectMoves DEF Other, Counted, Taken, Sent
  <2>3. QED
    BY <1>4, <2>1, <2>2, OnlineMoves
<1>5. ASSUME Served(c)', connection'[c].throwSendMsgCount > 0
      PROVE  Completes(c, pointer)'
  <2>1. /\ Served(c) /\ Kept(c) /\ connection[c].place = "online"
        /\ connection[c].client \in Clients
    <3>1. ~Fresh(c)
      BY <1>5 DEF Fresh
    <3>2. QED
      BY <1>5, <3>1, ServedMoves
  <2>2. CASE /\ Held(c) /\ sender.step = "holding"
             /\ held = sender.reply
    <3>1. /\ sender.reply # None /\ pConn = c /\ HoldReply
          /\ UNCHANGED <<m_SendMsgList, reply>>
          /\ pointer = held /\ connection'[c].sendMsgLen = connection[c].sendMsgLen
      BY <1>1, <2>2 DEF Held, SendInv, SenderInv, Holding, HoldReply, list
    <3>2. reply[held].live /\ connection[c].sendMsgLen > 0
      BY <2>2, <3>1 DEF HandInv
    <3>3. ~Listed(held)
      <4>1. \A i \in 1 .. Len(m_SendMsgList) : m_SendMsgList[i] \in Int /\ held \in Int
        BY <1>2, ListMoves
      <4>2. QED
        BY <2>2, <3>1, <4>1 DEF ListInv, Listed
    <3>4. sender'.step = "registering" /\ sender'.reply = sender.reply
      BY <3>1 DEF HoldReply, SendInv, TypeOK
    <3>5. QED
      BY <2>2, <3>1, <3>2, <3>3, <3>4 DEF Completes, Listed, pConn
  <2>3. CASE /\ ~Held(c) /\ pointer = held
             /\ connection'[c].throwSendMsgCount = connection[c].throwSendMsgCount
             /\ connection'[c].sendMsgLen = connection[c].sendMsgLen
    <3>1. /\ held # None /\ reply[held].live /\ ~Listed(held)
          /\ connection[c].sendMsgLen > 0
          /\ \/ writable[connection[c].sockFd]
             \/ sender.step = "registering" /\ sender.reply # None /\ pConn = c
      BY <1>1, <1>5, <2>1, <2>3 DEF HoldInv, HoldsOf, Completes
    <3>2. reply'[held].live
      <4>1. ~DiscardStale \/ held # Scanned
        BY <3>1 DEF DiscardStale, Scans, Scanned, Listed
      <4>2. SendWhole \/ SendFails => held # sender.reply
        <5>1. SUFFICES ASSUME SendWhole \/ SendFails, held = sender.reply PROVE FALSE
          OBVIOUS
        <5>2. sender.step = "sending"
          BY <5>1 DEF SendWhole, SendParts, SendFails
        <5>3. pConn = c /\ connection[pConn].throwSendMsgCount <= 0
          BY <1>2, <3>1, <5>1, <5>2 DEF SendInv, SenderInv, pConn
        <5>4. QED
          BY <1>2, <1>5, <2>3, <5>3
      <4>3. \A d \in Conns : connection[d].place = "closed" =>
              connection[d].pSendMsgMemPointer # held
        BY <1>2, <2>1, <3>1 DEF HoldInv, HoldsOf
      <4>4. SUFFICES ASSUME ~reply'[held].live PROVE FALSE
        OBVIOUS
      <4>5. QED
        BY <1>2, <3>1, <4>1, <4>2, <4>3, <4>4, FreedReply
    <3>3. ~Listed(held)'
      BY <1>2, <1>5, <3>1, NotListedAgain
    <3>4. \/ writable'[connection'[c].sockFd]
          \/ /\ sender'.step = "registering" /\ sender'.reply # None
             /\ reply'[sender'.reply].pConn = c
      <4>1. PICK f : f = connection[c].sockFd
        OBVIOUS
      <4>2. /\ connection'[c].sockFd = f /\ f # NoFd /\ f \in Fds
            /\ socketOf[f] # None /\ socketOf'[f] # None
        <5>1. connection[c].client # None
          BY <2>1 DEF Clients, None
        <5>2. /\ connection'[c].sockFd = f /\ f # NoFd
              /\ socketOf[f] = connection[c].client /\ socketOf'[f] = connection[c].client
          BY <1>5, <2>1, <4>1 DEF Kept, Served, Attached
        <5>3. f \in Fds
          BY <4>1, <5>2 DEF SendInv, TypeOK
        <5>4. QED
          BY <5>1, <5>2, <5>3
      <4>3. CASE writable[f]
        BY <4>2, <4>3, WritableStays
      <4>4. CASE sender.step = "registering" /\ sender.reply # None /\ pConn = c
        <5>1. CASE UNCHANGED sender
          BY <4>4, <5>1, HandKept
        <5>2. CASE RegisterWritable
          <6>1. writable' = [writable EXCEPT ![f] = TRUE] /\ writable \in [Fds -> BOOLEAN]
            BY <4>1, <4>2, <4>4, <5>2 DEF RegisterWritable, SendInv, TypeOK
          <6>2. QED
            BY <4>2, <6>1
        <5>3. QED
          <6>1. UNCHANGED sender \/ SenderStep \/ WakeBySignal
            BY WhoMoves
          <6>2. QED
            BY <4>4, <5>1, <5>2, <6>1 DEF SenderStep, WakeBySignal, WakeUp, TestListSize,
               LockSendList, UnlockSendList, ReadFreedReply, DiscardStale, SkipBlocked, TakeReply,
               Scans, SendWhole, SendSome, SendParts, SendWouldBlock, SendFails,
               SendRaisesSigpipe, HoldReply
      <4>5. QED
        BY <3>1, <4>1, <4>3, <4>4
    <3>5. QED
      BY <2>3, <3>1, <3>2, <3>3, <3>4 DEF Completes, pConn
  <2>4. ~Taken(c) /\ ~Sent(c)
    <3>1. connection[c].throwSendMsgCount <= 0 => ~Taken(c) /\ ~Sent(c)
      BY <1>2, <1>5 DEF Taken, Sent
    <3>2. QED
      BY <1>5, <2>1, <3>1, ServedObject
  <2>5. QED
    BY <1>1, <1>5, <2>1, <2>2, <2>3, <2>4, ServedObject
<1>6. QED
  BY <1>1, <1>3, <1>4, <1>5 DEF HoldsOf

-----------------------------------------------------------------------------
(* The parts a client gets.                                                *)

(* n parts of one reply more.                                              *)
LEMMA PlacesAfterParts ==
    ASSUME NEW S, NEW s \in Seq(S), NEW u \in Seq(S), NEW x \in S, NEW R,
           \A i \in 1 .. Len(u) : u[i] = x
    PROVE  /\ Len(s) \in Nat /\ Len(s \o u) = Len(s) + Len(u)
           /\ \A i \in 1 .. Len(s) : (s \o u)[i] = s[i]
           /\ \A i \in 1 .. Len(s \o u) : i > Len(s) => (s \o u)[i] = x
           /\ Cardinality(Places(s, R)) \in Nat
           /\ Cardinality(Places(s \o u, R)) =
                Cardinality(Places(s, R)) + (IF x \in R THEN Len(u) ELSE 0)
<1>1. PICK t : t = s \o u
  OBVIOUS
<1>2. PICK n \in Nat, l \in Nat : n = Len(u) /\ l = Len(s)
  BY LenProperties
<1>3. Len(u) = n /\ \A i \in 1 .. n : u[i] = x
  BY <1>2
<1>4. l \in Nat
  OBVIOUS
<1>5. /\ Len(t) = l + n
      /\ \A i \in 1 .. l + n : t[i] = IF i <= l THEN s[i] ELSE u[i - l]
  <2>1. t = s \o u
    BY <1>1
  <2>2. /\ Len(s \o u) = Len(s) + Len(u)
        /\ \A i \in 1 .. Len(s) + Len(u) :
             (s \o u)[i] = IF i <= Len(s) THEN s[i] ELSE u[i - Len(s)]
    BY ConcatProperties
  <2>3. QED
    BY <1>2, <1>3, <2>1, <2>2
<1>6. /\ \A i \in 1 .. l : t[i] = s[i]
      /\ \A i \in 1 .. Len(t) : i > l => t[i] = x
  <2>1. \A i \in 1 .. l : t[i] = s[i]
    BY <1>4, <1>5
  <2>2. \A i \in 1 .. l + n : i > l => ~(i <= l) /\ i - l \in 1 .. n
    BY <1>4
  <2>3. \A i \in 1 .. l + n : i > l => t[i] = x
    BY <1>3, <1>5, <2>2
  <2>4. QED
    BY <1>5, <2>1, <2>3
<1>7. PICK A, B, C : A = Places(s, R) /\ B = l + 1 .. l + n /\ C = Places(t, R)
  OBVIOUS
<1>8. /\ A \in SUBSET (1 .. l) /\ IsFiniteSet(A) /\ Cardinality(A) \in Nat
      /\ IsFiniteSet(B) /\ Cardinality(B) = n
  <2>1. A \in SUBSET (1 .. l)
    BY <1>2, <1>7 DEF Places
  <2>2. IsFiniteSet(A) /\ Cardinality(A) \in Nat
    BY <1>7, PlacesFinite
  <2>3. l + 1 \in Int /\ l + n \in Int
    BY <1>4
  <2>4. IsFiniteSet(B) /\ Cardinality(B) = IF l + 1 > l + n THEN 0 ELSE (l + n) - (l + 1) + 1
    BY <1>7, <2>3, FS_Interval
  <2>5. QED
    BY <1>4, <2>1, <2>2, <2>4
<1>9. ASSUME x \in R
      PROVE  Cardinality(C) = Cardinality(A) + n
  <2>1. C = A \cup B
    <3>1. C \subseteq 1 .. l + n /\ A \cup B \subseteq 1 .. l + n
      BY <1>4, <1>5, <1>7, <1>8 DEF Places
    <3>2. ASSUME NEW i \in 1 .. l + n
          PROVE  i \in C <=> i \in A \cup B
      BY <1>2, <1>4, <1>5, <1>6, <1>7, <1>9 DEF Places
    <3>3. QED
      BY <3>1, <3>2
  <2>2. A \cap B = {}
    <3>1. (\A i \in A : i \in Int /\ i <= l) /\ \A i \in B : i \in Int /\ i > l
      <4>1. \A i \in A : i \in Int /\ i <= l
        BY <1>4, <1>8
      <4>2. \A i \in l + 1 .. l + n : i \in Int /\ i > l
        BY <1>4
      <4>3. B = l + 1 .. l + n
        BY <1>7
      <4>4. QED
        BY <4>1, <4>2, <4>3
    <3>2. \A i \in A : i \notin B
      BY <1>4, <3>1
    <3>3. QED
      BY <3>2
  <2>3. Cardinality(A \cup B) = Cardinality(A) + Cardinality(B) - Cardinality(A \cap B)
    BY <1>8, FS_Union
  <2>4. Cardinality(A \cap B) = 0
    BY <2>2, FS_EmptySet
  <2>5. QED
    BY <1>8, <2>1, <2>3, <2>4
<1>10. ASSUME x \notin R
       PROVE  C = A
  BY <1>2, <1>4, <1>5, <1>6, <1>7, <1>10 DEF Places
<1>11. QED
  BY <1>1, <1>2, <1>5, <1>6, <1>7, <1>8, <1>9, <1>10

(* Client k gets n parts of the reply in hand.                             *)
Gets(k, n) ==
    /\ n \in 1 .. ReplyLength
    /\ SendParts(n)
    /\ Peer = k
    /\ \/ SendWhole /\ n = ReplyLength
       \/ SendSome /\ connection'[pConn].sendMsgLen = ReplyLength - n

LEMMA ReceivedMoves ==
    ASSUME SendInv, Next, NEW k \in Clients
    PROVE  \/ received'[k] = received[k] /\ (SendWhole \/ SendSome => Peer # k)
           \/ \E n \in 1 .. ReplyLength : Gets(k, n)
<1>1. received \in [Clients -> Seq(1 .. Len(reply))] /\ ReplyLength \in Nat \ {0}
  BY SendConstants DEF SendInv, TypeOK
<1>2. ASSUME NEW n, SendParts(n), Peer # k
      PROVE  received'[k] = received[k]
  BY <1>1, <1>2 DEF SendParts
<1>3. CASE SendWhole
  BY <1>1, <1>2, <1>3 DEF SendWhole, Gets, SendSome
<1>4. CASE SendSome
  <2>1. PICK n \in 1 .. ReplyLength - 1 :
          SendParts(n) /\ connection'[pConn].sendMsgLen = ReplyLength - n
    BY <1>4, SendSomeLeaves
  <2>2. n \in 1 .. ReplyLength
    BY <1>1
  <2>3. QED
    BY <1>2, <1>4, <2>1, <2>2 DEF Gets
<1>5. CASE UNCHANGED received
  BY <1>3, <1>4, <1>5
<1>6. QED
  BY <1>3, <1>4, <1>5, KernelMoves

LEMMA PartsMove ==
    ASSUME SendInv, NEW k \in Clients, NEW r
    PROVE  /\ PartsOf(r, k) \in Nat
           /\ received'[k] = received[k] => PartsOf(r, k)' = PartsOf(r, k)
           /\ \A n : Gets(k, n) =>
                /\ PartsOf(r, k)' = PartsOf(r, k) + (IF r = sender.reply THEN n ELSE 0)
                /\ Len(received[k]) \in Nat /\ Len(received'[k]) = Len(received[k]) + n
                /\ \A i \in 1 .. Len(received[k]) : received'[k][i] = received[k][i]
                /\ \A i \in 1 .. Len(received'[k]) :
                     i > Len(received[k]) => received'[k][i] = sender.reply
<1> DEFINE N == 1 .. Len(reply)
<1>1. received \in [Clients -> Seq(N)]
  BY DEF SendInv, TypeOK
<1> HIDE DEF N
<1>2. PICK s, t, R : s = received[k] /\ t = received'[k] /\ R = {r}
  OBVIOUS
<1>3. s \in Seq(N)
  BY <1>1, <1>2
<1>4. PartsOf(r, k) = Cardinality(Places(s, R)) /\ PartsOf(r, k)' = Cardinality(Places(t, R))
  BY <1>2 DEF PartsOf, Places
<1>5. Cardinality(Places(s, R)) \in Nat
  BY <1>3, PlacesFinite
<1>6. ASSUME NEW n, Gets(k, n)
      PROVE  /\ PartsOf(r, k)' = PartsOf(r, k) + (IF r = sender.reply THEN n ELSE 0)
             /\ Len(s) \in Nat /\ Len(t) = Len(s) + n
             /\ \A i \in 1 .. Len(s) : t[i] = s[i]
             /\ \A i \in 1 .. Len(t) : i > Len(s) => t[i] = sender.reply
  <2>1. n \in Nat /\ SendParts(n) /\ Peer = k
    BY <1>6, SendConstants DEF Gets
  <2>2. PICK x : x = sender.reply
    OBVIOUS
  <2>3. x \in N
    BY <2>1, <2>2, InHand DEF SendParts, SendInv, Holding, N
  <2>4. PICK u : u = [i \in 1 .. n |-> x]
    OBVIOUS
  <2>5. t = s \o u
    BY <1>1, <1>2, <2>1, <2>2, <2>4 DEF SendParts
  <2>6. u \in [1 .. n -> N] /\ DOMAIN u = 1 .. n /\ \A i \in 1 .. n : u[i] = x
    BY <2>3, <2>4
  <2>7. u \in Seq(N)
    BY <2>1, <2>6, SeqDef
  <2>8. Len(u) = n
    BY <2>1, <2>6, <2>7, LenProperties
  <2>9. /\ Len(s) \in Nat /\ Len(s \o u) = Len(s) + Len(u)
        /\ \A i \in 1 .. Len(s) : (s \o u)[i] = s[i]
        /\ \A i \in 1 .. Len(s \o u) : i > Len(s) => (s \o u)[i] = x
        /\ Cardinality(Places(s \o u, R)) =
             Cardinality(Places(s, R)) + (IF x \in R THEN Len(u) ELSE 0)
    <3>1. \A i \in 1 .. Len(u) : u[i] = x
      BY <2>6, <2>8
    <3>2. QED
      BY <1>3, <2>3, <2>7, <3>1, PlacesAfterParts
  <2>10. QED
    BY <1>2, <1>4, <2>2, <2>5, <2>8, <2>9
<1>7. QED
  BY <1>2, <1>4, <1>5, <1>6

(* Reply r, which is to the client of object c, is not the one the sender  *)
(* works with in this step.                                                *)
LeftAlone(c, r) ==
    /\ Served(c) /\ Served(c)' /\ Kept(c)
    /\ r \in 1 .. Len(reply) /\ reply[r].client = connection[c].client
    /\ r # sender.reply \/ UNCHANGED sender

LEMMA UnsentStays ==
    ASSUME SendInv, OwnerInv, ListInv, Next, NEW c \in Conns, NEW r \in Nat, LeftAlone(c, r)
    PROVE  Unsent(r)' <=> Unsent(r)
<1>1. /\ c \in Online /\ r \in 1 .. Len(reply) /\ r # None
      /\ reply[r].pConn = c /\ reply[r].currSequence = connection[c].currSequence
  BY DEF LeftAlone, OwnerInv, OwnHeader, Served, None
<1>2. ASSUME Listed(r)
      PROVE  Unsent(r)'
  <2>1. CASE Listed(r)'
    BY <2>1 DEF Unsent
  <2>2. CASE DiscardStale /\ r = Scanned
    BY <1>1, <2>2 DEF DiscardStale, Stale, Header
  <2>3. CASE TakeReply /\ r = Scanned
    <3>1. sender'.step = "sending" /\ sender'.reply = r
      BY <2>3 DEF TakeReply, SendInv, TypeOK
    <3>2. QED
      BY <3>1 DEF Unsent
  <2>4. QED
    BY <1>2, <2>1, <2>2, <2>3, StillListed
<1>3. ASSUME sender.step = "sending", sender.reply = r
      PROVE  Unsent(r)'
  BY <1>3 DEF LeftAlone, Unsent
<1>4. ASSUME Listed(r)'
      PROVE  Listed(r)
  BY <1>1, <1>4, NotListedAgain DEF LeftAlone
<1>5. ASSUME sender'.step = "sending", sender'.reply = r
      PROVE  Unsent(r)
  <2>1. CASE TakeReply /\ sender'.reply = Scanned
    BY <1>5, <2>1 DEF TakeReply, Scans, Scanned, Unsent, Listed
  <2>2. CASE sender'.reply = sender.reply
    BY <1>5, <2>2 DEF LeftAlone, Unsent
  <2>3. QED
    BY <1>1, <1>5, <2>1, <2>2, HandMoves
<1>6. QED
  BY <1>2, <1>3, <1>4, <1>5 DEF Unsent

LEMMA BegunStays ==
    ASSUME SendInv, OwnerInv, Next, NEW c \in Conns, NEW r \in Nat, LeftAlone(c, r)
    PROVE  /\ Begun(c, r)' <=> Begun(c, r)
           /\ Begun(c, r) => connection'[c].sendMsgLen = connection[c].sendMsgLen
<1>1. /\ r # None /\ connection[c].throwSendMsgCount \in Int /\ sender \in SenderState
      /\ Served(c) /\ Served(c)' /\ Kept(c)
  <2>1. r # None /\ Served(c) /\ Served(c)' /\ Kept(c)
    BY DEF LeftAlone, None
  <2>2. connection[c].throwSendMsgCount \in Int /\ sender \in SenderState
    BY PointerFacts DEF SendInv, TypeOK, SenderState
  <2>3. QED
    BY <2>1, <2>2
<1>2. CASE Taken(c) /\ connection[c].throwSendMsgCount <= 0
  <2>1. sender.step = "scanning" /\ sender'.step = "sending"
    BY <1>1, <1>2 DEF Taken, TakeReply, Scans, SenderState
  <2>2. QED
    BY <1>1, <1>2, <2>1 DEF Taken, Begun
<1>3. CASE Sent(c) /\ sender.step = "sending" /\ connection[c].throwSendMsgCount <= 0
  <2>1. sender'.step = "holding" /\ sender'.reply = sender.reply
    BY <1>1, <1>3 DEF Sent, SendSome, SenderState
  <2>2. r # sender.reply
    BY <1>3, <2>1 DEF LeftAlone
  <2>3. QED
    BY <1>1, <1>3, <2>1, <2>2 DEF Sent, Begun
<1>4. CASE /\ Held(c) /\ sender.step = "holding"
           /\ connection[c].throwSendMsgCount = 0
           /\ connection[c].pSendMsgMemPointer = sender.reply
  <2>1. sender'.step = "registering"
    BY <1>1, <1>4 DEF Held, HoldReply, SenderState
  <2>2. r # sender.reply
    BY <1>4, <2>1 DEF LeftAlone
  <2>3. QED
    BY <1>4, <2>1, <2>2 DEF Held, Begun
<1>5. CASE /\ connection'[c].throwSendMsgCount = connection[c].throwSendMsgCount
           /\ connection'[c].pSendMsgMemPointer = connection[c].pSendMsgMemPointer
           /\ connection'[c].sendMsgLen = connection[c].sendMsgLen
  <2>1. (sender'.step = "holding" /\ sender'.reply = r)
          <=> (sender.step = "holding" /\ sender.reply = r)
    <3>1. CASE UNCHANGED sender
      BY <3>1
    <3>2. CASE r # sender.reply
      BY <1>1, <3>2, HandMoves
    <3>3. QED
      BY <3>1, <3>2 DEF LeftAlone
  <2>2. QED
    BY <1>5, <2>1 DEF Begun
<1>6. QED
  BY <1>1, <1>2, <1>3, <1>4, <1>5, ServedObject

(* What is due of such a reply, and what the client has got of it, stay.   *)
LEMMA DueStays ==
    ASSUME SendInv, OwnerInv, ListInv, Next, NEW c \in Conns, NEW r \in Nat, LeftAlone(c, r),
           connection[c].client \in Clients
    PROVE  /\ Due(c, r)' = Due(c, r)
           /\ PartsOf(r, connection[c].client)' = PartsOf(r, connection[c].client)
<1>1. Due(c, r)' = Due(c, r)
  BY UnsentStays, BegunStays DEF Due
<1>2. PICK k \in Clients : k = connection[c].client
  OBVIOUS
<1>3. connection'[c].client = k
  BY <1>2 DEF LeftAlone, Kept
<1>4. PartsOf(r, k) \in Nat
  BY PartsMove
<1>5. ASSUME NEW n \in 1 .. ReplyLength, Gets(k, n)
      PROVE  PartsOf(r, k)' = PartsOf(r, k)
  <2>1. ~ UNCHANGED sender
    <3>1. sender.step = "sending" /\ (SendWhole \/ SendSome)
      BY <1>5 DEF Gets, SendParts
    <3>2. SendWhole => sender'.step = "scanning"
      BY BackFields DEF SendWhole, SendInv
    <3>3. SendSome => sender'.step = "holding"
      BY DEF SendSome, SendInv, TypeOK
    <3>4. QED
      BY <3>1, <3>2, <3>3
  <2>2. r # sender.reply
    BY <2>1 DEF LeftAlone
  <2>3. QED
    BY <1>4, <1>5, <2>2, PartsMove
<1>6. PartsOf(r, k)' = PartsOf(r, k)
  BY <1>5, PartsMove, ReceivedMoves
<1>7. QED
  BY <1>1, <1>2, <1>3, <1>6 DEF PartsOf

-----------------------------------------------------------------------------
(* What a client has got of a reply is what is due of it.                  *)

LEMMA NewPart ==
    ASSUME SendInv, OwnerInv, Next, NEW c \in Conns, Served(c), Served(c)', Kept(c),
           NEW k \in Clients, k = connection[c].client,
           NEW r \in 1 .. Len(reply'), r \notin 1 .. Len(reply), reply'[r].client = k
    PROVE  PartsOf(r, k)' = 0 /\ Due(c, r)' = 0
<1>1. PICK t \in LogicThreads :
        /\ logic[t].step # "idle" /\ r = Len(reply) + 1 /\ Len(reply) \in Nat
        /\ \/ PushReply(t) /\ reply'[r] = ReplyOf(t, TRUE)
           \/ CutSlowClient(t) /\ reply'[r] = ReplyOf(t, FALSE)
  BY NewReply
<1>2. ~CutSlowClient(t)
  <2>1. SUFFICES ASSUME CutSlowClient(t) PROVE FALSE
    OBVIOUS
  <2>2. logic[t].client = k
    BY <1>1, HandlerFields
  <2>3. logic[t].pConn = c
    BY <1>1, <2>2 DEF OwnerInv, OwnHeader, Served
  <2>4. PICK f : f = connection[c].sockFd
    OBVIOUS
  <2>5. connection'[c].sockFd = f /\ connection'[c].client = k /\ f # NoFd /\ socketOf'[f] = k
    BY <2>4 DEF Kept, Served, Attached
  <2>6. f \in Fds
    BY <2>4, <2>5 DEF SendInv, TypeOK
  <2>7. socketOf'[f] = None
    BY <2>1, <2>3, <2>4, <2>6 DEF CutSlowClient
  <2>8. QED
    BY <2>5, <2>7 DEF Clients, None
<1>3. /\ m_SendMsgList' = Append(m_SendMsgList, r)
      /\ received' = received
  BY <1>1, <1>2 DEF PushReply, QueueReply, kernel
<1>4. Listed(r)'
  <2>1. m_SendMsgList \in Seq(1 .. Len(reply))
    BY DEF SendInv, TypeOK
  <2>2. m_SendMsgList \in Seq(Int) /\ r \in Int /\ Len(m_SendMsgList) \in Nat
    BY <1>1, <2>1, SeqMonotonic, LenProperties
  <2>3. /\ Len(m_SendMsgList') = Len(m_SendMsgList) + 1
        /\ m_SendMsgList'[Len(m_SendMsgList) + 1] = r
    BY <1>3, <2>2, AppendProperties
  <2>4. QED
    BY <2>2, <2>3 DEF Listed
<1>5. PartsOf(r, k)' = 0
  <2>1. received \in [Clients -> Seq(1 .. Len(reply))]
    BY DEF SendInv, TypeOK
  <2>2. PICK s : s = received[k]
    OBVIOUS
  <2>3. \A i \in 1 .. Len(s) : s[i] \in 1 .. Len(reply)
    BY <2>1, <2>2, ElementOfSeq
  <2>4. {i \in 1 .. Len(s) : s[i] = r} = {}
    BY <1>1, <2>3
  <2>5. QED
    BY <1>3, <2>2, <2>4, FS_EmptySet DEF PartsOf
<1>6. QED
  BY <1>4, <1>5 DEF Due, Unsent

LEMMA HandWorks ==
    ASSUME SendInv, Next, sender.reply # None, ~UNCHANGED sender
    PROVE  \/ sender.step = "sending" /\ (SendWhole \/ SendSome \/ SendWouldBlock \/ SendFails)
           \/ sender.step = "holding" /\ HoldReply
           \/ sender.step = "registering" /\ RegisterWritable
<1>1. sender.step \in Holding
  BY DEF SendInv, SenderInv
<1>2. UNCHANGED sender \/ SenderStep \/ WakeBySignal
  BY WhoMoves
<1>3. ReadFreedReply \/ DiscardStale \/ SendRaisesSigpipe => UNCHANGED sender
  BY DEF ReadFreedReply, DiscardStale, SendRaisesSigpipe
<1>4. QED
  BY <1>1, <1>2, <1>3 DEF SenderStep, WakeBySignal, WakeUp, TestListSize, LockSendList,
     UnlockSendList, SkipBlocked, TakeReply, Scans, SendWhole, SendSome, SendParts,
     SendWouldBlock, SendFails, HoldReply, RegisterWritable, Holding

(* The reply in hand, when its client is connected.                        *)
LEMMA HandFacts ==
    ASSUME SendInv, OwnerInv, ListInv, HandInv, NEW c \in Conns, Served(c),
           NEW k \in Clients, k = connection[c].client,
           sender.reply # None, sender.reply \in RepliesTo(k)
    PROVE  /\ sender.reply \in 1 .. Len(reply) /\ pConn = c
           /\ ~Listed(sender.reply)
           /\ sender.step = "sending" =>
                /\ Peer = k /\ status[k] = "here"
                /\ connection[c].throwSendMsgCount <= 0
                /\ connection[c].sendMsgLen = ReplyLength
<1>1. sender.reply \in 1 .. Len(reply) /\ reply[sender.reply].client = k
  BY DEF RepliesTo
<1>2. pConn = c
  BY <1>1 DEF OwnerInv, OwnHeader, Served, pConn
<1>3. ~Listed(sender.reply)
  <2>1. \A i \in 1 .. Len(m_SendMsgList) : m_SendMsgList[i] # sender.reply
    <3>1. m_SendMsgList \in Seq(1 .. Len(reply))
      BY DEF SendInv, TypeOK
    <3>2. \A i \in 1 .. Len(m_SendMsgList) : m_SendMsgList[i] \in Int
      BY <3>1, ElementOfSeq
    <3>3. sender.reply \in Int
      BY <1>1
    <3>4. QED
      BY <3>2, <3>3 DEF ListInv
  <2>2. QED
    BY <2>1 DEF Listed
<1>4. ASSUME sender.step = "sending"
      PROVE  /\ Peer = k /\ status[k] = "here"
             /\ connection[c].throwSendMsgCount <= 0
             /\ connection[c].sendMsgLen = ReplyLength
  <2>1. sender.fd = connection[c].sockFd
    BY <1>1, <1>4 DEF HandInv
  <2>2. QED
    BY <1>2, <1>4, <2>1 DEF Served, Attached, Peer, SendInv, SenderInv
<1>5. QED
  BY <1>1, <1>2, <1>3, <1>4

LEMMA FirstParts ==
    ASSUME SendInv, NEW k \in Clients, NEW n \in 1 .. ReplyLength, Gets(k, n),
           NEW r, r = sender.reply, PartsOf(r, k) = 0
    PROVE  PartsOf(r, k)' = n
<1>1. n \in Int
  BY SendConstants
<1>2. PartsOf(r, k)' = PartsOf(r, k) + (IF r = sender.reply THEN n ELSE 0)
  BY PartsMove
<1>3. QED
  BY <1>1, <1>2

LEMMA HandDue ==
    ASSUME SendInv, OwnerInv, ListInv, HandInv, Next,
           NEW c \in Conns, Served(c), Served(c)', Kept(c),
           NEW k \in Clients, k = connection[c].client,
           NEW r \in 1 .. Len(reply), r = sender.reply, r \in RepliesTo(k), ~UNCHANGED sender,
           PartsOf(r, k) = Due(c, r)
    PROVE  PartsOf(r, k)' = Due(c, r)'
<1>1. /\ sender.reply # None /\ pConn = c /\ ~Listed(r) /\ ~Listed(r)'
      /\ ReplyLength \in Nat \ {0} /\ r # None /\ sender \in SenderState
  <2>1. r # None /\ Len(reply) \in Nat
    BY RepliesMove DEF HeadersStay, None
  <2>2. pConn = c /\ ~Listed(r)
    BY <2>1, HandFacts
  <2>3. ~Listed(r)'
    BY <2>2, NotListedAgain DEF pConn
  <2>4. QED
    BY <2>1, <2>2, <2>3, SendConstants DEF SendInv, TypeOK, SenderState
<1>2. CASE sender.step = "sending"
  <2>1. /\ Peer = k /\ status[k] = "here"
        /\ connection[c].throwSendMsgCount <= 0 /\ connection[c].sendMsgLen = ReplyLength
    BY <1>1, <1>2, HandFacts
  <2>2. PartsOf(r, k) = 0
    BY <1>2 DEF Due, Unsent
  <2>3. ~SendFails
    BY <2>1 DEF SendFails, None, Clients
  <2>4. CASE SendWhole
    <3>1. sender'.step = "scanning" /\ UNCHANGED connection
      BY <2>4, BackFields DEF SendWhole, SendInv
    <3>2. ~SendSome
      BY <1>1, <3>1 DEF SendSome, SenderState
    <3>3. Gets(k, ReplyLength)
      <4>1. PICK n \in 1 .. ReplyLength : Gets(k, n)
        BY <2>1, <2>4, ReceivedMoves
      <4>2. n = ReplyLength
        BY <3>2, <4>1 DEF Gets
      <4>3. QED
        BY <4>1, <4>2
    <3>4. PartsOf(r, k)' = ReplyLength
      BY <1>1, <2>2, <3>3, FirstParts
    <3>5. ~Unsent(r)' /\ ~Begun(c, r)'
      <4>1. connection[c].throwSendMsgCount \in Int
        BY PointerFacts
      <4>2. QED
        BY <1>1, <2>1, <3>1, <4>1 DEF Unsent, Begun
    <3>6. QED
      BY <3>4, <3>5 DEF Due
  <2>5. CASE SendSome
    <3>1. sender'.step = "holding" /\ sender'.reply = r
      BY <1>1, <2>5 DEF SendSome, SenderState
    <3>2. ~SendWhole
      BY <3>1, BackFields DEF SendWhole, SendInv
    <3>3. PICK n \in 1 .. ReplyLength : Gets(k, n)
      BY <2>1, <2>5, ReceivedMoves
    <3>4. connection'[c].sendMsgLen = ReplyLength - n
      BY <1>1, <3>2, <3>3 DEF Gets
    <3>5. PartsOf(r, k)' = n
      BY <2>2, <3>3, FirstParts
    <3>6. ~Unsent(r)' /\ Begun(c, r)'
      BY <1>1, <3>1 DEF Unsent, Begun
    <3>7. QED
      BY <1>1, <3>4, <3>5, <3>6 DEF Due
  <2>6. CASE SendWouldBlock
    <3>1. sender'.step = "holding" /\ sender'.reply = r /\ UNCHANGED <<connection, received>>
      BY <1>1, <2>6 DEF SendWouldBlock, SenderState, kernel
    <3>2. PartsOf(r, k)' = 0
      BY <2>2, <3>1, PartsMove
    <3>3. ~Unsent(r)' /\ Begun(c, r)'
      BY <1>1, <3>1 DEF Unsent, Begun
    <3>4. QED
      BY <1>1, <2>1, <3>1, <3>2, <3>3 DEF Due
  <2>7. QED
    BY <1>1, <1>2, <2>3, <2>4, <2>5, <2>6, HandWorks
<1>3. CASE sender.step = "holding"
  <2>1. HoldReply
    BY <1>1, <1>3, HandWorks
  <2>2. sender'.step = "registering" /\ UNCHANGED received
    BY <1>1, <2>1 DEF HoldReply, SenderState, kernel
  <2>3. Held(c) /\ connection[c].throwSendMsgCount = 0 /\ connection[c].pSendMsgMemPointer = r
    <3>1. Held(c)
      BY <1>1, <2>1, HoldsOne
    <3>2. ~Taken(c) /\ ~Sent(c)
      BY <1>3 DEF Taken, TakeReply, Scans, Sent, SendSome, SendParts
    <3>3. QED
      BY <3>1, <3>2, ServedObject
  <2>4. ~Unsent(r) /\ Begun(c, r) /\ ~Unsent(r)' /\ Begun(c, r)'
    BY <1>1, <1>3, <2>2, <2>3 DEF Unsent, Begun, Held
  <2>5. PartsOf(r, k)' = PartsOf(r, k)
    BY <2>2, PartsMove
  <2>6. QED
    BY <2>3, <2>4, <2>5 DEF Due, Held
<1>4. CASE sender.step = "registering"
  <2>1. RegisterWritable
    BY <1>1, <1>4, HandWorks
  <2>2. sender'.step = "scanning" /\ UNCHANGED <<connection, received>>
    BY <2>1, BackFields DEF RegisterWritable, SendInv
  <2>3. ~Unsent(r) /\ ~Unsent(r)' /\ (Begun(c, r)' <=> Begun(c, r))
    BY <1>1, <1>4, <2>2 DEF Unsent, Begun
  <2>4. PartsOf(r, k)' = PartsOf(r, k)
    BY <2>2, PartsMove
  <2>5. QED
    BY <2>2, <2>3, <2>4 DEF Due
<1>5. QED
  BY <1>1, <1>2, <1>3, <1>4, HandWorks

(* The replies to a client after a step were there before, or it is new.   *)
LEMMA OldReply ==
    ASSUME SendInv, Next, NEW c \in Conns, Kept(c), NEW r \in 1 .. Len(reply)
    PROVE  /\ r \in 1 .. Len(reply')
           /\ r \in RepliesTo(connection[c].client)' <=> r \in RepliesTo(connection[c].client)
<1>1. HeadersStay
  BY RepliesMove
<1>2. r \in 1 .. Len(reply')
  BY <1>1 DEF HeadersStay
<1>3. QED
  BY <1>1, <1>2 DEF HeadersStay, RepliesTo, Kept

LEMMA PartsStep ==
    ASSUME SendInv, ClientsInv, OwnerInv, ListInv, HandInv, PartsInv, Next
    PROVE  PartsInv'
<1> SUFFICES ASSUME NEW c \in Conns, Served(c)', NEW r \in RepliesTo(connection[c].client)'
             PROVE  PartsOf(r, connection[c].client)' = Due(c, r)'
  BY DEF PartsInv
<1>1. r \in 1 .. Len(reply') /\ reply'[r].client = connection'[c].client
  BY DEF RepliesTo
<1>2. /\ Served(c) /\ connection[c].place = "online" /\ Kept(c)
      /\ connection[c].client \in Clients
  BY <1>1, FreshFacts, ServedMoves
<1>3. PICK k \in Clients : k = connection[c].client
  BY <1>2
<1>4. connection'[c].client = k /\ reply'[r].client = k
  BY <1>1, <1>2, <1>3 DEF Kept
<1>5. PartsOf(r, k)' = Due(c, r)'
  <2>1. CASE r \notin 1 .. Len(reply)
    BY <1>1, <1>2, <1>3, <1>4, <2>1, NewPart
  <2>2. CASE r \in 1 .. Len(reply)
    <3>1. r \in RepliesTo(k) /\ reply[r].client = k
      BY <1>3, <1>4, <2>2, RepliesMove DEF RepliesTo, HeadersStay
    <3>2. PartsOf(r, k) = Due(c, r)
      BY <1>2, <1>3, <3>1 DEF PartsInv
    <3>3. CASE r # sender.reply \/ UNCHANGED sender
      <4>1. LeftAlone(c, r)
        BY <1>2, <1>3, <2>2, <3>1, <3>3 DEF LeftAlone
      <4>2. r \in Nat
        BY <2>2
      <4>3. Due(c, r)' = Due(c, r) /\ PartsOf(r, connection[c].client)' = PartsOf(r, connection[c].client)
        BY <1>2, <4>1, <4>2, DueStays
      <4>4. QED
        BY <1>3, <1>4, <3>2, <4>3 DEF PartsOf
    <3>4. CASE r = sender.reply /\ ~UNCHANGED sender
      BY <1>2, <1>3, <2>2, <3>1, <3>2, <3>4, HandDue
    <3>5. QED
      BY <3>3, <3>4
  <2>3. QED
    BY <2>1, <2>2
<1>6. QED
  BY <1>4, <1>5 DEF PartsOf

-----------------------------------------------------------------------------
(* Whole, and in order.                                                    *)

(* A client that has got part of a reply has a place where it is.          *)
LEMMA PlaceOfPart ==
    ASSUME SendInv, NEW k \in Clients, NEW i \in 1 .. Len(received[k])
    PROVE  received[k][i] \in 1 .. Len(reply) /\ PartsOf(received[k][i], k) > 0
<1>1. received \in [Clients -> Seq(1 .. Len(reply))]
  BY DEF SendInv, TypeOK
<1>2. PICK s, r, R : s = received[k] /\ r = s[i] /\ R = {r}
  OBVIOUS
<1>3. s \in Seq(1 .. Len(reply)) /\ i \in 1 .. Len(s)
  BY <1>1, <1>2
<1>4. r \in 1 .. Len(reply)
  BY <1>2, <1>3, ElementOfSeq
<1>5. i \in Places(s, R)
  BY <1>2, <1>3 DEF Places
<1>6. IsFiniteSet(Places(s, R)) /\ Cardinality(Places(s, R)) \in Nat
  BY <1>3, PlacesFinite
<1>7. Cardinality(Places(s, R)) # 0
  BY <1>5, <1>6, FS_EmptySet
<1>8. PartsOf(r, k) = Cardinality(Places(s, R))
  BY <1>2 DEF PartsOf, Places
<1>9. QED
  BY <1>2, <1>4, <1>6, <1>7, <1>8

(* What a client gets is of a reply it has got nothing of, and it has got  *)
(* all of the earlier ones and nothing of the later ones.                  *)
LEMMA GetsNext ==
    ASSUME SendInv, OwnerInv, ListInv, HandInv, ScanInv, PartsInv, WholeInv, Next,
           NEW c \in Conns, Served(c), NEW k \in Clients, k = connection[c].client,
           sender.step = "sending", sender.reply \in RepliesTo(k)
    PROVE  /\ PartsOf(sender.reply, k) = 0
           /\ \A r \in RepliesTo(k) : r < sender.reply => PartsOf(r, k) = ReplyLength
           /\ \A r \in RepliesTo(k) : PartsOf(r, k) > 0 => r <= sender.reply
<1>1. PICK x \in 1 .. Len(reply) : x = sender.reply /\ x \in RepliesTo(k)
  BY DEF RepliesTo
<1>2. /\ sender.reply # None /\ pConn = c
      /\ connection[c].throwSendMsgCount \in Int /\ connection[c].throwSendMsgCount <= 0
  <2>1. sender.reply # None
    BY DEF SendInv, SenderInv, Holding
  <2>2. QED
    BY <2>1, HandFacts, PointerFacts
<1>3. PartsOf(x, k) = 0
  <2>1. Due(c, x) = 0
    BY <1>1 DEF Due, Unsent
  <2>2. QED
    BY <1>1, <2>1 DEF PartsInv
<1>4. ASSUME NEW r \in RepliesTo(k), r < x
      PROVE  PartsOf(r, k) = ReplyLength
  <2>1. r \in Int /\ x \in Int
    BY <1>1 DEF RepliesTo
  <2>2. ~Listed(r)
    <3>1. SUFFICES ASSUME NEW i \in 1 .. Len(m_SendMsgList), m_SendMsgList[i] = r PROVE FALSE
      BY DEF Listed
    <3>2. i < sender.pos
      BY <1>1, <1>2, <1>4, <2>1, <3>1 DEF ListInv
    <3>3. m_SendMsgList[i] \notin RepliesTo(k)
      BY <1>2, <3>2 DEF ScanInv, Holding
    <3>4. QED
      BY <3>1, <3>3
  <2>3. ~Unsent(r) /\ ~Begun(c, r)
    BY <1>1, <1>2, <1>4, <2>1, <2>2 DEF Unsent, Begun
  <2>4. QED
    BY <2>3 DEF PartsInv, Due
<1>5. ASSUME NEW r \in RepliesTo(k), PartsOf(r, k) > 0, ~(r <= x)
      PROVE  FALSE
  <2>1. r \in Int /\ x \in Int
    BY <1>1 DEF RepliesTo
  <2>2. x < r
    BY <1>5, <2>1
  <2>3. PartsOf(x, k) = ReplyLength
    BY <1>1, <1>5, <2>2 DEF WholeInv
  <2>4. QED
    BY <1>3, <2>3, SendConstants
<1>6. QED
  BY <1>1, <1>3, <1>4, <1>5

(* What happens to the parts of the replies to a connected client.         *)
LEMMA PartsGrow ==
    ASSUME SendInv, Next, NEW k \in Clients
    PROVE  \/ received'[k] = received[k] /\ \A r : PartsOf(r, k)' = PartsOf(r, k)
           \/ /\ sender.step = "sending"
              /\ \E n \in 1 .. ReplyLength :
                   /\ Gets(k, n)
                   /\ \A r : PartsOf(r, k) \in Nat /\ PartsOf(r, k)' =
                               PartsOf(r, k) + (IF r = sender.reply THEN n ELSE 0)
<1>1. CASE received'[k] = received[k]
  BY <1>1, PartsMove
<1>2. ASSUME NEW n \in 1 .. ReplyLength, Gets(k, n)
      PROVE  /\ sender.step = "sending"
             /\ \A r : PartsOf(r, k) \in Nat /\ PartsOf(r, k)' =
                         PartsOf(r, k) + (IF r = sender.reply THEN n ELSE 0)
  BY <1>2, PartsMove DEF Gets, SendParts
<1>3. QED
  BY <1>1, <1>2, ReceivedMoves

LEMMA WholeStep ==
    ASSUME SendInv, ClientsInv, OwnerInv, ListInv, HandInv, ScanInv, PartsInv, WholeInv, Next
    PROVE  WholeInv'
<1> SUFFICES ASSUME NEW c \in Conns, Served(c)',
                    NEW r \in RepliesTo(connection[c].client)',
                    NEW s \in RepliesTo(connection[c].client)',
                    r < s, PartsOf(s, connection[c].client)' > 0
             PROVE  PartsOf(r, connection[c].client)' = ReplyLength
  BY DEF WholeInv
<1>1. /\ r \in 1 .. Len(reply') /\ reply'[r].client = connection'[c].client
      /\ s \in 1 .. Len(reply') /\ reply'[s].client = connection'[c].client
  BY DEF RepliesTo
<1>2. /\ Served(c) /\ connection[c].place = "online" /\ Kept(c)
      /\ connection[c].client \in Clients
  BY <1>1, FreshFacts, ServedMoves
<1>3. PICK k \in Clients : k = connection[c].client
  BY <1>2
<1>4. connection'[c].client = k
  BY <1>2, <1>3 DEF Kept
<1>5. PartsOf(s, k)' > 0
  BY <1>4 DEF PartsOf
<1>6. s \in 1 .. Len(reply)
  <2>1. SUFFICES ASSUME s \notin 1 .. Len(reply) PROVE FALSE
    OBVIOUS
  <2>2. PartsOf(s, k)' = 0
    BY <1>1, <1>2, <1>3, <1>4, <2>1, NewPart
  <2>3. QED
    BY <1>5, <2>2
<1>7. r \in 1 .. Len(reply)
  <2>1. Len(reply) \in Nat /\ Len(reply') \in Nat
    BY RepliesMove DEF HeadersStay
  <2>2. QED
    BY <1>1, <1>6, <2>1
<1>8. r \in RepliesTo(k) /\ s \in RepliesTo(k)
  BY <1>2, <1>3, <1>6, <1>7, OldReply
<1>9. ReplyLength \in Nat \ {0}
  BY SendConstants
<1>10. PartsOf(r, k)' = ReplyLength
  <2>1. CASE \A q : PartsOf(q, k)' = PartsOf(q, k)
    BY <1>2, <1>3, <1>5, <1>8, <2>1 DEF WholeInv
  <2>2. ASSUME sender.step = "sending", NEW n \in 1 .. ReplyLength,
               \A q : PartsOf(q, k) \in Nat /\ PartsOf(q, k)' =
                        PartsOf(q, k) + (IF q = sender.reply THEN n ELSE 0)
        PROVE  PartsOf(r, k)' = ReplyLength
    <3>1. PICK a, b \in Nat : a = PartsOf(r, k) /\ b = PartsOf(s, k)
      BY <2>2
    <3>2. CASE s = sender.reply
      <4>1. a = ReplyLength
        BY <1>2, <1>3, <1>8, <2>2, <3>1, <3>2, GetsNext
      <4>2. r # sender.reply
        BY <1>6, <1>7, <3>2
      <4>3. PartsOf(r, k)' = a + 0
        BY <2>2, <3>1, <4>2
      <4>4. QED
        BY <1>9, <4>1, <4>3
    <3>3. CASE s # sender.reply
      <4>1. PartsOf(s, k)' = b + 0
        BY <2>2, <3>1, <3>3
      <4>2. b > 0
        BY <1>5, <3>1, <4>1
      <4>3. a = ReplyLength
        BY <1>2, <1>3, <1>8, <3>1, <4>2 DEF WholeInv
      <4>4. r # sender.reply
        BY <1>2, <1>3, <1>8, <1>9, <2>2, <3>1, <4>3, GetsNext
      <4>5. PartsOf(r, k)' = a + 0
        BY <2>2, <3>1, <4>4
      <4>6. QED
        BY <1>9, <4>3, <4>5
    <3>4. QED
      BY <3>2, <3>3
  <2>3. QED
    BY <2>1, <2>2, PartsGrow
<1>11. QED
  BY <1>4, <1>10 DEF PartsOf

LEMMA OrderStep ==
    ASSUME SendInv, ClientsInv, OwnerInv, ListInv, HandInv, ScanInv, PartsInv, WholeInv,
           OrderInv, Next
    PROVE  OrderInv'
<1> SUFFICES ASSUME NEW c \in Conns, Served(c)', NEW k, k = connection'[c].client,
                    NEW i \in 1 .. Len(received'[k]), NEW j \in 1 .. Len(received'[k]),
                    i < j, received'[k][i] \in RepliesTo(k)', received'[k][j] \in RepliesTo(k)'
             PROVE  received'[k][i] <= received'[k][j]
  BY DEF OrderInv
<1>1. PICK x, y : x = received'[k][i] /\ y = received'[k][j]
  OBVIOUS
<1>2. x \in 1 .. Len(reply') /\ reply'[x].client = k
  BY <1>1 DEF RepliesTo
<1>3. Served(c) /\ connection[c].place = "online" /\ Kept(c) /\ k \in Clients
      /\ k = connection[c].client
  <2>1. ~Fresh(c)
    BY <1>2, FreshFacts
  <2>2. Served(c) /\ connection[c].place = "online" /\ Kept(c) /\ connection[c].client \in Clients
    BY <2>1, ServedMoves
  <2>3. QED
    BY <2>2 DEF Kept
<1>4. PICK l : l = Len(received[k])
  OBVIOUS
<1>5. ASSUME i \in 1 .. l, j \in 1 .. l,
             received'[k][i] = received[k][i], received'[k][j] = received[k][j]
      PROVE  x <= y
  <2>1. x \in 1 .. Len(reply) /\ y \in 1 .. Len(reply)
    BY <1>1, <1>3, <1>4, <1>5, PlaceOfPart
  <2>2. x \in RepliesTo(k) /\ y \in RepliesTo(k)
    BY <1>1, <1>3, <2>1, OldReply
  <2>3. QED
    BY <1>1, <1>3, <1>4, <1>5, <2>2 DEF OrderInv
<1>6. CASE received'[k] = received[k]
  BY <1>1, <1>4, <1>5, <1>6
<1>7. ASSUME NEW n \in 1 .. ReplyLength, Gets(k, n), sender.step = "sending"
      PROVE  x <= y
  <2>1. /\ l \in Nat /\ Len(received'[k]) = l + n /\ n \in Nat
        /\ \A m \in 1 .. l : received'[k][m] = received[k][m]
        /\ \A m \in 1 .. Len(received'[k]) : m > l => received'[k][m] = sender.reply
    <3>1. n \in Nat
      BY SendConstants
    <3>2. QED
      BY <1>3, <1>4, <1>7, <3>1, PartsMove
  <2>2. CASE j <= l
    <3>1. i \in 1 .. l /\ j \in 1 .. l
      BY <2>1, <2>2
    <3>2. QED
      BY <1>5, <2>1, <3>1
  <2>3. CASE i <= l /\ j > l
    <3>1. i \in 1 .. l /\ received'[k][i] = received[k][i] /\ y = sender.reply
      BY <1>1, <2>1, <2>3
    <3>2. x \in 1 .. Len(reply) /\ PartsOf(x, k) > 0
      BY <1>1, <1>3, <1>4, <3>1, PlaceOfPart
    <3>3. sender.reply \in 1 .. Len(reply)
      BY <1>7, InHand DEF SendInv, Holding
    <3>4. x \in RepliesTo(k) /\ sender.reply \in RepliesTo(k)
      BY <1>1, <1>3, <3>1, <3>2, <3>3, OldReply
    <3>5. QED
      BY <1>3, <1>7, <3>1, <3>2, <3>4, GetsNext
  <2>4. CASE i > l /\ j > l
    <3>1. x = y
      BY <1>1, <2>1, <2>4
    <3>2. x \in Int
      BY <1>2
    <3>3. QED
      BY <3>1, <3>2
  <2>5. QED
    <3>1. i \in Int /\ j \in Int
      OBVIOUS
    <3>2. QED
      BY <2>1, <2>2, <2>3, <2>4, <3>1
<1>8. QED
  BY <1>1, <1>3, <1>6, <1>7, PartsGrow

-----------------------------------------------------------------------------
(* The theorems about the replies.                                         *)

LEMMA InitStream ==
    ASSUME Init
    PROVE  StreamInv
<1> USE DEF Init
<1>1. Len(m_SendMsgList) = 0 /\ Len(reply) = 0 /\ Online = {}
  BY DEF Online
<1>2. ClientsInv /\ OwnerInv
  BY <1>1 DEF ClientsInv, OwnerInv, Idle
<1>3. ListInv /\ HandInv /\ ScanInv
  BY <1>1 DEF ListInv, HandInv, ScanInv, Holding, Idle
<1>4. HoldInv
  BY <1>1 DEF HoldInv, HoldsOf, Served, Online
<1>5. PartsInv /\ WholeInv /\ OrderInv
  BY <1>1 DEF PartsInv, WholeInv, OrderInv, Served
<1>6. QED
  BY <1>2, <1>3, <1>4, <1>5 DEF StreamInv

LEMMA StreamStays ==
    ASSUME StreamInv, UNCHANGED vars
    PROVE  StreamInv'
<1>1. /\ UNCHANGED <<m_SendMsgList, reply, connection, socketOf, writable, status>>
      /\ UNCHANGED <<received, accepted, sender, logic, epoll>>
  BY DEF vars, list, kernel
<1>2. Online' = Online
  BY <1>1 DEF Online
<1>3. /\ \A c \in Conns : Served(c)' = Served(c)
      /\ \A r : Listed(r)' = Listed(r)
      /\ \A k : RepliesTo(k)' = RepliesTo(k)
      /\ \A r, k : PartsOf(r, k)' = PartsOf(r, k)
      /\ pConn' = pConn
  BY <1>1, <1>2 DEF Served, Attached, Listed, RepliesTo, PartsOf, pConn
<1>4. (ClientsInv /\ OwnerInv)'
  BY <1>1, <1>2 DEF StreamInv, ClientsInv, OwnerInv, OwnHeader
<1>5. ListInv'
  BY <1>1, <1>3 DEF StreamInv, ListInv
<1>6. (HandInv /\ ScanInv)'
  BY <1>1, <1>3 DEF StreamInv, HandInv, ScanInv
<1>7. HoldInv'
  BY <1>1, <1>3 DEF StreamInv, HoldInv, HoldsOf, Completes
<1>8. PartsInv'
  <2>1. \A c, r : Due(c, r)' = Due(c, r)
    BY <1>1, <1>3 DEF Due, Unsent, Begun
  <2>2. QED
    BY <1>1, <1>3, <2>1 DEF StreamInv, PartsInv
<1>9. (WholeInv /\ OrderInv)'
  BY <1>1, <1>3 DEF StreamInv, WholeInv, OrderInv
<1>10. QED
  BY <1>4, <1>5, <1>6, <1>7, <1>8, <1>9 DEF StreamInv

LEMMA StreamStep ==
    ASSUME SendInv, StreamInv, [Next]_vars
    PROVE  StreamInv'
<1>1. CASE UNCHANGED vars
  BY <1>1, StreamStays
<1>2. CASE Next
  <2>1. /\ ClientsInv /\ OwnerInv /\ ListInv /\ HandInv /\ ScanInv /\ HoldInv
        /\ PartsInv /\ WholeInv /\ OrderInv
    BY DEF StreamInv
  <2>2. (ClientsInv /\ OwnerInv /\ ListInv)'
    BY <1>2, <2>1, ClientsStep, OwnerStep, ListStep
  <2>3. (HandInv /\ ScanInv /\ HoldInv)'
    BY <1>2, <2>1, HandStep, ScanStep, HoldStep
  <2>4. (PartsInv /\ WholeInv /\ OrderInv)'
    BY <1>2, <2>1, PartsStep, WholeStep, OrderStep
  <2>5. QED
    BY <2>2, <2>3, <2>4 DEF StreamInv
<1>3. QED
  BY <1>1, <1>2

(* Where the replies to the connected clients are, part by part, while the *)
(* sender, the threads of the pool and the epoll thread go on.             *)
THEOREM StreamHolds == Spec => []StreamInv
<1>1. Init => StreamInv
  BY InitStream
<1>2. SendInv /\ StreamInv /\ [Next]_vars => StreamInv'
  BY StreamStep
<1>3. QED
  BY <1>1, <1>2, InvariantHolds, PTL DEF Spec

(* Of a reply to a connected client, no more is due than there is of it.   *)
LEMMA DueBounds ==
    ASSUME SendInv, NEW c \in Conns, NEW r
    PROVE  Due(c, r) \in Nat /\ Due(c, r) <= ReplyLength
<1>1. connection[c].sendMsgLen \in 0 .. ReplyLength
  BY DEF SendInv, TypeOK
<1>2. QED
  BY <1>1, SendConstants DEF Due

(* A client that is connected gets its replies whole and in the order they *)
(* were queued, however the sender, a hold and a close interleave.         *)
THEOREM RepliesWholeInOrder == Spec => []WholeInOrder
<1>1. SendInv /\ StreamInv => WholeInOrder
  <2> SUFFICES ASSUME SendInv, StreamInv, NEW c \in Conns, Served(c),
                      NEW k, k = connection[c].client
               PROVE  /\ \A i, j \in 1 .. Len(received[k]) :
                           i < j /\ {received[k][i], received[k][j]} \subseteq RepliesTo(k) =>
                             received[k][i] <= received[k][j]
                      /\ \A r \in RepliesTo(k) : PartsOf(r, k) <= ReplyLength
                      /\ \A r, s \in RepliesTo(k) :
                           r < s /\ PartsOf(s, k) > 0 => PartsOf(r, k) = ReplyLength
    BY DEF WholeInOrder
  <2>1. \A i, j \in 1 .. Len(received[k]) :
          i < j /\ {received[k][i], received[k][j]} \subseteq RepliesTo(k) =>
            received[k][i] <= received[k][j]
    BY DEF StreamInv, OrderInv
  <2>2. \A r \in RepliesTo(k) : PartsOf(r, k) <= ReplyLength
    BY DueBounds DEF StreamInv, PartsInv
  <2>3. \A r, s \in RepliesTo(k) : r < s /\ PartsOf(s, k) > 0 => PartsOf(r, k) = ReplyLength
    BY DEF StreamInv, WholeInv
  <2>4. QED
    BY <2>1, <2>2, <2>3
<1>2. QED
  BY <1>1, InvariantHolds, StreamHolds, PTL

(* What is held of a reply is what its client lacks of it, its memory lives*)
(* and epoll is asked for the client's socket.                             *)
THEOREM HeldIsIntact == Spec => []HeldReplyIntact
<1>1. SendInv /\ StreamInv => HeldReplyIntact
  <2> SUFFICES ASSUME SendInv, StreamInv, NEW c \in Conns, Served(c), ~SenderHas(c),
                      NEW k, k = connection[c].client,
                      NEW held, held = connection[c].pSendMsgMemPointer
               PROVE  \/ /\ connection[c].throwSendMsgCount = 0
                         /\ \A r \in RepliesTo(k) : PartsOf(r, k) \in {0, ReplyLength}
                      \/ /\ connection[c].throwSendMsgCount = 1
                         /\ held \in RepliesTo(k) /\ reply[held].live /\ ~Listed(held)
                         /\ connection[c].sendMsgLen > 0
                         /\ PartsOf(held, k) + connection[c].sendMsgLen = ReplyLength
                         /\ \A r \in RepliesTo(k) \ {held} : PartsOf(r, k) \in {0, ReplyLength}
                         /\ writable[connection[c].sockFd]
    BY DEF HeldReplyIntact
  <2>1. /\ connection[c].place = "online" /\ ~ShutDown(k)
        /\ connection[c].throwSendMsgCount \in Int
        /\ connection[c].sendMsgLen \in 0 .. ReplyLength /\ ReplyLength \in Nat
        /\ held # None => held \in 1 .. Len(reply) /\ reply[held].client = k
    <3>1. connection[c].place = "online" /\ ~ShutDown(k)
      BY DEF Served, Online, ShutDown
    <3>2. connection[c].sendMsgLen \in 0 .. ReplyLength /\ ReplyLength \in Nat
      BY SendConstants DEF SendInv, TypeOK
    <3>3. QED
      BY <3>1, <3>2, PointerFacts DEF PointerOf
  <2>2. connection[c].throwSendMsgCount \in {0, 1}
    <3>1. ~(connection[c].throwSendMsgCount < 0)
      BY <2>1, PointerFacts DEF PointerOf
    <3>2. connection[c].throwSendMsgCount <= 1
      BY <2>1 DEF StreamInv, HoldInv, HoldsOf
    <3>3. QED
      BY <2>1, <3>1, <3>2
  <2>3. \A r \in RepliesTo(k) : PartsOf(r, k) = Due(c, r)
    BY DEF StreamInv, PartsInv
  <2>4. ASSUME NEW r \in RepliesTo(k)
        PROVE  ~(sender.step \in Holding /\ sender.reply = r)
    <3>1. reply[r].pConn = c /\ sender.step \in Holding => sender.reply # None
      BY <2>1 DEF StreamInv, OwnerInv, OwnHeader, RepliesTo, Online, SendInv, SenderInv
    <3>2. reply[r].pConn = c
      BY <2>1 DEF StreamInv, OwnerInv, OwnHeader, RepliesTo, Online
    <3>3. QED
      BY <3>1, <3>2 DEF SenderHas
  <2>5. CASE connection[c].throwSendMsgCount = 0
    <3>1. \A r \in RepliesTo(k) : ~Begun(c, r)
      BY <2>4, <2>5 DEF Begun, Holding
    <3>2. \A r \in RepliesTo(k) : PartsOf(r, k) \in {0, ReplyLength}
      BY <2>3, <3>1 DEF Due
    <3>3. QED
      BY <2>5, <3>2
  <2>6. CASE connection[c].throwSendMsgCount = 1
    <3>1. /\ held # None /\ reply[held].live /\ ~Listed(held)
          /\ connection[c].sendMsgLen > 0
          /\ \/ writable[connection[c].sockFd]
             \/ sender.step = "registering" /\ sender.reply # None /\ pConn = c
      BY <2>6 DEF StreamInv, HoldInv, HoldsOf, Completes
    <3>2. writable[connection[c].sockFd]
      BY <3>1 DEF SenderHas, pConn
    <3>3. held \in RepliesTo(k)
      BY <2>1, <3>1 DEF RepliesTo
    <3>4. PartsOf(held, k) + connection[c].sendMsgLen = ReplyLength
      <4>1. ~Unsent(held) /\ Begun(c, held)
        BY <2>4, <2>6, <3>1, <3>3 DEF Unsent, Begun, Holding
      <4>2. PartsOf(held, k) = ReplyLength - connection[c].sendMsgLen
        BY <2>3, <3>3, <4>1 DEF Due
      <4>3. QED
        BY <2>1, <4>2
    <3>5. \A r \in RepliesTo(k) \ {held} : PartsOf(r, k) \in {0, ReplyLength}
      BY <2>3, <2>4 DEF Due, Begun, Holding
    <3>6. QED
      BY <2>6, <3>1, <3>2, <3>3, <3>4, <3>5
  <2>7. QED
    BY <2>2, <2>5, <2>6
<1>2. QED
  BY <1>1, InvariantHolds, StreamHolds, PTL
=============================================================================

------------------------------ MODULE Reception ------------------------------
(***************************************************************************)
(* Reception composes the read handler (MsgFraming) with the list of       *)
(* received messages and the thread pool (RecvQueue): the epoll thread     *)
(* reads one connection after the other, and in the step that completes a  *)
(* packet it links the packet's buffer to the list.  Until it has signalled*)
(* the pool it reads nothing else.  The thread that recycles closed        *)
(* connections runs beside it.                                             *)
(***************************************************************************)
EXTENDS RecvQueue, MsgFraming

CONSTANT MaxClients      \* bound: clients accepted

VARIABLE accepted        \* clients accepted so far

receptionVars == <<vars, framingVars, accepted>>

ReceptionInit == Init /\ FramingInit /\ accepted = 0

(* The epoll thread is back in its loop: all it pushed is signalled.       *)
Dispatching == producer = "receiving"

ReadSome ==
    \E c \in Conns :
      /\ Dispatching
      /\ ReceivePart(c) \/ RejectHeader(c) \/ ReceiveHeader(c)
      /\ UNCHANGED <<vars, accepted>>

PushPacket ==
    \E c \in Conns :
      /\ ReceivePacket(c)
      /\ LinkMessage
      /\ UNCHANGED accepted

CloseClient ==
    \E c \in Conns :
      /\ Dispatching
      /\ KickFlood(c) \/ Disconnect(c)
      /\ UNCHANGED <<vars, accepted>>

AcceptClient ==
    \E c \in Conns :
      /\ Dispatching
      /\ accepted < MaxClients
      /\ accepted' = accepted + 1
      /\ Accept(c)
      /\ UNCHANGED vars

(* The recycling thread.  Freeing a block a second time is undefined: the  *)
(* allocator notices it and aborts, or the block has been handed out again *)
(* and is now lost to its new owner.                                       *)
RecycleConnection ==
    \E c \in Conns :
      /\ PutOneToFree(c)
      /\ running' \in IF FreesTwice(c) THEN BOOLEAN ELSE {TRUE}
      /\ UNCHANGED <<m_RecvMsgList, size, push, pops, handled, accepted>>

FinishPush ==               \* the rest of PushRecvMsgToRecvListAndCond
    /\ LoadSizeToPush \/ StoreSizeToPush \/ SignalThread
    /\ UNCHANGED <<framingVars, accepted>>

PoolThread ==
    /\ \E t \in Threads : ThreadStep(t)
    /\ UNCHANGED <<framingVars, accepted>>

TimePasses == Tick /\ UNCHANGED <<vars, accepted>>

ReceptionNext ==
    /\ running
    /\ \/ ReadSome \/ PushPacket \/ CloseClient \/ AcceptClient \/ FinishPush
       \/ RecycleConnection \/ PoolThread \/ TimePasses

ReceptionSpec == ReceptionInit /\ [][ReceptionNext]_receptionVars
=============================================================================

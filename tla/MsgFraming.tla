----------------------------- MODULE MsgFraming -----------------------------
(***************************************************************************)
(* How EpollEventReadRequestHandler cuts the byte stream of a client into  *)
(* packets, which buffer it fills, and how TestFlood judges the client.    *)
(*                                                                         *)
(* A packet is a header that names the length of the whole packet, and a   *)
(* body.  recv() returns any part of what is asked for, so a packet takes  *)
(* any number of calls of the handler.  A header with an illegal length is *)
(* dropped, and what follows it is read as the next header.                *)
(*                                                                         *)
(* The bytes are left out; the client is got (how much of its present      *)
(* packet it has sent) and length (what its header says), the buffers are  *)
(* their sizes and who owns them.  recv() with nothing to read (EAGAIN,    *)
(* EINTR) changes nothing and is no step.                                  *)
(***************************************************************************)
EXTENDS Integers, Sequences

CONSTANTS
    Conns,               \* connection objects
    g_LenPkgHeader,      \* 8: length of a packet header
    g_LenMsgHeader,      \* 16: length of the message header in front of it
    MSG_HEADER_LEN,      \* 20: size of dataHeadInfo
    PKG_MAX_LENGTH,      \* 30000
    PkgLengths,          \* what clients put in the PkgLength field
    m_FloodTimeInterval,
    m_FloodKickCount,
    TimeModulus,         \* 2^64: the milliseconds are a uint64_t
    FirstTime, LastTime  \* bound: the times of the clock

ASSUME FramingConstants ==
    /\ {g_LenPkgHeader, g_LenMsgHeader, MSG_HEADER_LEN, PKG_MAX_LENGTH} \subseteq Nat \ {0}
    /\ g_LenPkgHeader <= MSG_HEADER_LEN
    /\ g_LenPkgHeader <= PKG_MAX_LENGTH
    /\ PkgLengths \subseteq Nat
    /\ {m_FloodTimeInterval, m_FloodKickCount} \subseteq Nat \ {0}
    /\ {FirstTime, LastTime, TimeModulus} \subseteq Nat
    /\ m_FloodTimeInterval <= FirstTime /\ FirstTime <= LastTime
    /\ LastTime + m_FloodTimeInterval < TimeModulus

VARIABLES
    place,               \* "free", "online", or "closed" and waiting to be recycled
    recvMsgCurStatus,
    pRecvMsgBuff,        \* [in |-> which buffer, at |-> offset in it]
    recvMsgLen,          \* bytes to ask recv() for
    pRecvMsgMemPointer,  \* who owns the buffer it points to, "null" for none
    msgBufferSize,       \* size of that buffer
    m_FloodAttackEnable,
    now,                 \* gettimeofday()
    floodAttackLastTime,
    floodAttackCount,
    got, length,         \* the client: bytes of its packet sent, and its PkgLength
    lastPacket,          \* time of the client's last packet, 0 for none
    closeGaps,           \* of the last m_FloodKickCount gaps between packets, which are short
    kicked               \* closed as a flood attacker

reading == <<recvMsgCurStatus, pRecvMsgBuff, recvMsgLen, pRecvMsgMemPointer, msgBufferSize>>
flood == <<floodAttackLastTime, floodAttackCount, lastPacket, closeGaps>>
client == <<got, length>>
framingVars == <<place, reading, m_FloodAttackEnable, now, flood, client, kicked>>

DataHeadInfo == [in |-> "dataHeadInfo", at |-> 0]

(* stConnection::GetOneToUse has not run yet: nothing is read from these.  *)
FramingInit ==
    /\ place = [c \in Conns |-> "free"]
    /\ recvMsgCurStatus = [c \in Conns |-> "PKG_HD_INIT"]
    /\ pRecvMsgBuff = [c \in Conns |-> DataHeadInfo]
    /\ recvMsgLen = [c \in Conns |-> g_LenPkgHeader]
    /\ pRecvMsgMemPointer = [c \in Conns |-> "null"]
    /\ msgBufferSize = [c \in Conns |-> 0]
    /\ m_FloodAttackEnable \in BOOLEAN
    /\ now = FirstTime
    /\ floodAttackLastTime = [c \in Conns |-> 0]
    /\ floodAttackCount = [c \in Conns |-> 0]
    /\ got = [c \in Conns |-> 0]
    /\ length = [c \in Conns |-> 0]
    /\ lastPacket = [c \in Conns |-> 0]
    /\ closeGaps = [c \in Conns |-> <<>>]
    /\ kicked = [c \in Conns |-> FALSE]

-----------------------------------------------------------------------------
(* The client's side of a call of recv() that returns n bytes.             *)

LegalLength(len) == g_LenPkgHeader <= len /\ len <= PKG_MAX_LENGTH

(* Where the packet ends, as the protocol says.                            *)
PacketEnd(len) == IF LegalLength(len) THEN len ELSE g_LenPkgHeader

(* The length is the client's choice until its header is complete.         *)
NamedLengths(c) == IF got[c] < g_LenPkgHeader THEN PkgLengths ELSE {length[c]}

ClientSends(c, n, len) ==
    LET sent == got[c] + n
        over == sent >= g_LenPkgHeader /\ sent >= PacketEnd(len) IN
    /\ got' = [got EXCEPT ![c] = IF over THEN 0 ELSE sent]
    /\ length' = [length EXCEPT ![c] = IF sent >= g_LenPkgHeader /\ ~over THEN len ELSE 0]

-----------------------------------------------------------------------------
(* TestFlood.  The difference of the two times is a uint64_t: when the     *)
(* clock has been set back it wraps around.                                *)

CountEveryPacket(c) ==      \* faulty: a long gap does not reset the count
    IF (now - floodAttackLastTime[c]) % TimeModulus < m_FloodTimeInterval
      THEN floodAttackCount[c] + 1 ELSE floodAttackCount[c]

FloodCount(c) ==
    IF (now - floodAttackLastTime[c]) % TimeModulus < m_FloodTimeInterval
      THEN floodAttackCount[c] + 1 ELSE 0

IsFlood(c) == m_FloodAttackEnable /\ FloodCount(c) >= m_FloodKickCount

TestFlood(c) ==
    IF ~m_FloodAttackEnable THEN UNCHANGED flood
    ELSE
      /\ floodAttackCount' = [floodAttackCount EXCEPT ![c] = FloodCount(c)]
      /\ floodAttackLastTime' = [floodAttackLastTime EXCEPT ![c] = now]
      /\ lastPacket' = [lastPacket EXCEPT ![c] = now]
      /\ closeGaps' = [closeGaps EXCEPT ![c] =
            LET gaps == Append(@, lastPacket[c] # 0 /\ lastPacket[c] <= now
                                    /\ now < lastPacket[c] + m_FloodTimeInterval) IN
            IF Len(gaps) <= m_FloodKickCount THEN gaps ELSE Tail(gaps)]

-----------------------------------------------------------------------------
(* The handler, once recv() has returned n bytes to an open connection.    *)

AskAgain(c, n) ==     \* faulty: the bytes still to come are not reduced
    /\ recvMsgCurStatus' = [recvMsgCurStatus EXCEPT ![c] = IF @ \in {"PKG_HD_INIT", "PKG_HD_RECVING"}
                                                     THEN "PKG_HD_RECVING" ELSE "PKG_BD_RECVING"]
    /\ pRecvMsgBuff' = [pRecvMsgBuff EXCEPT ![c] = [in |-> @.in, at |-> @.at + n]]
    /\ UNCHANGED <<recvMsgLen, pRecvMsgMemPointer, msgBufferSize>>

Resume(c, n) ==                 \* the header or the body is still incomplete
    /\ recvMsgCurStatus' = [recvMsgCurStatus EXCEPT ![c] = IF @ \in {"PKG_HD_INIT", "PKG_HD_RECVING"}
                                                     THEN "PKG_HD_RECVING" ELSE "PKG_BD_RECVING"]
    /\ pRecvMsgBuff' = [pRecvMsgBuff EXCEPT ![c] = [in |-> @.in, at |-> @.at + n]]
    /\ recvMsgLen' = [recvMsgLen EXCEPT ![c] = @ - n]
    /\ UNCHANGED <<pRecvMsgMemPointer, msgBufferSize>>

ExpectHeader(c) ==
    /\ recvMsgCurStatus' = [recvMsgCurStatus EXCEPT ![c] = "PKG_HD_INIT"]
    /\ pRecvMsgBuff' = [pRecvMsgBuff EXCEPT ![c] = DataHeadInfo]
    /\ recvMsgLen' = [recvMsgLen EXCEPT ![c] = g_LenPkgHeader]

(* RecvMsgHeaderParseProc allocates the message buffer, the bytes of the   *)
(* header are copied to it and recv() goes on behind them.                 *)
ExpectWholePacket(c, len) ==    \* faulty: the header is counted twice
    /\ recvMsgCurStatus' = [recvMsgCurStatus EXCEPT ![c] = "PKG_BD_INIT"]
    /\ pRecvMsgBuff' = [pRecvMsgBuff EXCEPT ![c] =
                          [in |-> "message", at |-> g_LenMsgHeader + g_LenPkgHeader]]
    /\ recvMsgLen' = [recvMsgLen EXCEPT ![c] = len]
    /\ pRecvMsgMemPointer' = [pRecvMsgMemPointer EXCEPT ![c] = "connection"]
    /\ msgBufferSize' = [msgBufferSize EXCEPT ![c] = g_LenMsgHeader + len]

ExpectBody(c, len) ==
    /\ recvMsgCurStatus' = [recvMsgCurStatus EXCEPT ![c] = "PKG_BD_INIT"]
    /\ pRecvMsgBuff' = [pRecvMsgBuff EXCEPT ![c] =
                          [in |-> "message", at |-> g_LenMsgHeader + g_LenPkgHeader]]
    /\ recvMsgLen' = [recvMsgLen EXCEPT ![c] = len - g_LenPkgHeader]
    /\ pRecvMsgMemPointer' = [pRecvMsgMemPointer EXCEPT ![c] = "connection"]
    /\ msgBufferSize' = [msgBufferSize EXCEPT ![c] = g_LenMsgHeader + len]

InHeader(c) == recvMsgCurStatus[c] \in {"PKG_HD_INIT", "PKG_HD_RECVING"}

(* recv() has returned n bytes, all that was asked for, and with them the  *)
(* packet, whose length field says len, is complete.                       *)
CompletesPacket(c, n, len) ==
    n = recvMsgLen[c] /\ (InHeader(c) => len = g_LenPkgHeader)

Receives(c, n, len) ==
    /\ place[c] = "online"
    /\ n \in 1 .. recvMsgLen[c]
    /\ len \in NamedLengths(c)
    /\ ClientSends(c, n, len)

ReceivePart(c) ==
    \E n \in 1 .. recvMsgLen[c], len \in NamedLengths(c) :
      /\ n # recvMsgLen[c]
      /\ Receives(c, n, len)
      /\ Resume(c, n)
      /\ UNCHANGED <<place, m_FloodAttackEnable, now, flood, kicked>>

RejectHeader(c) ==
    \E len \in NamedLengths(c) :
      /\ InHeader(c)
      /\ ~LegalLength(len)
      /\ Receives(c, recvMsgLen[c], len)
      /\ ExpectHeader(c)
      /\ UNCHANGED <<place, pRecvMsgMemPointer, msgBufferSize, m_FloodAttackEnable, now,
                     flood, kicked>>

ReceiveHeader(c) ==
    \E len \in NamedLengths(c) :
      /\ InHeader(c)
      /\ LegalLength(len)
      /\ len > g_LenPkgHeader
      /\ Receives(c, recvMsgLen[c], len)
      /\ ExpectBody(c, len)
      /\ UNCHANGED <<place, m_FloodAttackEnable, now, flood, kicked>>

(* A packet that is only a header gets its message buffer in this step.    *)
PacketBufferSize(c, len) ==
    msgBufferSize' = [msgBufferSize EXCEPT ![c] = IF InHeader(c) THEN g_LenMsgHeader + len ELSE @]

(* The packet is complete and no flood: RecvMsgPacketParseProc hands its   *)
(* buffer to the list of received messages; the connection keeps the       *)
(* pointer.                                                                *)
ReceivePacket(c) ==
    \E len \in NamedLengths(c) :
      /\ CompletesPacket(c, recvMsgLen[c], len)
      /\ ~IsFlood(c)
      /\ Receives(c, recvMsgLen[c], len)
      /\ TestFlood(c)
      /\ pRecvMsgMemPointer' = [pRecvMsgMemPointer EXCEPT ![c] = "list"]
      /\ PacketBufferSize(c, len)
      /\ ExpectHeader(c)
      /\ UNCHANGED <<place, m_FloodAttackEnable, now, kicked>>

(* The packet makes its client a flood attacker: the buffer is freed and   *)
(* the connection closed.                                                  *)
KickFlood(c) ==
    \E len \in NamedLengths(c) :
      /\ CompletesPacket(c, recvMsgLen[c], len)
      /\ IsFlood(c)
      /\ Receives(c, recvMsgLen[c], len)
      /\ TestFlood(c)
      /\ pRecvMsgMemPointer' = [pRecvMsgMemPointer EXCEPT ![c] = "freed"]
      /\ PacketBufferSize(c, len)
      /\ ExpectHeader(c)
      /\ place' = [place EXCEPT ![c] = "closed"]
      /\ kicked' = [kicked EXCEPT ![c] = TRUE]
      /\ UNCHANGED <<m_FloodAttackEnable, now>>

-----------------------------------------------------------------------------
(* The life of a connection, as far as it concerns the fields above.       *)

Accept(c) ==                    \* GetOneToUse
    /\ place[c] = "free"
    /\ place' = [place EXCEPT ![c] = "online"]
    /\ ExpectHeader(c)
    /\ pRecvMsgMemPointer' = [pRecvMsgMemPointer EXCEPT ![c] = "null"]
    /\ floodAttackLastTime' = [floodAttackLastTime EXCEPT ![c] = 0]
    /\ floodAttackCount' = [floodAttackCount EXCEPT ![c] = 0]
    /\ got' = [got EXCEPT ![c] = 0]
    /\ length' = [length EXCEPT ![c] = 0]
    /\ lastPacket' = [lastPacket EXCEPT ![c] = 0]
    /\ closeGaps' = [closeGaps EXCEPT ![c] = <<>>]
    /\ kicked' = [kicked EXCEPT ![c] = FALSE]
    /\ UNCHANGED <<msgBufferSize, m_FloodAttackEnable, now>>

Disconnect(c) ==                \* recv() returns 0 or fails: CloseConnectionToRecy
    /\ place[c] = "online"
    /\ place' = [place EXCEPT ![c] = "closed"]
    /\ UNCHANGED <<reading, m_FloodAttackEnable, now, flood, client, kicked>>

KeepBuffer(c) ==                \* faulty: the unfinished packet is not freed
    /\ place[c] = "closed"
    /\ place' = [place EXCEPT ![c] = "free"]
    /\ UNCHANGED <<reading, m_FloodAttackEnable, now, flood, client, kicked>>

(* PutOneToFree frees whatever pRecvMsgMemPointer points to: a packet that *)
(* has not been completed, but also one the list or TestFlood's caller had *)
(* the freeing of.                                                         *)
PutOneToFree(c) ==
    /\ place[c] = "closed"
    /\ place' = [place EXCEPT ![c] = "free"]
    /\ pRecvMsgMemPointer' = [pRecvMsgMemPointer EXCEPT ![c] = IF @ = "null" THEN @ ELSE "freed"]
    /\ UNCHANGED <<recvMsgCurStatus, pRecvMsgBuff, recvMsgLen, msgBufferSize,
                   m_FloodAttackEnable, now, flood, client, kicked>>

FreesTwice(c) == place[c] = "closed" /\ pRecvMsgMemPointer[c] \in {"list", "freed"}

Tick ==                         \* the wall clock goes on, or is set back
    /\ m_FloodAttackEnable
    /\ now' \in FirstTime .. LastTime
    /\ now' # now
    /\ now' <= now + 1
    /\ UNCHANGED <<place, reading, m_FloodAttackEnable, flood, client, kicked>>

FramingNext ==
    \/ \E c \in Conns :
         \/ ReceivePart(c) \/ RejectHeader(c) \/ ReceiveHeader(c)
         \/ ReceivePacket(c) \/ KickFlood(c)
         \/ Accept(c) \/ Disconnect(c) \/ PutOneToFree(c)
    \/ Tick

FramingSpec == FramingInit /\ [][FramingNext]_framingVars

-----------------------------------------------------------------------------
(* Properties.                                                             *)

(* Every field has the type of the C++ member it stands for.               *)
FramingTypeOK ==
    /\ place \in [Conns -> {"free", "online", "closed"}]
    /\ recvMsgCurStatus \in [Conns -> {"PKG_HD_INIT", "PKG_HD_RECVING", "PKG_BD_INIT",
                                       "PKG_BD_RECVING"}]
    /\ pRecvMsgBuff \in [Conns -> [in : {"dataHeadInfo", "message"}, at : Nat]]
    /\ recvMsgLen \in [Conns -> Nat]
    /\ pRecvMsgMemPointer \in [Conns -> {"null", "connection", "list", "freed"}]
    /\ msgBufferSize \in [Conns -> Nat]
    /\ m_FloodAttackEnable \in BOOLEAN
    /\ now \in Nat
    /\ floodAttackLastTime \in [Conns -> Nat]
    /\ floodAttackCount \in [Conns -> Nat]
    /\ got \in [Conns -> Nat]
    /\ length \in [Conns -> Nat]
    /\ lastPacket \in [Conns -> Nat]
    /\ closeGaps \in [Conns -> Seq(BOOLEAN)]
    /\ kicked \in [Conns -> BOOLEAN]

(* However recv() cuts the stream, the server and its client agree on where*)
(* in the packet they are: the status is that of the part being sent, and  *)
(* what recv() is asked for is never a byte more than the rest of that     *)
(* part, so that no byte of the next packet is taken for this one.         *)
InStep ==
    \A c \in Conns : place[c] = "online" =>
      /\ InHeader(c) <=> got[c] < g_LenPkgHeader
      /\ recvMsgCurStatus[c] \in {"PKG_HD_INIT", "PKG_BD_INIT"} <=> got[c] \in {0, g_LenPkgHeader}
      /\ recvMsgLen[c] > 0
      /\ got[c] + recvMsgLen[c] = IF got[c] < g_LenPkgHeader THEN g_LenPkgHeader ELSE length[c]

(* recv() is never asked to write past the end of the buffer it writes to, *)
(* for every length a header can name.                                     *)
WritesInBounds ==
    \A c \in Conns : place[c] = "online" =>
      pRecvMsgBuff[c].at + recvMsgLen[c]
        <= IF pRecvMsgBuff[c].in = "dataHeadInfo" THEN MSG_HEADER_LEN ELSE msgBufferSize[c]

(* The connection owns a message buffer exactly while it receives a body   *)
(* into it: it never writes into a buffer that a thread of the pool may be *)
(* reading or has freed, and a buffer it owns is neither overwritten by the*)
(* next header nor forgotten when the object goes back to the pool.        *)
BufferOwned ==
    \A c \in Conns :
      pRecvMsgMemPointer[c] = "connection"
        <=> place[c] # "free" /\ pRecvMsgBuff[c].in = "message"

(* A client is closed as a flood attacker exactly when its last            *)
(* m_FloodKickCount packets each came less than m_FloodTimeInterval after  *)
(* the one before, by a clock that may have been set back in between; the  *)
(* first packet of a connection never counts.                              *)
FloodExact ==
    \A c \in Conns : place[c] # "free" =>
      (kicked[c] <=> /\ m_FloodAttackEnable
                     /\ Len(closeGaps[c]) = m_FloodKickCount
                     /\ \A i \in 1 .. m_FloodKickCount : closeGaps[c][i])
=============================================================================

-------------------------- MODULE ReceptionProofs --------------------------
(***************************************************************************)
(* Proofs about Reception for every number of connections and threads, all *)
(* lengths of headers and packets and every setting of the flood check.    *)
(***************************************************************************)
EXTENDS Reception, RecvQueueProofs

(* The status says whether the header or the body is received, and the     *)
(* buffer that recv() writes to has received what the client has sent.     *)
BufferInv ==
    \A c \in Conns : place[c] = "online" =>
      /\ InHeader(c) <=> pRecvMsgBuff[c].in = "dataHeadInfo"
      /\ InHeader(c) => pRecvMsgBuff[c].at = got[c]
      /\ ~InHeader(c) =>
           /\ LegalLength(length[c])
           /\ pRecvMsgBuff[c].at = g_LenMsgHeader + got[c]
           /\ msgBufferSize[c] = g_LenMsgHeader + length[c]

(* A history of short and long gaps ends with a run of k short ones.       *)
EndsWithRun(gaps, k) ==
    /\ k <= Len(gaps)
    /\ \A i \in 1 .. Len(gaps) : i > Len(gaps) - k => gaps[i]
    /\ k < Len(gaps) => ~gaps[Len(gaps) - k]

(* TestFlood's fields against the history: the count is the length of the  *)
(* run of short gaps that ends the history.                                *)
CountInv(c) ==
    /\ floodAttackLastTime[c] = lastPacket[c]
    /\ lastPacket[c] = 0 \/ lastPacket[c] \in FirstTime .. LastTime
    /\ Len(closeGaps[c]) <= m_FloodKickCount
    /\ EndsWithRun(closeGaps[c], floodAttackCount[c])

(* The limit is reached in the step that closes the client.                *)
KickInv(c) ==
    /\ ~m_FloodAttackEnable => floodAttackCount[c] = 0
    /\ place[c] = "online" => ~kicked[c] /\ floodAttackCount[c] < m_FloodKickCount
    /\ place[c] = "closed" => (kicked[c] <=> floodAttackCount[c] >= m_FloodKickCount)

FloodInv ==
    /\ now \in FirstTime .. LastTime
    /\ \A c \in Conns : CountInv(c) /\ KickInv(c)

FramingInv ==
    /\ FramingTypeOK
    /\ InStep
    /\ BufferInv
    /\ BufferOwned

-----------------------------------------------------------------------------
(* Framing and buffers.                                                    *)

LEMMA Constants ==
    /\ g_LenPkgHeader \in Nat /\ g_LenPkgHeader > 0
    /\ g_LenMsgHeader \in Nat
    /\ MSG_HEADER_LEN \in Nat /\ g_LenPkgHeader <= MSG_HEADER_LEN
    /\ PKG_MAX_LENGTH \in Nat
    /\ \A len \in PkgLengths : len \in Nat
BY FramingConstants

LEMMA InitFraming == FramingInit => FramingInv
BY FramingConstants DEF FramingInit, FramingInv, FramingTypeOK, InStep, BufferInv, BufferOwned,
   DataHeadInfo

(* An action of connection c leaves the other connections as they are.     *)
OnlyConn(c) ==
    \A d \in Conns \ {c} :
      /\ place'[d] = place[d]
      /\ recvMsgCurStatus'[d] = recvMsgCurStatus[d]
      /\ pRecvMsgBuff'[d] = pRecvMsgBuff[d]
      /\ recvMsgLen'[d] = recvMsgLen[d]
      /\ pRecvMsgMemPointer'[d] = pRecvMsgMemPointer[d]
      /\ msgBufferSize'[d] = msgBufferSize[d]
      /\ got'[d] = got[d]
      /\ length'[d] = length[d]

(* InStep, BufferInv and BufferOwned of one connection.                    *)
ConnInv(c) ==
    /\ place[c] = "online" =>
         /\ InHeader(c) <=> got[c] < g_LenPkgHeader
         /\ recvMsgCurStatus[c] \in {"PKG_HD_INIT", "PKG_BD_INIT"}
              <=> got[c] \in {0, g_LenPkgHeader}
         /\ recvMsgLen[c] > 0
         /\ got[c] + recvMsgLen[c] =
              IF got[c] < g_LenPkgHeader THEN g_LenPkgHeader ELSE length[c]
         /\ InHeader(c) <=> pRecvMsgBuff[c].in = "dataHeadInfo"
         /\ InHeader(c) => pRecvMsgBuff[c].at = got[c]
         /\ ~InHeader(c) =>
              /\ LegalLength(length[c])
              /\ pRecvMsgBuff[c].at = g_LenMsgHeader + got[c]
              /\ msgBufferSize[c] = g_LenMsgHeader + length[c]
    /\ pRecvMsgMemPointer[c] = "connection"
         <=> place[c] # "free" /\ pRecvMsgBuff[c].in = "message"

LEMMA PerConn == FramingInv <=> FramingTypeOK /\ \A c \in Conns : ConnInv(c)
BY DEF FramingInv, InStep, BufferInv, BufferOwned, ConnInv

LEMMA OneConnSuffices ==
    ASSUME FramingInv, NEW c \in Conns, OnlyConn(c), FramingTypeOK', ConnInv(c)'
    PROVE  FramingInv'
<1>1. ASSUME NEW d \in Conns, d # c PROVE ConnInv(d)'
  <2>1. ConnInv(d)
    BY PerConn
  <2>2. QED
    BY <1>1, <2>1 DEF ConnInv, OnlyConn, InHeader, LegalLength
<1>2. \A d \in Conns : ConnInv(d)'
  BY <1>1
<1>3. QED
  BY <1>2 DEF FramingInv, InStep, BufferInv, BufferOwned, ConnInv

(* What n more bytes make of the client's place in its packet.             *)
LEMMA SendsOn ==
    ASSUME FramingTypeOK, NEW c \in Conns, NEW n \in Nat, NEW len \in Nat,
           ClientSends(c, n, len),
           ~(got[c] + n >= g_LenPkgHeader /\ got[c] + n >= PacketEnd(len))
    PROVE  /\ got' = [got EXCEPT ![c] = got[c] + n]
           /\ length' = [length EXCEPT ![c] = IF got[c] + n >= g_LenPkgHeader THEN len ELSE 0]
<1>1. got' = [got EXCEPT ![c] = got[c] + n]
  BY DEF ClientSends, FramingTypeOK
<1>2. length' = [length EXCEPT ![c] = IF got[c] + n >= g_LenPkgHeader THEN len ELSE 0]
  BY Zenon DEF ClientSends
<1>3. QED
  BY <1>1, <1>2

LEMMA SendsEnd ==
    ASSUME FramingTypeOK, NEW c \in Conns, NEW n \in Nat, NEW len \in Nat,
           ClientSends(c, n, len),
           got[c] + n >= g_LenPkgHeader /\ got[c] + n >= PacketEnd(len)
    PROVE  /\ got' = [got EXCEPT ![c] = 0]
           /\ length' = [length EXCEPT ![c] = 0]
<1>1. got' = [got EXCEPT ![c] = 0]
  BY DEF ClientSends, FramingTypeOK
<1>2. length' = [length EXCEPT ![c] = 0]
  BY Zenon DEF ClientSends
<1>3. QED
  BY <1>1, <1>2

(* What the types of the fields of reading say of one connection.          *)
LEMMA FieldTypes ==
    ASSUME FramingTypeOK, NEW c \in Conns
    PROVE  /\ recvMsgLen[c] \in Nat /\ got[c] \in Nat /\ length[c] \in Nat
           /\ pRecvMsgBuff[c].at \in Nat /\ msgBufferSize[c] \in Nat
           /\ pRecvMsgBuff[c].in \in {"dataHeadInfo", "message"}
BY DEF FramingTypeOK

LEMMA ReceivePartKeeps ==
    ASSUME FramingInv, NEW c \in Conns, ReceivePart(c)
    PROVE  FramingInv'
<1>1. PICK n \in 1 .. recvMsgLen[c], len \in NamedLengths(c) :
        n # recvMsgLen[c] /\ Receives(c, n, len) /\ Resume(c, n)
  BY DEF ReceivePart
<1>2. UNCHANGED <<place, m_FloodAttackEnable, now, flood, kicked>>
  BY DEF ReceivePart
<1>3. FramingTypeOK /\ ConnInv(c)
  BY PerConn
<1> USE Constants
<1>4. /\ recvMsgLen[c] \in Nat /\ got[c] \in Nat /\ length[c] \in Nat
      /\ pRecvMsgBuff[c].at \in Nat /\ msgBufferSize[c] \in Nat
      /\ pRecvMsgBuff[c].in \in {"dataHeadInfo", "message"}
  BY <1>3, FieldTypes
<1>5. /\ place[c] = "online" /\ ClientSends(c, n, len) /\ Resume(c, n)
      /\ n \in Nat /\ n > 0 /\ n < recvMsgLen[c] /\ len \in Nat
  BY <1>1, <1>4 DEF Receives, NamedLengths
<1>6. /\ got' = [got EXCEPT ![c] = got[c] + n]
      /\ length' = [length EXCEPT ![c] = IF InHeader(c) THEN 0 ELSE length[c]]
  <2>1. CASE InHeader(c)
    <3>1. got[c] + n < g_LenPkgHeader
      BY <1>3, <1>4, <1>5, <2>1 DEF ConnInv
    <3>2. ~(got[c] + n >= g_LenPkgHeader)
      BY <1>4, <1>5, <3>1
    <3>3. QED
      BY <1>3, <1>5, <2>1, <3>2, SendsOn
  <2>2. CASE ~InHeader(c)
    <3>1. got[c] >= g_LenPkgHeader /\ got[c] + n < length[c] /\ LegalLength(length[c])
      BY <1>3, <1>4, <1>5, <2>2 DEF ConnInv
    <3>2. len = length[c]
      BY <1>1, <1>4, <3>1 DEF NamedLengths
    <3>3. got[c] + n >= g_LenPkgHeader /\ ~(got[c] + n >= PacketEnd(len))
      BY <1>4, <1>5, <3>1, <3>2 DEF PacketEnd
    <3>4. QED
      BY <1>3, <1>5, <2>2, <3>2, <3>3, SendsOn
  <2>3. QED
    BY <2>1, <2>2
<1>7. FramingTypeOK'
  <2>1. recvMsgCurStatus' \in [Conns -> {"PKG_HD_INIT", "PKG_HD_RECVING", "PKG_BD_INIT",
                                         "PKG_BD_RECVING"}]
    BY <1>3, <1>5 DEF Resume, FramingTypeOK
  <2>2. pRecvMsgBuff' \in [Conns -> [in : {"dataHeadInfo", "message"}, at : Nat]]
    BY <1>3, <1>5 DEF Resume, FramingTypeOK
  <2>3. recvMsgLen' \in [Conns -> Nat]
    BY <1>3, <1>4, <1>5 DEF Resume, FramingTypeOK
  <2>4. got' \in [Conns -> Nat] /\ length' \in [Conns -> Nat]
    BY <1>3, <1>4, <1>5, <1>6 DEF FramingTypeOK
  <2>5. QED
    BY <1>2, <1>3, <1>5, <2>1, <2>2, <2>3, <2>4 DEF Resume, flood, FramingTypeOK
<1>8. OnlyConn(c)
  <2>1. UNCHANGED <<place, pRecvMsgMemPointer, msgBufferSize>>
    BY <1>2, <1>5 DEF Resume
  <2>2. \A d \in Conns \ {c} : recvMsgCurStatus'[d] = recvMsgCurStatus[d]
                              /\ pRecvMsgBuff'[d] = pRecvMsgBuff[d]
                              /\ recvMsgLen'[d] = recvMsgLen[d]
    BY <1>3, <1>5 DEF Resume, FramingTypeOK
  <2>3. \A d \in Conns \ {c} : got'[d] = got[d] /\ length'[d] = length[d]
    BY <1>3, <1>6 DEF FramingTypeOK
  <2>4. QED
    BY <2>1, <2>2, <2>3 DEF OnlyConn
<1>9. /\ recvMsgCurStatus'[c] = IF InHeader(c) THEN "PKG_HD_RECVING" ELSE "PKG_BD_RECVING"
      /\ pRecvMsgBuff'[c] = [in |-> pRecvMsgBuff[c].in, at |-> pRecvMsgBuff[c].at + n]
      /\ recvMsgLen'[c] = recvMsgLen[c] - n
  BY <1>3, <1>5 DEF Resume, InHeader, FramingTypeOK
<1>10. /\ got'[c] = got[c] + n
       /\ length'[c] = IF InHeader(c) THEN 0 ELSE length[c]
       /\ UNCHANGED <<place, pRecvMsgMemPointer, msgBufferSize>>
  BY <1>2, <1>3, <1>5, <1>6 DEF Resume, FramingTypeOK
<1>11. InHeader(c)' <=> InHeader(c)
  BY <1>9 DEF InHeader
<1>12. ConnInv(c)'
  BY <1>3, <1>4, <1>5, <1>9, <1>10, <1>11 DEF ConnInv, LegalLength
<1>13. QED
  BY <1>7, <1>8, <1>12, OneConnSuffices

(* The connection waits for the next header: nothing is left of the        *)
(* packet, whatever becomes of its buffer.                                 *)
LEMMA ExpectHeaderKeeps ==
    ASSUME FramingInv, NEW c \in Conns, ExpectHeader(c),
           got' = [got EXCEPT ![c] = 0], length' = [length EXCEPT ![c] = 0],
           NEW st \in {"online", "closed"},
           place' = [place EXCEPT ![c] = st],
           pRecvMsgMemPointer' \in [Conns -> {"null", "connection", "list", "freed"}],
           pRecvMsgMemPointer'[c] # "connection",
           \A d \in Conns \ {c} : pRecvMsgMemPointer'[d] = pRecvMsgMemPointer[d],
           msgBufferSize' \in [Conns -> Nat],
           \A d \in Conns \ {c} : msgBufferSize'[d] = msgBufferSize[d],
           m_FloodAttackEnable' \in BOOLEAN, now' \in Nat,
           floodAttackLastTime' \in [Conns -> Nat], floodAttackCount' \in [Conns -> Nat],
           lastPacket' \in [Conns -> Nat], closeGaps' \in [Conns -> Seq(BOOLEAN)],
           kicked' \in [Conns -> BOOLEAN]
    PROVE  FramingInv'
<1> USE Constants
<1>1. FramingTypeOK /\ ConnInv(c)
  BY PerConn
<1>2. FramingTypeOK'
  <2>1. recvMsgCurStatus' \in [Conns -> {"PKG_HD_INIT", "PKG_HD_RECVING", "PKG_BD_INIT",
                                         "PKG_BD_RECVING"}]
    BY <1>1 DEF ExpectHeader, FramingTypeOK
  <2>2. pRecvMsgBuff' \in [Conns -> [in : {"dataHeadInfo", "message"}, at : Nat]]
    BY <1>1 DEF ExpectHeader, DataHeadInfo, FramingTypeOK
  <2>3. recvMsgLen' \in [Conns -> Nat] /\ got' \in [Conns -> Nat] /\ length' \in [Conns -> Nat]
    BY <1>1 DEF ExpectHeader, FramingTypeOK
  <2>4. place' \in [Conns -> {"free", "online", "closed"}]
    BY <1>1 DEF FramingTypeOK
  <2>5. QED
    BY <2>1, <2>2, <2>3, <2>4 DEF FramingTypeOK
<1>3. OnlyConn(c)
  BY <1>1 DEF OnlyConn, ExpectHeader, FramingTypeOK
<1>4. /\ recvMsgCurStatus'[c] = "PKG_HD_INIT" /\ pRecvMsgBuff'[c] = DataHeadInfo
      /\ recvMsgLen'[c] = g_LenPkgHeader /\ got'[c] = 0 /\ place'[c] = st
  BY <1>1 DEF ExpectHeader, FramingTypeOK
<1>5. ConnInv(c)'
  BY <1>4 DEF ConnInv, InHeader, DataHeadInfo
<1>6. QED
  BY <1>2, <1>3, <1>5, OneConnSuffices

LEMMA RejectHeaderKeeps ==
    ASSUME FramingInv, NEW c \in Conns, RejectHeader(c)
    PROVE  FramingInv'
<1>1. PICK len \in NamedLengths(c) :
        /\ InHeader(c) /\ ~LegalLength(len)
        /\ Receives(c, recvMsgLen[c], len) /\ ExpectHeader(c)
  BY DEF RejectHeader
<1>2. UNCHANGED <<place, pRecvMsgMemPointer, msgBufferSize, m_FloodAttackEnable, now,
                  flood, kicked>>
  BY DEF RejectHeader
<1> USE Constants
<1>3. FramingTypeOK /\ ConnInv(c)
  BY PerConn
<1>4. recvMsgLen[c] \in Nat /\ got[c] \in Nat /\ length[c] \in Nat
  BY <1>3, FieldTypes
<1>5. place[c] = "online" /\ ClientSends(c, recvMsgLen[c], len) /\ len \in Nat
  BY <1>1, <1>4 DEF Receives, NamedLengths
<1>6. got[c] + recvMsgLen[c] = g_LenPkgHeader /\ PacketEnd(len) = g_LenPkgHeader
  BY <1>1, <1>3, <1>4, <1>5 DEF ConnInv, PacketEnd
<1>7. got' = [got EXCEPT ![c] = 0] /\ length' = [length EXCEPT ![c] = 0]
  BY <1>3, <1>4, <1>5, <1>6, SendsEnd
<1>8. pRecvMsgMemPointer[c] # "connection"
  BY <1>1, <1>3, <1>5 DEF ConnInv
<1>9. place' = [place EXCEPT ![c] = "online"]
  BY <1>2, <1>3, <1>5 DEF FramingTypeOK
<1>10. QED
  BY <1>1, <1>2, <1>3, <1>7, <1>8, <1>9, ExpectHeaderKeeps DEF flood, FramingTypeOK

LEMMA ReceiveHeaderKeeps ==
    ASSUME FramingInv, NEW c \in Conns, ReceiveHeader(c)
    PROVE  FramingInv'
<1>1. PICK len \in NamedLengths(c) :
        /\ InHeader(c) /\ LegalLength(len) /\ len > g_LenPkgHeader
        /\ Receives(c, recvMsgLen[c], len) /\ ExpectBody(c, len)
  BY DEF ReceiveHeader
<1>2. UNCHANGED <<place, m_FloodAttackEnable, now, flood, kicked>>
  BY DEF ReceiveHeader
<1> USE Constants
<1>3. FramingTypeOK /\ ConnInv(c)
  BY PerConn
<1>4. recvMsgLen[c] \in Nat /\ got[c] \in Nat /\ length[c] \in Nat
  BY <1>3, FieldTypes
<1>5. place[c] = "online" /\ ClientSends(c, recvMsgLen[c], len) /\ len \in Nat
  BY <1>1, <1>4 DEF Receives, NamedLengths
<1>6. got[c] + recvMsgLen[c] = g_LenPkgHeader /\ PacketEnd(len) = len
  BY <1>1, <1>3, <1>4, <1>5 DEF ConnInv, PacketEnd
<1>7. /\ got' = [got EXCEPT ![c] = g_LenPkgHeader]
      /\ length' = [length EXCEPT ![c] = len]
  BY <1>1, <1>3, <1>4, <1>5, <1>6, SendsOn
<1>8. FramingTypeOK'
  <2>1. recvMsgCurStatus' \in [Conns -> {"PKG_HD_INIT", "PKG_HD_RECVING", "PKG_BD_INIT",
                                         "PKG_BD_RECVING"}]
    BY <1>1, <1>3 DEF ExpectBody, FramingTypeOK
  <2>2. pRecvMsgBuff' \in [Conns -> [in : {"dataHeadInfo", "message"}, at : Nat]]
    BY <1>1, <1>3 DEF ExpectBody, FramingTypeOK
  <2>3. recvMsgLen' \in [Conns -> Nat] /\ msgBufferSize' \in [Conns -> Nat]
    BY <1>1, <1>3, <1>5 DEF ExpectBody, FramingTypeOK
  <2>4. pRecvMsgMemPointer' \in [Conns -> {"null", "connection", "list", "freed"}]
    BY <1>1, <1>3 DEF ExpectBody, FramingTypeOK
  <2>5. got' \in [Conns -> Nat] /\ length' \in [Conns -> Nat]
    BY <1>3, <1>5, <1>7 DEF FramingTypeOK
  <2>6. QED
    BY <1>2, <1>3, <2>1, <2>2, <2>3, <2>4, <2>5 DEF flood, FramingTypeOK
<1>9. OnlyConn(c)
  BY <1>1, <1>2, <1>3, <1>7 DEF OnlyConn, ExpectBody, FramingTypeOK
<1>10. /\ recvMsgCurStatus'[c] = "PKG_BD_INIT"
       /\ pRecvMsgBuff'[c] = [in |-> "message", at |-> g_LenMsgHeader + g_LenPkgHeader]
       /\ recvMsgLen'[c] = len - g_LenPkgHeader
       /\ pRecvMsgMemPointer'[c] = "connection"
       /\ msgBufferSize'[c] = g_LenMsgHeader + len
  BY <1>1, <1>3 DEF ExpectBody, FramingTypeOK
<1>11. got'[c] = g_LenPkgHeader /\ length'[c] = len /\ place'[c] = "online"
  BY <1>2, <1>3, <1>5, <1>7 DEF FramingTypeOK
<1>12. ConnInv(c)'
  BY <1>1, <1>5, <1>10, <1>11 DEF ConnInv, InHeader, LegalLength
<1>13. QED
  BY <1>8, <1>9, <1>12, OneConnSuffices

(* A packet that is complete is the end of what its client has sent.       *)
LEMMA PacketReceived ==
    ASSUME FramingInv, NEW c \in Conns, NEW len \in NamedLengths(c),
           CompletesPacket(c, recvMsgLen[c], len), Receives(c, recvMsgLen[c], len)
    PROVE  /\ place[c] = "online" /\ len \in Nat
           /\ got' = [got EXCEPT ![c] = 0] /\ length' = [length EXCEPT ![c] = 0]
<1> USE Constants
<1>1. FramingTypeOK /\ ConnInv(c)
  BY PerConn
<1>2. recvMsgLen[c] \in Nat /\ got[c] \in Nat /\ length[c] \in Nat
  BY <1>1, FieldTypes
<1>3. place[c] = "online" /\ ClientSends(c, recvMsgLen[c], len) /\ len \in Nat
  BY <1>2 DEF Receives, NamedLengths
<1>4. got[c] + recvMsgLen[c] >= g_LenPkgHeader /\ got[c] + recvMsgLen[c] >= PacketEnd(len)
  <2>1. CASE InHeader(c)
    BY <1>1, <1>2, <1>3, <2>1 DEF ConnInv, CompletesPacket, PacketEnd
  <2>2. CASE ~InHeader(c)
    <3>1. got[c] >= g_LenPkgHeader /\ got[c] + recvMsgLen[c] = length[c]
      BY <1>1, <1>2, <1>3, <2>2 DEF ConnInv
    <3>2. len = length[c]
      BY <1>2, <3>1 DEF NamedLengths
    <3>3. QED
      BY <1>1, <1>2, <1>3, <3>1, <3>2 DEF PacketEnd
  <2>3. QED
    BY <2>1, <2>2
<1>5. QED
  BY <1>1, <1>2, <1>3, <1>4, SendsEnd

LEMMA TestFloodTypes ==
    ASSUME FramingTypeOK, NEW c \in Conns, TestFlood(c)
    PROVE  /\ floodAttackLastTime' \in [Conns -> Nat] /\ floodAttackCount' \in [Conns -> Nat]
           /\ lastPacket' \in [Conns -> Nat] /\ closeGaps' \in [Conns -> Seq(BOOLEAN)]
<1>1. CASE ~m_FloodAttackEnable
  BY <1>1 DEF TestFlood, flood, FramingTypeOK
<1>2. CASE m_FloodAttackEnable
  <2>1. floodAttackCount[c] \in Nat /\ FloodCount(c) \in Nat
    BY DEF FloodCount, FramingTypeOK
  <2>2. floodAttackLastTime' \in [Conns -> Nat] /\ floodAttackCount' \in [Conns -> Nat]
        /\ lastPacket' \in [Conns -> Nat]
    <3>1. /\ now \in Nat /\ floodAttackLastTime \in [Conns -> Nat]
          /\ floodAttackCount \in [Conns -> Nat] /\ lastPacket \in [Conns -> Nat]
      BY DEF FramingTypeOK
    <3>2. QED
      BY <1>2, <2>1, <3>1 DEF TestFlood
  <2>3. PICK b \in BOOLEAN :
          closeGaps' = [closeGaps EXCEPT ![c] =
             IF Len(Append(closeGaps[c], b)) <= m_FloodKickCount THEN Append(closeGaps[c], b)
               ELSE Tail(Append(closeGaps[c], b))]
    BY <1>2, Zenon DEF TestFlood
  <2>4. closeGaps[c] \in Seq(BOOLEAN)
    BY DEF FramingTypeOK
  <2>5. Append(closeGaps[c], b) \in Seq(BOOLEAN) /\ Append(closeGaps[c], b) # <<>>
    BY <2>4, AppendProperties
  <2>6. Tail(Append(closeGaps[c], b)) \in Seq(BOOLEAN)
    BY <2>5, HeadTailProperties
  <2>7. QED
    BY <2>2, <2>3, <2>5, <2>6 DEF FramingTypeOK
<1>3. QED
  BY <1>1, <1>2

LEMMA ReceivePacketKeeps ==
    ASSUME FramingInv, NEW c \in Conns, ReceivePacket(c)
    PROVE  FramingInv'
<1>1. PICK len \in NamedLengths(c) :
        /\ CompletesPacket(c, recvMsgLen[c], len) /\ Receives(c, recvMsgLen[c], len)
        /\ TestFlood(c)
        /\ pRecvMsgMemPointer' = [pRecvMsgMemPointer EXCEPT ![c] = "list"]
        /\ PacketBufferSize(c, len) /\ ExpectHeader(c)
  BY DEF ReceivePacket
<1>2. UNCHANGED <<place, m_FloodAttackEnable, now, kicked>>
  BY DEF ReceivePacket
<1> USE Constants
<1>3. FramingTypeOK
  BY PerConn
<1>4. /\ place[c] = "online" /\ len \in Nat
      /\ got' = [got EXCEPT ![c] = 0] /\ length' = [length EXCEPT ![c] = 0]
  BY <1>1, PacketReceived
<1>5. /\ msgBufferSize' \in [Conns -> Nat]
      /\ \A d \in Conns \ {c} : msgBufferSize'[d] = msgBufferSize[d]
  BY <1>1, <1>3, <1>4 DEF PacketBufferSize, FramingTypeOK
<1>6. /\ pRecvMsgMemPointer' \in [Conns -> {"null", "connection", "list", "freed"}]
      /\ pRecvMsgMemPointer'[c] # "connection"
      /\ \A d \in Conns \ {c} : pRecvMsgMemPointer'[d] = pRecvMsgMemPointer[d]
  BY <1>1, <1>3 DEF FramingTypeOK
<1>7. place' = [place EXCEPT ![c] = "online"]
  BY <1>2, <1>3, <1>4 DEF FramingTypeOK
<1>8. /\ floodAttackLastTime' \in [Conns -> Nat] /\ floodAttackCount' \in [Conns -> Nat]
      /\ lastPacket' \in [Conns -> Nat] /\ closeGaps' \in [Conns -> Seq(BOOLEAN)]
  BY <1>1, <1>3, TestFloodTypes
<1>9. m_FloodAttackEnable' \in BOOLEAN /\ now' \in Nat /\ kicked' \in [Conns -> BOOLEAN]
  BY <1>2, <1>3 DEF FramingTypeOK
<1>10. QED
  BY <1>1, <1>4, <1>5, <1>6, <1>7, <1>8, <1>9, ExpectHeaderKeeps

LEMMA KickFloodKeeps ==
    ASSUME FramingInv, NEW c \in Conns, KickFlood(c)
    PROVE  FramingInv'
<1>1. PICK len \in NamedLengths(c) :
        /\ CompletesPacket(c, recvMsgLen[c], len) /\ Receives(c, recvMsgLen[c], len)
        /\ TestFlood(c)
        /\ pRecvMsgMemPointer' = [pRecvMsgMemPointer EXCEPT ![c] = "freed"]
        /\ PacketBufferSize(c, len) /\ ExpectHeader(c)
  BY DEF KickFlood
<1>2. /\ place' = [place EXCEPT ![c] = "closed"] /\ kicked' = [kicked EXCEPT ![c] = TRUE]
      /\ UNCHANGED <<m_FloodAttackEnable, now>>
  BY DEF KickFlood
<1> USE Constants
<1>3. FramingTypeOK
  BY PerConn
<1>4. /\ place[c] = "online" /\ len \in Nat
      /\ got' = [got EXCEPT ![c] = 0] /\ length' = [length EXCEPT ![c] = 0]
  BY <1>1, PacketReceived
<1>5. /\ msgBufferSize' \in [Conns -> Nat]
      /\ \A d \in Conns \ {c} : msgBufferSize'[d] = msgBufferSize[d]
  BY <1>1, <1>3, <1>4 DEF PacketBufferSize, FramingTypeOK
<1>6. /\ pRecvMsgMemPointer' \in [Conns -> {"null", "connection", "list", "freed"}]
      /\ pRecvMsgMemPointer'[c] # "connection"
      /\ \A d \in Conns \ {c} : pRecvMsgMemPointer'[d] = pRecvMsgMemPointer[d]
  BY <1>1, <1>3 DEF FramingTypeOK
<1>7. /\ floodAttackLastTime' \in [Conns -> Nat] /\ floodAttackCount' \in [Conns -> Nat]
      /\ lastPacket' \in [Conns -> Nat] /\ closeGaps' \in [Conns -> Seq(BOOLEAN)]
  BY <1>1, <1>3, TestFloodTypes
<1>8. m_FloodAttackEnable' \in BOOLEAN /\ now' \in Nat /\ kicked' \in [Conns -> BOOLEAN]
  BY <1>2, <1>3 DEF FramingTypeOK
<1>9. QED
  BY <1>1, <1>2, <1>4, <1>5, <1>6, <1>7, <1>8, ExpectHeaderKeeps

LEMMA AcceptKeeps ==
    ASSUME FramingInv, NEW c \in Conns, Accept(c)
    PROVE  FramingInv'
<1> USE Constants
<1>1. FramingTypeOK
  BY PerConn
<1>2. /\ place' = [place EXCEPT ![c] = "online"] /\ ExpectHeader(c)
      /\ got' = [got EXCEPT ![c] = 0] /\ length' = [length EXCEPT ![c] = 0]
      /\ pRecvMsgMemPointer' = [pRecvMsgMemPointer EXCEPT ![c] = "null"]
      /\ UNCHANGED <<msgBufferSize, m_FloodAttackEnable, now>>
  BY DEF Accept
<1>3. /\ floodAttackLastTime' \in [Conns -> Nat] /\ floodAttackCount' \in [Conns -> Nat]
      /\ lastPacket' \in [Conns -> Nat]
  BY <1>1 DEF Accept, FramingTypeOK
<1>4. closeGaps' \in [Conns -> Seq(BOOLEAN)] /\ kicked' \in [Conns -> BOOLEAN]
  BY <1>1 DEF Accept, FramingTypeOK
<1>5. /\ pRecvMsgMemPointer' \in [Conns -> {"null", "connection", "list", "freed"}]
      /\ pRecvMsgMemPointer'[c] # "connection"
      /\ \A d \in Conns \ {c} : pRecvMsgMemPointer'[d] = pRecvMsgMemPointer[d]
  BY <1>1, <1>2 DEF FramingTypeOK
<1>6. /\ msgBufferSize' \in [Conns -> Nat] /\ m_FloodAttackEnable' \in BOOLEAN /\ now' \in Nat
      /\ \A d \in Conns \ {c} : msgBufferSize'[d] = msgBufferSize[d]
  BY <1>1, <1>2 DEF FramingTypeOK
<1>7. QED
  BY <1>2, <1>3, <1>4, <1>5, <1>6, ExpectHeaderKeeps

LEMMA DisconnectKeeps ==
    ASSUME FramingInv, NEW c \in Conns, Disconnect(c)
    PROVE  FramingInv'
<1>1. FramingTypeOK /\ ConnInv(c)
  BY PerConn
<1>2. place[c] = "online" /\ place' = [place EXCEPT ![c] = "closed"]
  BY DEF Disconnect
<1>3. FramingTypeOK'
  BY <1>1, <1>2 DEF Disconnect, reading, flood, client, FramingTypeOK
<1>4. OnlyConn(c) /\ place'[c] = "closed"
  BY <1>1, <1>2 DEF OnlyConn, Disconnect, reading, client, FramingTypeOK
<1>5. ConnInv(c)'
  BY <1>1, <1>2, <1>4 DEF ConnInv, Disconnect, reading
<1>6. QED
  BY <1>3, <1>4, <1>5, OneConnSuffices

LEMMA PutOneToFreeKeeps ==
    ASSUME FramingInv, NEW c \in Conns, PutOneToFree(c)
    PROVE  FramingInv'
<1>1. FramingTypeOK /\ ConnInv(c)
  BY PerConn
<1>2. /\ place' = [place EXCEPT ![c] = "free"]
      /\ pRecvMsgMemPointer' = [pRecvMsgMemPointer EXCEPT
            ![c] = IF pRecvMsgMemPointer[c] = "null" THEN pRecvMsgMemPointer[c] ELSE "freed"]
  BY DEF PutOneToFree
<1>3. FramingTypeOK'
  <2>1. pRecvMsgMemPointer' \in [Conns -> {"null", "connection", "list", "freed"}]
    BY <1>1, <1>2 DEF FramingTypeOK
  <2>2. QED
    BY <1>1, <1>2, <2>1 DEF PutOneToFree, flood, client, FramingTypeOK
<1>4. /\ OnlyConn(c) /\ place'[c] = "free"
      /\ pRecvMsgMemPointer'[c] # "connection"
  BY <1>1, <1>2 DEF OnlyConn, PutOneToFree, client, FramingTypeOK
<1>5. ConnInv(c)'
  BY <1>4 DEF ConnInv
<1>6. QED
  BY <1>3, <1>4, <1>5, OneConnSuffices

LEMMA TickKeeps ==
    ASSUME FramingInv, Tick
    PROVE  FramingInv'
<1>1. now' \in Nat
  BY FramingConstants DEF Tick
<1>2. UNCHANGED <<place, reading, m_FloodAttackEnable, flood, client, kicked>>
  BY DEF Tick
<1>3. QED
  BY <1>1, <1>2 DEF FramingInv, FramingTypeOK, InStep, BufferInv, BufferOwned, reading, flood,
     client, InHeader

LEMMA FramingStep == FramingInv /\ [FramingNext]_framingVars => FramingInv'
<1> SUFFICES ASSUME FramingInv, [FramingNext]_framingVars PROVE FramingInv'
  OBVIOUS
<1>1. ASSUME NEW c \in Conns,
             \/ ReceivePart(c) \/ RejectHeader(c) \/ ReceiveHeader(c) \/ ReceivePacket(c)
             \/ KickFlood(c) \/ Accept(c) \/ Disconnect(c) \/ PutOneToFree(c)
      PROVE  FramingInv'
  BY <1>1, ReceivePartKeeps, RejectHeaderKeeps, ReceiveHeaderKeeps, ReceivePacketKeeps,
     KickFloodKeeps, AcceptKeeps, DisconnectKeeps, PutOneToFreeKeeps
<1>2. CASE Tick
  BY <1>2, TickKeeps
<1>3. CASE UNCHANGED framingVars
  BY <1>3 DEF framingVars, FramingInv, FramingTypeOK, InStep, BufferInv, BufferOwned, reading,
     flood, client, InHeader
<1>4. QED
  BY <1>1, <1>2, <1>3 DEF FramingNext

(* Whatever the other threads do, the fields of a connection change only   *)
(* as MsgFraming says.                                                     *)
LEMMA ReceptionTakesFramingSteps ==
    [ReceptionNext]_receptionVars => [FramingNext]_framingVars
<1>1. ASSUME ReceptionNext PROVE [FramingNext]_framingVars
  BY <1>1 DEF ReceptionNext, ReadSome, PushPacket, CloseClient, AcceptClient,
     RecycleConnection, FinishPush, PoolThread, TimePasses, FramingNext
<1>2. ASSUME UNCHANGED receptionVars PROVE [FramingNext]_framingVars
  BY <1>2 DEF receptionVars
<1>3. QED
  BY <1>1, <1>2

THEOREM FramingInvHolds == ReceptionSpec => []FramingInv
<1>1. ReceptionInit => FramingInv
  BY InitFraming DEF ReceptionInit
<1>2. FramingInv /\ [ReceptionNext]_receptionVars => FramingInv'
  BY FramingStep, ReceptionTakesFramingSteps
<1>3. QED
  BY <1>1, <1>2, PTL DEF ReceptionSpec

(* The server and the client agree on where in the packet they are, for    *)
(* every header length, every length a client can name and however recv()  *)
(* cuts the stream (EpollEventReadRequestHandler).                         *)
THEOREM ServerInStep == ReceptionSpec => []InStep
<1>1. FramingInv => InStep
  BY DEF FramingInv
<1>2. QED
  BY <1>1, FramingInvHolds, PTL

(* recv() never writes past dataHeadInfo or the message buffer that        *)
(* RecvMsgHeaderParseProc allocates.                                       *)
THEOREM NoWritePastBuffer == ReceptionSpec => []WritesInBounds
<1>1. FramingInv => WritesInBounds
  <2> SUFFICES ASSUME FramingInv, NEW c \in Conns, place[c] = "online"
               PROVE  pRecvMsgBuff[c].at + recvMsgLen[c]
                        <= IF pRecvMsgBuff[c].in = "dataHeadInfo" THEN MSG_HEADER_LEN
                             ELSE msgBufferSize[c]
    BY DEF WritesInBounds
  <2>1. FramingTypeOK /\ ConnInv(c)
    BY PerConn
  <2>2. QED
    BY <2>1, FieldTypes, Constants DEF ConnInv
<1>2. QED
  BY <1>1, FramingInvHolds, PTL

(* A connection owns a message buffer exactly while it receives into it:   *)
(* PushRecvMsgToRecvListAndCond and PutOneToFree leave it none.            *)
THEOREM BufferHasOwner == ReceptionSpec => []BufferOwned
<1>1. FramingInv => BufferOwned
  BY DEF FramingInv
<1>2. QED
  BY <1>1, FramingInvHolds, PTL

-----------------------------------------------------------------------------
(* The flood check.                                                        *)

LEMMA FloodConstants ==
    /\ m_FloodTimeInterval \in Nat /\ m_FloodTimeInterval > 0
    /\ m_FloodKickCount \in Nat /\ m_FloodKickCount > 0
    /\ FirstTime \in Nat /\ LastTime \in Nat /\ TimeModulus \in Nat
    /\ m_FloodTimeInterval <= FirstTime /\ FirstTime <= LastTime
    /\ LastTime + m_FloodTimeInterval < TimeModulus
BY FramingConstants

(* The run of short gaps grows by a short gap and ends with a long one,    *)
(* also when the oldest gap is forgotten.                                  *)
LEMMA RunGoesOn ==
    ASSUME NEW gaps \in Seq(BOOLEAN), NEW k \in Nat, NEW K \in Nat, NEW b \in BOOLEAN,
           Len(gaps) <= K, k < K, EndsWithRun(gaps, k)
    PROVE  LET more == Append(gaps, b)
               kept == IF Len(more) <= K THEN more ELSE Tail(more) IN
           /\ Len(kept) <= K
           /\ EndsWithRun(kept, IF b THEN k + 1 ELSE 0)
<1> DEFINE more == Append(gaps, b)
           m == IF b THEN k + 1 ELSE 0
<1>1. /\ more \in Seq(BOOLEAN) /\ Len(more) = Len(gaps) + 1
      /\ \A i \in 1 .. Len(gaps) : more[i] = gaps[i]
      /\ more[Len(gaps) + 1] = b
  BY AppendProperties
<1>2. Len(gaps) \in Nat /\ m \in Nat /\ m <= K /\ m <= Len(more)
  BY <1>1 DEF EndsWithRun
<1>3. EndsWithRun(more, m)
  <2>1. ASSUME NEW i \in 1 .. Len(more), i > Len(more) - m PROVE more[i]
    <3>1. b /\ i > Len(gaps) - k
      BY <1>1, <1>2, <2>1
    <3>2. CASE i = Len(gaps) + 1
      BY <1>1, <3>1, <3>2
    <3>3. CASE i \in 1 .. Len(gaps)
      BY <1>1, <3>1, <3>3 DEF EndsWithRun
    <3>4. QED
      BY <1>1, <1>2, <3>2, <3>3
  <2>2. ASSUME m < Len(more) PROVE ~more[Len(more) - m]
    <3>1. CASE b
      <4>1. k < Len(gaps) /\ Len(more) - m = Len(gaps) - k /\ Len(gaps) - k \in 1 .. Len(gaps)
        BY <1>1, <1>2, <2>2, <3>1
      <4>2. QED
        BY <1>1, <4>1 DEF EndsWithRun
    <3>2. CASE ~b
      BY <1>1, <1>2, <3>2
    <3>3. QED
      BY <3>1, <3>2
  <2>3. QED
    BY <1>2, <2>1, <2>2 DEF EndsWithRun
<1>4. CASE Len(more) <= K
  BY <1>3, <1>4
<1>5. CASE ~(Len(more) <= K)
  <2>1. /\ Len(more) = K + 1 /\ Len(Tail(more)) = K
        /\ \A i \in 1 .. K : Tail(more)[i] = more[i + 1]
    BY <1>1, <1>2, <1>5, HeadTailProperties
  <2>2. ASSUME NEW i \in 1 .. K, i > K - m PROVE Tail(more)[i]
    BY <1>2, <1>3, <2>1, <2>2 DEF EndsWithRun
  <2>3. ASSUME m < K PROVE ~Tail(more)[K - m]
    <3>1. K - m \in 1 .. K /\ (K - m) + 1 = Len(more) - m /\ m < Len(more)
      BY <1>2, <2>1, <2>3
    <3>2. QED
      BY <1>3, <2>1, <3>1 DEF EndsWithRun
  <2>4. EndsWithRun(Tail(more), m)
    BY <1>2, <2>1, <2>2, <2>3 DEF EndsWithRun
  <2>5. QED
    BY <1>5, <2>1, <2>4
<1>6. QED
  BY <1>4, <1>5

(* The unsigned difference is below the limit only when the clock has not  *)
(* been set back behind a packet that was received less than the limit ago.*)
LEMMA UnsignedGap ==
    ASSUME NEW t \in FirstTime .. LastTime, NEW u \in (FirstTime .. LastTime) \cup {0}
    PROVE  (t - u) % TimeModulus < m_FloodTimeInterval
             <=> u # 0 /\ u <= t /\ t < u + m_FloodTimeInterval
<1> USE FloodConstants
<1>1. t \in Nat /\ u \in Nat /\ t - u \in Int
  OBVIOUS
<1>2. CASE u <= t
  <2>1. t - u \in Nat /\ t - u < TimeModulus
    BY <1>1, <1>2
  <2>2. (t - u) % TimeModulus = t - u
    BY <2>1
  <2>3. QED
    BY <1>1, <1>2, <2>2
<1>3. CASE ~(u <= t)
  <2>1. t - u < 0 /\ -TimeModulus <= t - u
    BY <1>1, <1>3
  <2>2. (t - u) % TimeModulus = (t - u) + TimeModulus
    BY <1>1, <2>1
  <2>3. (t - u) + TimeModulus >= m_FloodTimeInterval
    BY <1>1, <1>3
  <2>4. QED
    BY <1>1, <1>3, <2>2, <2>3
<1>4. QED
  BY <1>2, <1>3

LEMMA InitFlood == FramingInit => FloodInv
<1>1. ASSUME FramingInit PROVE now \in FirstTime .. LastTime
  BY <1>1, FloodConstants, FramingConstants DEF FramingInit
<1>2. QED
  BY <1>1, FloodConstants DEF FramingInit, FloodInv, CountInv, KickInv, EndsWithRun

(* What the check makes of a packet of connection c.                       *)
LEMMA TestFloodCounts ==
    ASSUME FramingTypeOK, FloodInv, NEW c \in Conns, place[c] = "online", TestFlood(c)
    PROVE  /\ CountInv(c)'
           /\ floodAttackCount'[c] = IF m_FloodAttackEnable THEN FloodCount(c) ELSE 0
           /\ \A d \in Conns \ {c} : /\ floodAttackLastTime'[d] = floodAttackLastTime[d]
                                     /\ floodAttackCount'[d] = floodAttackCount[d]
                                     /\ lastPacket'[d] = lastPacket[d]
                                     /\ closeGaps'[d] = closeGaps[d]
<1> USE FloodConstants
<1>1. CountInv(c) /\ KickInv(c) /\ now \in FirstTime .. LastTime
  BY DEF FloodInv
<1>2. CASE ~m_FloodAttackEnable
  BY <1>1, <1>2 DEF TestFlood, flood, CountInv, KickInv
<1>3. CASE m_FloodAttackEnable
  <2> DEFINE short == lastPacket[c] # 0 /\ lastPacket[c] <= now
                        /\ now < lastPacket[c] + m_FloodTimeInterval
  <2>1. PICK b \in BOOLEAN :
          /\ b <=> short
          /\ closeGaps' = [closeGaps EXCEPT ![c] =
               IF Len(Append(closeGaps[c], b)) <= m_FloodKickCount
                 THEN Append(closeGaps[c], b) ELSE Tail(Append(closeGaps[c], b))]
    BY <1>3, Zenon DEF TestFlood
  <2>2. /\ closeGaps[c] \in Seq(BOOLEAN) /\ floodAttackCount[c] \in Nat
        /\ Len(closeGaps[c]) <= m_FloodKickCount /\ floodAttackCount[c] < m_FloodKickCount
        /\ EndsWithRun(closeGaps[c], floodAttackCount[c])
    BY <1>1 DEF CountInv, KickInv, FramingTypeOK
  <2>3. FloodCount(c) = IF b THEN floodAttackCount[c] + 1 ELSE 0
    <3>1. floodAttackLastTime[c] = lastPacket[c]
          /\ lastPacket[c] \in (FirstTime .. LastTime) \cup {0}
      BY <1>1 DEF CountInv
    <3>2. (now - floodAttackLastTime[c]) % TimeModulus < m_FloodTimeInterval <=> short
      BY <1>1, <3>1, UnsignedGap
    <3>3. QED
      BY <2>1, <3>2 DEF FloodCount
  <2>4. /\ floodAttackCount' = [floodAttackCount EXCEPT ![c] = FloodCount(c)]
        /\ floodAttackLastTime' = [floodAttackLastTime EXCEPT ![c] = now]
        /\ lastPacket' = [lastPacket EXCEPT ![c] = now]
    BY <1>3 DEF TestFlood
  <2>5. /\ floodAttackCount'[c] = FloodCount(c)
        /\ floodAttackLastTime'[c] = now /\ lastPacket'[c] = now
        /\ \A d \in Conns \ {c} : /\ floodAttackLastTime'[d] = floodAttackLastTime[d]
                                  /\ floodAttackCount'[d] = floodAttackCount[d]
                                  /\ lastPacket'[d] = lastPacket[d]
    BY <2>4 DEF FramingTypeOK
  <2>6. /\ closeGaps'[c] = IF Len(Append(closeGaps[c], b)) <= m_FloodKickCount
                             THEN Append(closeGaps[c], b) ELSE Tail(Append(closeGaps[c], b))
        /\ \A d \in Conns \ {c} : closeGaps'[d] = closeGaps[d]
    BY <2>1 DEF FramingTypeOK
  <2>7. /\ Len(closeGaps'[c]) <= m_FloodKickCount
        /\ EndsWithRun(closeGaps'[c], floodAttackCount'[c])
    BY <2>2, <2>3, <2>5, <2>6, RunGoesOn
  <2>8. CountInv(c)'
    BY <1>1, <2>5, <2>7 DEF CountInv, EndsWithRun
  <2>9. QED
    BY <1>3, <2>5, <2>6, <2>8
<1>4. QED
  BY <1>2, <1>3

(* Steps that are no packet, and connections that receive none.            *)
LEMMA FloodUnchanged ==
    ASSUME FramingTypeOK, NEW c \in Conns, CountInv(c), KickInv(c),
           floodAttackLastTime'[c] = floodAttackLastTime[c],
           floodAttackCount'[c] = floodAttackCount[c],
           lastPacket'[c] = lastPacket[c], closeGaps'[c] = closeGaps[c],
           kicked'[c] = kicked[c], m_FloodAttackEnable' = m_FloodAttackEnable,
           \/ place'[c] = place[c]
           \/ place[c] = "online" /\ place'[c] = "closed"
           \/ place'[c] = "free"
    PROVE  CountInv(c)' /\ KickInv(c)'
<1>1. CountInv(c)'
  BY DEF CountInv, EndsWithRun
<1>2. floodAttackCount[c] \in Nat
  BY DEF FramingTypeOK
<1>3. KickInv(c)'
  BY <1>2, FloodConstants DEF KickInv
<1>4. QED
  BY <1>1, <1>3

LEMMA FloodStep ==
    FramingTypeOK /\ FloodInv /\ [FramingNext]_framingVars => FloodInv'
<1> SUFFICES ASSUME FramingTypeOK, FloodInv, [FramingNext]_framingVars PROVE FloodInv'
  OBVIOUS
<1> USE FloodConstants
<1>1. now \in FirstTime .. LastTime /\ \A c \in Conns : CountInv(c) /\ KickInv(c)
  BY DEF FloodInv
<1>2. ASSUME NEW c \in Conns, ReceivePart(c) \/ RejectHeader(c) \/ ReceiveHeader(c)
      PROVE  FloodInv'
  <2>1. UNCHANGED <<place, m_FloodAttackEnable, now, flood, kicked>>
    BY <1>2 DEF ReceivePart, RejectHeader, ReceiveHeader
  <2>2. QED
    BY <1>1, <2>1, FloodUnchanged DEF flood, FloodInv
<1>3. ASSUME NEW c \in Conns, ReceivePacket(c) PROVE FloodInv'
  <2>1. /\ TestFlood(c) /\ ~IsFlood(c) /\ place[c] = "online"
        /\ UNCHANGED <<place, m_FloodAttackEnable, now, kicked>>
    BY <1>3 DEF ReceivePacket, Receives
  <2>2. CountInv(c)' /\ KickInv(c)'
    <3>1. /\ CountInv(c)'
          /\ floodAttackCount'[c] = IF m_FloodAttackEnable THEN FloodCount(c) ELSE 0
      BY <1>1, <2>1, TestFloodCounts
    <3>2. FloodCount(c) \in Nat
      BY DEF FloodCount, FramingTypeOK
    <3>3. QED
      BY <1>1, <2>1, <3>1, <3>2 DEF KickInv, IsFlood
  <2>3. ASSUME NEW d \in Conns \ {c} PROVE CountInv(d)' /\ KickInv(d)'
    BY <1>1, <2>1, TestFloodCounts, FloodUnchanged
  <2>4. QED
    BY <1>1, <2>1, <2>2, <2>3 DEF FloodInv
<1>4. ASSUME NEW c \in Conns, KickFlood(c) PROVE FloodInv'
  <2>1. /\ TestFlood(c) /\ IsFlood(c) /\ place[c] = "online"
        /\ place' = [place EXCEPT ![c] = "closed"] /\ kicked' = [kicked EXCEPT ![c] = TRUE]
        /\ UNCHANGED <<m_FloodAttackEnable, now>>
    BY <1>4 DEF KickFlood, Receives
  <2>2. CountInv(c)' /\ KickInv(c)'
    <3>1. CountInv(c)' /\ floodAttackCount'[c] = FloodCount(c) /\ m_FloodAttackEnable
      BY <1>1, <2>1, TestFloodCounts DEF IsFlood
    <3>2. place'[c] = "closed" /\ kicked'[c] = TRUE
      BY <2>1 DEF FramingTypeOK
    <3>3. QED
      BY <2>1, <3>1, <3>2 DEF KickInv, IsFlood
  <2>3. ASSUME NEW d \in Conns \ {c} PROVE CountInv(d)' /\ KickInv(d)'
    <3>1. place'[d] = place[d] /\ kicked'[d] = kicked[d]
      BY <2>1 DEF FramingTypeOK
    <3>2. QED
      BY <1>1, <2>1, <3>1, TestFloodCounts, FloodUnchanged
  <2>4. QED
    BY <1>1, <2>1, <2>2, <2>3 DEF FloodInv
<1>5. ASSUME NEW c \in Conns, Accept(c) PROVE FloodInv'
  <2>1. UNCHANGED <<m_FloodAttackEnable, now>>
    BY <1>5 DEF Accept
  <2>2. /\ place'[c] = "online" /\ floodAttackLastTime'[c] = 0 /\ floodAttackCount'[c] = 0
        /\ lastPacket'[c] = 0 /\ closeGaps'[c] = <<>> /\ kicked'[c] = FALSE
    BY <1>5 DEF Accept, FramingTypeOK
  <2>3. CountInv(c)' /\ KickInv(c)'
    BY <2>1, <2>2 DEF CountInv, KickInv, EndsWithRun
  <2>4. ASSUME NEW d \in Conns \ {c} PROVE CountInv(d)' /\ KickInv(d)'
    <3>1. /\ place'[d] = place[d] /\ floodAttackLastTime'[d] = floodAttackLastTime[d]
          /\ floodAttackCount'[d] = floodAttackCount[d] /\ lastPacket'[d] = lastPacket[d]
          /\ closeGaps'[d] = closeGaps[d] /\ kicked'[d] = kicked[d]
      BY <1>5 DEF Accept, FramingTypeOK
    <3>2. QED
      BY <1>1, <2>1, <3>1, FloodUnchanged
  <2>5. QED
    BY <1>1, <2>1, <2>3, <2>4 DEF FloodInv
<1>6. ASSUME NEW c \in Conns, Disconnect(c) \/ PutOneToFree(c) PROVE FloodInv'
  <2>1. UNCHANGED <<m_FloodAttackEnable, now, flood, kicked>>
    BY <1>6 DEF Disconnect, PutOneToFree
  <2>2. \A d \in Conns : \/ place'[d] = place[d]
                         \/ place[d] = "online" /\ place'[d] = "closed"
                         \/ place'[d] = "free"
    BY <1>6 DEF Disconnect, PutOneToFree, FramingTypeOK
  <2>3. QED
    BY <1>1, <2>1, <2>2, FloodUnchanged DEF flood, FloodInv
<1>7. CASE Tick
  <2>1. UNCHANGED <<place, m_FloodAttackEnable, flood, kicked>> /\ now' \in FirstTime .. LastTime
    BY <1>7 DEF Tick
  <2>2. QED
    BY <1>1, <2>1, FloodUnchanged DEF flood, FloodInv
<1>8. CASE UNCHANGED framingVars
  BY <1>1, <1>8, FloodUnchanged DEF framingVars, flood, FloodInv
<1>9. QED
  BY <1>2, <1>3, <1>4, <1>5, <1>6, <1>7, <1>8 DEF FramingNext

(* A client is closed as a flood attacker exactly when its last            *)
(* m_FloodKickCount packets each came less than m_FloodTimeInterval after  *)
(* the one before (TestFlood), whatever the clock does in between.         *)
THEOREM FloodIsExact == ReceptionSpec => []FloodExact
<1> DEFINE Inv == FramingInv /\ FloodInv
<1>1. ReceptionInit => Inv
  BY InitFraming, InitFlood DEF ReceptionInit
<1>2. Inv /\ [ReceptionNext]_receptionVars => Inv'
  <2>1. FramingInv => FramingTypeOK
    BY PerConn
  <2>2. QED
    BY <2>1, FramingStep, FloodStep, ReceptionTakesFramingSteps
<1>3. Inv => FloodExact
  <2> SUFFICES ASSUME Inv, NEW c \in Conns, place[c] # "free"
               PROVE  kicked[c] <=> /\ m_FloodAttackEnable
                                    /\ Len(closeGaps[c]) = m_FloodKickCount
                                    /\ \A i \in 1 .. m_FloodKickCount : closeGaps[c][i]
    BY DEF FloodExact
  <2>1. /\ FramingTypeOK /\ CountInv(c) /\ KickInv(c)
        /\ place[c] \in {"online", "closed"} /\ kicked[c] \in BOOLEAN
        /\ floodAttackCount[c] \in Nat /\ Len(closeGaps[c]) \in Nat
    <3>1. FramingTypeOK
      BY PerConn
    <3>2. CountInv(c) /\ KickInv(c)
      BY DEF FloodInv
    <3>3. closeGaps[c] \in Seq(BOOLEAN)
      BY <3>1 DEF FramingTypeOK
    <3>4. QED
      BY <3>1, <3>2, <3>3, LenProperties DEF FramingTypeOK
  <2>2. CASE kicked[c]
    <3>1. place[c] = "closed" /\ floodAttackCount[c] >= m_FloodKickCount
      BY <2>1, <2>2 DEF KickInv
    <3>2. m_FloodAttackEnable /\ Len(closeGaps[c]) = m_FloodKickCount
          /\ floodAttackCount[c] = m_FloodKickCount
      BY <2>1, <3>1, FloodConstants DEF KickInv, CountInv, EndsWithRun
    <3>3. \A i \in 1 .. m_FloodKickCount : closeGaps[c][i]
      BY <2>1, <3>2, FloodConstants DEF CountInv, EndsWithRun
    <3>4. QED
      BY <2>2, <3>2, <3>3
  <2>3. CASE ~kicked[c]
    <3>1. floodAttackCount[c] < m_FloodKickCount
      BY <2>1, <2>3, FloodConstants DEF KickInv
    <3>2. ASSUME Len(closeGaps[c]) = m_FloodKickCount
          PROVE  \E i \in 1 .. m_FloodKickCount : ~closeGaps[c][i]
      <4>1. ~closeGaps[c][m_FloodKickCount - floodAttackCount[c]]
        BY <2>1, <3>1, <3>2 DEF CountInv, EndsWithRun
      <4>2. m_FloodKickCount - floodAttackCount[c] \in 1 .. m_FloodKickCount
        BY <2>1, <3>1, FloodConstants
      <4>3. QED
        BY <4>1, <4>2
    <3>3. QED
      BY <2>3, <3>2
  <2>4. QED
    BY <2>2, <2>3
<1>4. QED
  BY <1>1, <1>2, <1>3, PTL DEF ReceptionSpec

-----------------------------------------------------------------------------
(* The list of received messages, with the connections that feed it.       *)

(* The threads of the pool and the push do what RecvQueue says; the        *)
(* recycling of a connection can only end the behaviour.                   *)
LEMMA ReceptionTakesQueueSteps ==
    [ReceptionNext]_receptionVars =>
      \/ [Next]_vars
      \/ UNCHANGED <<m_RecvMsgList, size, push, pops, handled>> /\ running' \in BOOLEAN
<1>1. ASSUME ReceptionNext, PushPacket \/ FinishPush PROVE [Next]_vars
  BY <1>1 DEF ReceptionNext, PushPacket, FinishPush, Next, PushStep
<1>2. ASSUME ReceptionNext, PoolThread PROVE [Next]_vars
  BY <1>2 DEF ReceptionNext, PoolThread, Next
<1>3. ASSUME ReadSome \/ CloseClient \/ AcceptClient \/ TimePasses PROVE UNCHANGED vars
  BY <1>3 DEF ReadSome, CloseClient, AcceptClient, TimePasses
<1>4. ASSUME RecycleConnection
      PROVE  UNCHANGED <<m_RecvMsgList, size, push, pops, handled>> /\ running' \in BOOLEAN
  BY <1>4 DEF RecycleConnection
<1>5. ASSUME UNCHANGED receptionVars PROVE UNCHANGED vars
  BY <1>5 DEF receptionVars
<1>6. QED
  BY <1>1, <1>2, <1>3, <1>4, <1>5 DEF ReceptionNext

(* A step that only connections take leaves the list's invariants alone.   *)
LEMMA QueueUndisturbed ==
    ASSUME UNCHANGED <<m_RecvMsgList, size, push, pops, handled>>, running' \in BOOLEAN
    PROVE  (QueueInv => QueueInv') /\ (WakeInv => WakeInv')
<1>1. QueueInv => QueueInv'
  BY DEF QueueInv, TypeOK, MutexInv, FrontInv, SizeInv, TakenOnceInOrder, push, pops
<1>2. WakeInv => WakeInv'
  BY DEF WakeInv, OthersWait, push, pops
<1>3. QED
  BY <1>1, <1>2

(* The list's invariant, with the connections that feed the list.          *)
LEMMA QueueInvariantHere == ReceptionSpec => []QueueInv
<1>1. ReceptionInit => QueueInv
  BY InitQueue DEF ReceptionInit
<1>2. QueueInv /\ [ReceptionNext]_receptionVars => QueueInv'
  BY QueueUndisturbed, QueueStep, ReceptionTakesQueueSteps
<1>3. QED
  BY <1>1, <1>2, PTL DEF ReceptionSpec

(* What the pool is proved to do alone it also does while the epoll thread *)
(* cuts packets for it and connections are closed and recycled: each       *)
(* message is taken by one thread, once, in the order the packets were     *)
(* completed, and the list's length never wraps around.                    *)
THEOREM PacketTakenOnce == ReceptionSpec => [](TakenOnceInOrder /\ SizeNeverWraps)
<1>1. QueueInv => TakenOnceInOrder /\ SizeNeverWraps
  BY DEF QueueInv, SizeInv, SizeNeverWraps
<1>2. QED
  BY <1>1, QueueInvariantHere, PTL

(* Nor is the signal of a completed packet lost there, with at least two   *)
(* threads in the pool.                                                    *)
THEOREM PacketWakesThread ==
    ASSUME \E t, u \in Threads : t # u
    PROVE  ReceptionSpec => []MessageTriggersThread
<1>1. ReceptionInit => WakeInv
  BY DEF ReceptionInit, Init, WakeInv
<1>2. QueueInv /\ WakeInv /\ [ReceptionNext]_receptionVars => WakeInv'
  BY WakeStep, QueueUndisturbed, ReceptionTakesQueueSteps
<1>3. QueueInv /\ WakeInv => MessageTriggersThread
  BY WakeSuffices
<1>4. QED
  BY <1>1, <1>2, <1>3, QueueInvariantHere, PTL DEF ReceptionSpec
=============================================================================

-------------------------- MODULE ConnectionPoolMC --------------------------
(***************************************************************************)
(* Instances of ConnectionPool for TLC.                                    *)
(***************************************************************************)
EXTENDS ConnectionPool

(* States that differ only in values no action reads again before writing  *)
(* them: the start time of an idle thread, the put time of an object that  *)
(* is not in the recycling queue.                                          *)
LiveValues ==
    <<[c \in Objects |-> <<Sequence(c), SockFd(c), IF c \in m_RecyConnectionList THEN PutTime(c) ELSE 0>>],
      m_TotalConnectionCount, m_FreeConnectionList, m_FreeConnectionCount, recy,
      m_OnLineUserCount, socketOf, batch, msgs, pc, conn, fd,
      [t \in Threads |-> IF Busy(t) THEN since[t] ELSE 0], scan, now, running>>
=============================================================================

---------------------------- MODULE TimerQueueMC ----------------------------
(***************************************************************************)
(* Instances of TimerQueue for TLC.                                        *)
(***************************************************************************)
EXTENDS TimerQueue, TLC

(* States that differ only in values no action reads again before writing  *)
(* them: the monitor's clock while it sleeps, the epoll thread's reading   *)
(* outside AddToTimerList, the last heartbeat of an object without client. *)
LiveValues ==
    <<timers, m_IsTimeOutKick, place, currSequence, accepted, pc, conn, monitor, pOverTimeMsg, now,
      [c \in Conns |-> IF place[c] = "online" THEN lastHeartBeatTime[c] ELSE 0],
      IF pc[Epoll] = "adding" THEN addTime ELSE 0,
      IF monitor = "sleeping" THEN 0 ELSE CurrentTime>>

Symmetry == Permutations(Conns)
=============================================================================

------------------------------ MODULE Processes ------------------------------
(***************************************************************************)
(* The master process: it forks the workers, then sleeps in sigsuspend()   *)
(* and reaps the workers that end in the handler of SIGCHLD.               *)
(*                                                                         *)
(* The master has one thread.  Its stack is the frame of MasterProcessCycle*)
(* and, above it, a frame of SignalHandler for every signal being handled; *)
(* the top frame runs, and between any two of its steps a signal that is   *)
(* neither blocked nor being handled may push another one.  Every frame    *)
(* logs, and CLog::Log takes a mutex that its own thread may hold already, *)
(* in a frame below: then no frame ever runs on.  Consecutive log lines are*)
(* one.                                                                    *)
(*                                                                         *)
(* Of a worker only its life is kept: it logs in many threads, and a signal*)
(* that interrupts one of them while it logs freezes it the same way.      *)
(***************************************************************************)
EXTENDS Integers, Sequences, FiniteSets

CONSTANTS
    Workers,       \* WorkerProcessesCount processes
    Kills,         \* signals that others send
    MaxKills       \* bound: how many

(* MasterProcessCycle's list of the signals to block while it forks.       *)
signals == <<"SIGCHLD", "SIGALRM", "SIGIO", "SIGINT", "SIGHUP", "SIGUSR1", "SIGUSR2",
             "SIGWINCH", "SIGTERM", "SIGQUIT">>
Signals == {signals[i] : i \in 1 .. Len(signals)}

(* The table of CSignalCtl::Init.                                          *)
HasHandler == {"SIGHUP", "SIGINT", "SIGTERM", "SIGCHLD", "SIGQUIT", "SIGIO"}

(* Those it leaves to their default action that end a process.             *)
Terminates == {"SIGALRM", "SIGUSR1", "SIGUSR2"}

ASSUME ProcessesConstants == Kills \subseteq Signals /\ MaxKills \in Nat

VARIABLES
    stack,         \* frames [of, at, log]: whose, what is next, and the log line before it
    m_LogMutex,    \* held or not
    shield,        \* blocked by sigprocmask
    pending,       \* signals sent to the master and not delivered
    master,        \* "alive" or "ended"
    worker,        \* per worker: "none", "starting", "running", "frozen", "zombie", "reaped"
    kills

vars == <<stack, m_LogMutex, shield, pending, master, worker, kills>>

Frame(of, at, log) == [of |-> of, at |-> at, log |-> log]

Init ==
    /\ stack = <<Frame("main", "shield", "locking")>>
    /\ m_LogMutex = FALSE
    /\ shield = {}
    /\ pending = {}
    /\ master = "alive"
    /\ worker = [w \in Workers |-> "none"]
    /\ kills = 0

Top == stack[Len(stack)]
Goto(at, log) == stack' = [stack EXCEPT ![Len(stack)].at = at, ![Len(stack)].log = log]

-----------------------------------------------------------------------------
(* CLog::Log: lock, write, unlock.                                         *)

LockLog ==
    /\ Top.log = "locking"
    /\ ~m_LogMutex
    /\ m_LogMutex' = TRUE
    /\ Goto(Top.at, "writing")
    /\ UNCHANGED <<shield, pending, master, worker, kills>>

WriteLog ==
    /\ Top.log = "writing"
    /\ m_LogMutex' = FALSE
    /\ Goto(Top.at, "done")
    /\ UNCHANGED <<shield, pending, master, worker, kills>>

Runs(of, at) == Top.of = of /\ Top.at = at /\ Top.log = "done"

-----------------------------------------------------------------------------
(* MasterProcessCycle.                                                     *)

ShieldNothing ==            \* faulty: the set given to sigprocmask is empty
    /\ Runs("main", "shield")
    /\ Goto("fork", "locking")
    /\ UNCHANGED <<m_LogMutex, shield, pending, master, worker, kills>>

(* RegisterSignals takes the size of m_Signals for that of an array; it is *)
(* a pointer, twice as long as an element.                                 *)
ShieldedCount == 8 \div 4

RegisterSignals ==
    /\ Runs("main", "shield")
    /\ shield' = {signals[i] : i \in 1 .. ShieldedCount}
    /\ Goto("fork", "locking")
    /\ UNCHANGED <<m_LogMutex, pending, master, worker, kills>>

ForkWorker ==
    /\ Runs("main", "fork")
    /\ \E w \in Workers :
         /\ worker[w] = "none"
         /\ worker' = [worker EXCEPT ![w] = "starting"]
    /\ UNCHANGED <<stack, m_LogMutex, shield, pending, master, kills>>

ForkFails ==                \* fork() returns -1: exit(0)
    /\ Runs("main", "fork")
    /\ \E w \in Workers : worker[w] = "none"
    /\ master' = "ended"
    /\ UNCHANGED <<stack, m_LogMutex, shield, pending, worker, kills>>

AllForked ==
    /\ Runs("main", "fork")
    /\ \A w \in Workers : worker[w] # "none"
    /\ Goto("suspend", "locking")
    /\ UNCHANGED <<m_LogMutex, shield, pending, master, worker, kills>>

(* sigsuspend() with the empty m_stSet: nothing is blocked until a handler *)
(* has returned.                                                           *)
SetSigSuspend ==
    /\ Runs("main", "suspend")
    /\ Goto("suspended", "done")
    /\ UNCHANGED <<m_LogMutex, shield, pending, master, worker, kills>>

-----------------------------------------------------------------------------
(* Signals.                                                                *)

Suspended == stack[1].at = "suspended"

(* sa_mask is empty: a handler blocks its own signal only.                 *)
Blocked == (IF Suspended THEN {} ELSE shield) \cup {stack[i].of : i \in 2 .. Len(stack)}

HandleAny ==                \* faulty: SignalHandler is installed for every signal
    \E s \in pending \ Blocked :
      /\ pending' = pending \ {s}
      /\ stack' = Append(stack, Frame(s, "handled", "locking"))
      /\ UNCHANGED <<m_LogMutex, shield, master, worker, kills>>

Deliver ==
    \E s \in pending \ Blocked :
      /\ pending' = pending \ {s}
      /\ IF s \in HasHandler
           THEN stack' = Append(stack, Frame(s, "handled", "locking")) /\ UNCHANGED master
           ELSE /\ master' = IF s \in Terminates THEN "ended" ELSE master
                /\ UNCHANGED stack
      /\ UNCHANGED <<m_LogMutex, shield, worker, kills>>

(* The handler returns; if it was the one that ended sigsuspend(), the     *)
(* master's loop begins again.                                             *)
Return ==
    stack' = IF Len(stack) = 2 /\ Suspended
               THEN <<Frame("main", "suspend", "locking")>>
               ELSE SubSeq(stack, 1, Len(stack) - 1)

Zombies == {w \in Workers : worker[w] = "zombie"}
Children == {w \in Workers : worker[w] \notin {"none", "reaped"}}

HandlerLogged ==            \* SignalHandler
    /\ Top.of # "main" /\ Runs(Top.of, "handled")
    /\ IF Top.of = "SIGCHLD" THEN Goto("waitpid", "done") ELSE Return
    /\ UNCHANGED <<m_LogMutex, shield, pending, master, worker, kills>>

ReapOne ==                  \* faulty: waitpid() is called once for a signal
    \E w \in Zombies :
      /\ Top.at = "waitpid" /\ Top.log = "done"
      /\ worker' = [worker EXCEPT ![w] = "reaped"]
      /\ Goto("return", "locking")
      /\ UNCHANGED <<m_LogMutex, shield, pending, master, kills>>

ReapWorker ==               \* waitpid() returns a child; then it is logged
    \E w \in Zombies :
      /\ Top.at = "waitpid" /\ Top.log = "done"
      /\ worker' = [worker EXCEPT ![w] = "reaped"]
      /\ Goto("waitpid", "locking")
      /\ UNCHANGED <<m_LogMutex, shield, pending, master, kills>>

(* waitpid() returns 0, or fails with ECHILD, which is logged if this call *)
(* of the handler has reaped nobody.                                       *)
AllReaped ==
    /\ Top.at = "waitpid" /\ Top.log = "done"
    /\ Zombies = {}
    /\ \/ Return
       \/ Children = {} /\ Goto("return", "locking")
    /\ UNCHANGED <<m_LogMutex, shield, pending, master, worker, kills>>

HandlerReturns ==
    /\ Top.at = "return" /\ Top.log = "done"
    /\ Return
    /\ UNCHANGED <<m_LogMutex, shield, pending, master, worker, kills>>

-----------------------------------------------------------------------------
(* The workers and the world.                                              *)

WorkerProcessInit(w) ==     \* the mask is emptied, the threads are created
    /\ worker[w] = "starting"
    /\ worker' = [worker EXCEPT ![w] = "running"]
    /\ UNCHANGED <<stack, m_LogMutex, shield, pending, master, kills>>

WorkerEnds(w) ==            \* one of its exit(0), a fault, or a signal
    /\ worker[w] \in {"starting", "running"}
    /\ worker' = [worker EXCEPT ![w] = "zombie"]
    /\ pending' = pending \cup {"SIGCHLD"}
    /\ UNCHANGED <<stack, m_LogMutex, shield, master, kills>>

(* A handled signal to a worker: its handler only logs, and waits forever  *)
(* if the thread it interrupts is logging.                                 *)
KillWorker(w) ==
    /\ kills < MaxKills
    /\ kills' = kills + 1
    /\ Kills \cap HasHandler # {}
    /\ worker[w] \in {"starting", "running"}
    /\ worker' \in {worker, [worker EXCEPT ![w] = "frozen"]}
    /\ UNCHANGED <<stack, m_LogMutex, shield, pending, master>>

KillMaster ==
    /\ kills < MaxKills
    /\ kills' = kills + 1
    /\ \E s \in Kills : pending' = pending \cup {s}
    /\ UNCHANGED <<stack, m_LogMutex, shield, master, worker>>

MasterStep ==
    \/ LockLog \/ WriteLog
    \/ RegisterSignals \/ ForkWorker \/ AllForked \/ SetSigSuspend
    \/ Deliver
    \/ HandlerLogged \/ ReapWorker \/ AllReaped \/ HandlerReturns

Next ==
    \/ master = "alive" /\ (MasterStep \/ ForkFails \/ KillMaster)
    \/ master = "alive" /\ \E w \in Workers :
         WorkerProcessInit(w) \/ WorkerEnds(w) \/ KillWorker(w)

(* The system runs the master whenever it can run, and delivers signals.   *)
Spec == Init /\ [][Next]_vars /\ WF_vars(master = "alive" /\ MasterStep)

-----------------------------------------------------------------------------
(* Properties.                                                             *)

(* Every variable has its type.                                            *)
TypeOK ==
    /\ stack \in Seq([of : {"main"} \cup HasHandler,
                      at : {"shield", "fork", "suspend", "suspended", "handled", "waitpid",
                            "return"},
                      log : {"locking", "writing", "done"}])
    /\ m_LogMutex \in BOOLEAN
    /\ shield \subseteq Signals
    /\ pending \subseteq Signals
    /\ master \in {"alive", "ended"}
    /\ worker \in [Workers -> {"none", "starting", "running", "frozen", "zombie", "reaped"}]
    /\ kills \in 0 .. MaxKills

(* When the master sleeps and no signal is on its way, no ended worker is  *)
(* left as a zombie, although several that end while SIGCHLD is blocked or *)
(* being handled make it pending only once.                                *)
NoZombieForgotten ==
    master = "alive" /\ Suspended /\ Len(stack) = 1 /\ "SIGCHLD" \notin pending
      => Zombies = {}

(* The top frame waits for the log mutex that a frame below it holds.      *)
Frozen == Top.log = "locking" /\ m_LogMutex

(* Workers that end cannot freeze the master by themselves: SIGCHLD is     *)
(* handled only where MasterProcessCycle does not log, and its handler is  *)
(* not interrupted by another SIGCHLD.  A frozen master is handling some   *)
(* other signal, one of the eight that RegisterSignals does not block.     *)
OnlyUnshieldedFreeze ==
    Frozen => \E i \in 2 .. Len(stack) : stack[i].of # "SIGCHLD"

(* A worker that has ended is reaped, unless the master has ended or a     *)
(* signal has frozen it.                                                   *)
EndedIsReaped ==
    \A w \in Workers :
      worker[w] = "zombie" ~> worker[w] = "reaped" \/ Frozen \/ master = "ended"
=============================================================================

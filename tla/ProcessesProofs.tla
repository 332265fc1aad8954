--------------------------- MODULE ProcessesProofs ---------------------------
(***************************************************************************)
(* The master's stack of signal handlers, its log mutex and the reaping of *)
(* workers, for any number of workers and any signals sent to it.          *)
(***************************************************************************)
EXTENDS Processes, SequenceTheorems, TLAPS

-----------------------------------------------------------------------------
(* The inductive invariant.                                                *)

MainSteps == {"shield", "fork", "suspend", "suspended"}
HandlerSteps == {"handled", "waitpid", "return"}
LogSteps == {"locking", "writing", "done"}
FrameRecord == [of : {"main"} \cup HasHandler, at : MainSteps \cup HandlerSteps, log : LogSteps]

(* The lowest frame is MasterProcessCycle's; above it every signal has one *)
(* frame at most, and only SIGCHLD's goes beyond its first log line.       *)
StackInv ==
    /\ Len(stack) > 0
    /\ stack[1].of = "main" /\ stack[1].at \in MainSteps
    /\ Suspended => stack[1].log = "done"
    /\ \A i \in 2 .. Len(stack) :
         /\ stack[i].of \in HasHandler /\ stack[i].at \in HandlerSteps
         /\ stack[i].at # "handled" => stack[i].of = "SIGCHLD"
    /\ \A i, j \in 1 .. Len(stack) : stack[i].of = stack[j].of => i = j

(* The log mutex is held by the one frame that writes a line.              *)
LogInv ==
    /\ m_LogMutex => \E i \in 1 .. Len(stack) : stack[i].log = "writing"
    /\ \A i \in 1 .. Len(stack) : stack[i].log = "writing" => m_LogMutex
    /\ \A i, j \in 1 .. Len(stack) : stack[i].log = "writing" /\ stack[j].log = "writing" => i = j

(* Frame i is SIGCHLD's and still is to call waitpid().                     *)
Reaping(i) == stack[i].of = "SIGCHLD" /\ stack[i].at \in {"handled", "waitpid"}

(* A worker that has ended is known to a pending SIGCHLD or to a handler   *)
(* that still is to call waitpid().                                        *)
ReapInv ==
    Zombies # {} => "SIGCHLD" \in pending \/ \E i \in 2 .. Len(stack) : Reaping(i)

ProcessesInv == TypeOK /\ StackInv /\ LogInv /\ ReapInv

(* As long as only workers cause SIGCHLD: there is none before the first   *)
(* fork, and from then on it is blocked but in sigsuspend().               *)
ShieldInv ==
    /\ stack[1].at = "shield" =>
         "SIGCHLD" \notin pending /\ \A w \in Workers : worker[w] = "none"
    /\ stack[1].at # "shield" => "SIGCHLD" \in shield
    /\ \A i \in 2 .. Len(stack) : stack[i].of = "SIGCHLD" => Suspended

-----------------------------------------------------------------------------
(* The three ways the stack changes.                                       *)

LEMMA StackType ==
    ASSUME TypeOK
    PROVE  /\ stack \in Seq(FrameRecord) /\ Len(stack) \in Nat
           /\ \A i \in 1 .. Len(stack) : stack[i] \in FrameRecord
<1>1. stack \in Seq(FrameRecord)
  BY DEF TypeOK, FrameRecord, MainSteps, HandlerSteps, LogSteps
<1>2. QED
  BY <1>1, LenProperties, ElementOfSeq

LEMMA FrameUpdate ==
    ASSUME NEW x \in FrameRecord, NEW at \in MainSteps \cup HandlerSteps, NEW log \in LogSteps
    PROVE  [x EXCEPT !.at = at, !.log = log] = Frame(x.of, at, log)
<1> DEFINE y == [x EXCEPT !.at = at, !.log = log]
<1>1. y \in FrameRecord /\ y.of = x.of /\ y.at = at /\ y.log = log
  BY DEF FrameRecord
<1> HIDE DEF y
<1>2. y = [of |-> x.of, at |-> at, log |-> log]
  BY <1>1 DEF FrameRecord
<1>3. QED
  BY <1>2 DEF y, Frame

(* The top frame goes on: it changes, and no other.                        *)
LEMMA GotoEffect ==
    ASSUME TypeOK, Len(stack) > 0, NEW at \in MainSteps \cup HandlerSteps, NEW log \in LogSteps,
           Goto(at, log)
    PROVE  /\ stack' \in Seq(FrameRecord)
           /\ Len(stack') = Len(stack)
           /\ \A i \in 1 .. Len(stack) : stack'[i].of = stack[i].of
           /\ \A i \in 1 .. Len(stack) : i # Len(stack) => stack'[i] = stack[i]
           /\ stack'[Len(stack)].at = at /\ stack'[Len(stack)].log = log
<1> DEFINE n == Len(stack)
           f == Frame(stack[n].of, at, log)
<1>1. n \in 1 .. n /\ stack \in Seq(FrameRecord)
  BY StackType
<1>2. stack[n] \in FrameRecord
  BY <1>1, StackType
<1>3. f \in FrameRecord
  BY <1>2 DEF FrameRecord, Frame
<1>4. [stack[n] EXCEPT !.at = at, !.log = log] = f
  BY <1>2, FrameUpdate, Zenon
<1>5. stack' = [stack EXCEPT ![n] = [stack[n] EXCEPT !.at = at, !.log = log]]
  BY Zenon DEF Goto, Top
<1>6. stack' = [stack EXCEPT ![n] = f]
  BY <1>4, <1>5
<1> HIDE DEF f
<1>7. /\ stack' \in Seq(FrameRecord) /\ Len(stack') = n
      /\ \A i \in 1 .. n : stack'[i] = IF i = n THEN f ELSE stack[i]
  BY <1>1, <1>3, <1>6, ExceptSeq
<1>8. f.of = stack[n].of /\ f.at = at /\ f.log = log
  BY DEF f, Frame
<1>9. QED
  BY <1>1, <1>7, <1>8

(* A signal is delivered to its handler: one frame on top of the others.   *)
LEMMA PushEffect ==
    ASSUME TypeOK, NEW s \in HasHandler, stack' = Append(stack, Frame(s, "handled", "locking"))
    PROVE  /\ stack' \in Seq(FrameRecord)
           /\ Len(stack') = Len(stack) + 1
           /\ \A i \in 1 .. Len(stack) : stack'[i] = stack[i]
           /\ stack'[Len(stack) + 1] = Frame(s, "handled", "locking")
<1>1. Frame(s, "handled", "locking") \in FrameRecord
  BY DEF Frame, FrameRecord, HandlerSteps, LogSteps
<1>2. QED
  BY <1>1, StackType, AppendProperties

(* The top handler returns.                                                *)
LEMMA ReturnEffect ==
    ASSUME TypeOK, Len(stack) > 1, Return
    PROVE  /\ stack' \in Seq(FrameRecord)
           /\ Len(stack') = Len(stack) - 1
           /\ \A i \in 1 .. Len(stack) - 1 :
                stack'[i] = IF Len(stack) = 2 /\ Suspended THEN Frame("main", "suspend", "locking")
                                                           ELSE stack[i]
<1> DEFINE n == Len(stack)
           f == Frame("main", "suspend", "locking")
<1>1. n \in Nat /\ stack \in Seq(FrameRecord)
  BY StackType
<1>2. CASE n = 2 /\ Suspended
  <2>1. f \in FrameRecord
    BY DEF Frame, FrameRecord, MainSteps, LogSteps
  <2> HIDE DEF f
  <2>2. stack' = <<f>>
    BY <1>2 DEF Return, f
  <2>3. stack' \in Seq(FrameRecord) /\ Len(stack') = 1 /\ stack'[1] = f
    BY <2>1, <2>2
  <2>4. QED
    BY <1>2, <2>3 DEF f
<1>3. CASE ~(n = 2 /\ Suspended)
  <2>1. stack' = SubSeq(stack, 1, n - 1)
    BY <1>3 DEF Return
  <2>2. /\ stack' \in Seq(FrameRecord) /\ Len(stack') = n - 1
        /\ \A i \in 1 .. n - 1 : stack'[i] = stack[i]
    BY <1>1, <2>1, SubSeqProperties
  <2>3. QED
    BY <1>3, <2>2
<1>4. QED
  BY <1>2, <1>3

-----------------------------------------------------------------------------
(* What each of them keeps.                                                *)

(* A frame beyond the first step of a signal's handler, or of a signal, is *)
(* not the lowest.                                                         *)
LEMMA TopFrame ==
    ASSUME TypeOK, StackInv
    PROVE  /\ Len(stack) \in 1 .. Len(stack) /\ 1 \in 1 .. Len(stack) /\ Len(stack) \in Nat
           /\ Top = stack[Len(stack)] /\ Top \in FrameRecord
           /\ Top.of # "main" \/ Top.at \in HandlerSteps => Len(stack) \in 2 .. Len(stack)
           /\ Top.of = "main" \/ Top.at \in MainSteps => Len(stack) = 1
<1>1. Len(stack) \in Nat /\ Len(stack) > 0
  BY StackType DEF StackInv
<1>2. Top = stack[Len(stack)] /\ Top \in FrameRecord
  BY <1>1, StackType DEF Top
<1>3. ASSUME Len(stack) # 1
      PROVE  Len(stack) \in 2 .. Len(stack) /\ Top.of # "main" /\ Top.at \notin MainSteps
  <2>1. Len(stack) \in 2 .. Len(stack)
    <3> DEFINE n == Len(stack)
    <3>1. n \in Nat /\ n > 0 /\ n # 1
      BY <1>1, <1>3
    <3> HIDE DEF n
    <3>2. n \in 2 .. n
      BY <3>1
    <3>3. QED
      BY <3>2 DEF n
  <2>2. Top.of \in HasHandler /\ Top.at \in HandlerSteps
    BY <1>2, <2>1 DEF StackInv
  <2>3. QED
    BY <2>1, <2>2 DEF HasHandler, HandlerSteps, MainSteps
<1>4. ASSUME Len(stack) = 1 PROVE Top.of = "main" /\ Top.at \notin HandlerSteps
  BY <1>2, <1>4 DEF StackInv, HandlerSteps, MainSteps
<1>5. QED
  BY <1>1, <1>2, <1>3, <1>4

LEMMA GotoStack ==
    ASSUME TypeOK, StackInv, NEW at \in MainSteps \cup HandlerSteps, NEW log \in LogSteps,
           Goto(at, log),
           Len(stack) = 1 => at \in MainSteps /\ (at = "suspended" => log = "done"),
           Len(stack) # 1 => at \in HandlerSteps /\ (at # "handled" => Top.of = "SIGCHLD")
    PROVE  StackInv'
<1> DEFINE n == Len(stack)
<1>1. Len(stack') = n
  BY GotoEffect DEF StackInv
<1>2. n \in Nat /\ n \in 1 .. n /\ 1 \in 1 .. n /\ Top = stack[n]
  BY TopFrame
<1>3. /\ \A i \in 1 .. n : stack'[i].of = stack[i].of
      /\ \A i \in 1 .. n : i # n => stack'[i] = stack[i]
      /\ stack'[n].at = at /\ stack'[n].log = log
  BY GotoEffect DEF StackInv
<1>4. /\ stack'[1].of = "main" /\ stack'[1].at \in MainSteps
      /\ stack'[1].at = "suspended" => stack'[1].log = "done"
  <2>1. CASE n = 1
    BY <1>2, <1>3, <2>1 DEF StackInv
  <2>2. CASE n # 1
    BY <1>2, <1>3, <2>2 DEF StackInv, Suspended
  <2>3. QED
    BY <2>1, <2>2
<1>5. ASSUME NEW i \in 2 .. n
      PROVE  /\ stack'[i].of \in HasHandler /\ stack'[i].at \in HandlerSteps
             /\ stack'[i].at # "handled" => stack'[i].of = "SIGCHLD"
  <2>1. i \in 1 .. n
    BY <1>2
  <2>2. CASE i = n
    BY <1>2, <1>3, <2>1, <2>2 DEF StackInv
  <2>3. CASE i # n
    BY <1>3, <2>1, <2>3 DEF StackInv
  <2>4. QED
    BY <2>2, <2>3
<1>6. \A i, j \in 1 .. n : stack'[i].of = stack'[j].of => i = j
  BY <1>3 DEF StackInv
<1>7. QED
  BY <1>1, <1>2, <1>4, <1>5, <1>6 DEF StackInv, Suspended

(* A frame that does not write goes to another step without writing.       *)
LEMMA GotoLog ==
    ASSUME TypeOK, StackInv, LogInv,
           NEW at \in MainSteps \cup HandlerSteps, NEW log \in LogSteps, Goto(at, log),
           Top.log # "writing", log # "writing", UNCHANGED m_LogMutex
    PROVE  LogInv'
<1>1. /\ Len(stack') = Len(stack)
      /\ \A i \in 1 .. Len(stack) : stack'[i].of = stack[i].of
      /\ \A i \in 1 .. Len(stack) : i # Len(stack) => stack'[i] = stack[i]
      /\ stack'[Len(stack)].at = at /\ stack'[Len(stack)].log = log
  BY GotoEffect DEF StackInv
<1>2. \A i \in 1 .. Len(stack) : stack'[i].log = "writing" <=> stack[i].log = "writing"
  BY <1>1, TopFrame
<1>3. QED
  BY <1>1, <1>2 DEF LogInv

(* A frame goes to another step, and does not give up reaping while there  *)
(* are zombies.                                                            *)
LEMMA GotoReap ==
    ASSUME TypeOK, StackInv, ReapInv,
           NEW at \in MainSteps \cup HandlerSteps, NEW log \in LogSteps, Goto(at, log),
           Zombies' \subseteq Zombies, pending \subseteq pending',
           Reaping(Len(stack)) => at \in {"handled", "waitpid"} \/ Zombies' = {}
    PROVE  ReapInv'
<1>1. /\ Len(stack') = Len(stack)
      /\ \A i \in 1 .. Len(stack) : stack'[i].of = stack[i].of
      /\ \A i \in 1 .. Len(stack) : i # Len(stack) => stack'[i] = stack[i]
      /\ stack'[Len(stack)].at = at /\ stack'[Len(stack)].log = log
  BY GotoEffect DEF StackInv
<1>2. SUFFICES ASSUME Zombies' # {}, "SIGCHLD" \notin pending'
      PROVE  \E i \in 2 .. Len(stack') : Reaping(i)'
  BY DEF ReapInv
<1>3. PICK i \in 2 .. Len(stack) : Reaping(i)
  BY <1>2 DEF ReapInv
<1>4. i \in 1 .. Len(stack)
  BY TopFrame
<1>5. Reaping(i)'
  <2>1. CASE i = Len(stack)
    BY <1>1, <1>2, <1>3, <1>4, <2>1 DEF Reaping
  <2>2. CASE i # Len(stack)
    BY <1>1, <1>3, <1>4, <2>2 DEF Reaping
  <2>3. QED
    BY <2>1, <2>2
<1>6. QED
  BY <1>1, <1>5

(* A handler is entered: its signal has no other frame, it has not logged. *)
LEMMA PushKeeps ==
    ASSUME TypeOK, StackInv, LogInv, UNCHANGED m_LogMutex, NEW s \in HasHandler, s \notin Blocked,
           stack' = Append(stack, Frame(s, "handled", "locking"))
    PROVE  StackInv' /\ LogInv'
<1> DEFINE n == Len(stack)
<1>1. /\ Len(stack') = n + 1 /\ n \in Nat /\ n > 0
      /\ \A i \in 1 .. n : stack'[i] = stack[i]
      /\ stack'[n + 1] = Frame(s, "handled", "locking")
  BY PushEffect, TopFrame DEF StackInv
<1>2. /\ stack'[n + 1].of = s /\ stack'[n + 1].at = "handled" /\ stack'[n + 1].log = "locking"
  BY <1>1 DEF Frame
<1>3. \A i \in 1 .. n : stack[i].of # s
  <2>1. stack[1].of # s
    BY DEF StackInv, HasHandler
  <2>2. \A i \in 2 .. n : stack[i].of # s
    BY DEF Blocked
  <2>3. QED
    BY <1>1, <2>1, <2>2
<1>4. \A i \in 1 .. n + 1 : i \in 1 .. n \/ i = n + 1
  BY <1>1
<1>5. StackInv'
  <2>1. /\ stack'[1] = stack[1]
        /\ \A i \in 2 .. n + 1 : i \in 2 .. n \/ i = n + 1
        /\ \A i \in 2 .. n : stack'[i] = stack[i]
    BY <1>1
  <2>2. /\ Len(stack') > 0
        /\ stack'[1].of = "main" /\ stack'[1].at \in MainSteps
        /\ Suspended' => stack'[1].log = "done"
    BY <1>1, <2>1 DEF StackInv, Suspended
  <2>3. \A i \in 2 .. n + 1 :
          /\ stack'[i].of \in HasHandler /\ stack'[i].at \in HandlerSteps
          /\ stack'[i].at # "handled" => stack'[i].of = "SIGCHLD"
    BY <1>2, <2>1 DEF StackInv, HandlerSteps
  <2>4. \A i, j \in 1 .. n + 1 : stack'[i].of = stack'[j].of => i = j
    BY <1>1, <1>2, <1>3, <1>4 DEF StackInv
  <2>5. QED
    BY <1>1, <2>2, <2>3, <2>4 DEF StackInv
<1>6. LogInv'
  <2>1. \A i \in 1 .. n + 1 : stack'[i].log = "writing" => i \in 1 .. n /\ stack[i].log = "writing"
    BY <1>1, <1>2, <1>4
  <2>2. \A i \in 1 .. n : i \in 1 .. n + 1 /\ stack'[i] = stack[i]
    BY <1>1
  <2>3. QED
    BY <1>1, <2>1, <2>2 DEF LogInv
<1>7. QED
  BY <1>5, <1>6

(* A handler that has written its line returns.                            *)
LEMMA ReturnKeeps ==
    ASSUME TypeOK, StackInv, LogInv, UNCHANGED m_LogMutex, Len(stack) > 1, Return,
           Top.log # "writing"
    PROVE  StackInv' /\ LogInv'
<1> DEFINE n == Len(stack)
<1>1. /\ Len(stack') = n - 1 /\ n \in Nat
      /\ \A i \in 1 .. n - 1 :
           stack'[i] = IF n = 2 /\ Suspended THEN Frame("main", "suspend", "locking") ELSE stack[i]
  BY ReturnEffect, TopFrame
<1>2. CASE n = 2 /\ Suspended
  <2>1. /\ Len(stack') = 1 /\ stack'[1] = Frame("main", "suspend", "locking")
    BY <1>1, <1>2
  <2>2. stack'[1].of = "main" /\ stack'[1].at = "suspend" /\ stack'[1].log = "locking"
    BY <2>1 DEF Frame
  <2>3. StackInv'
    BY <2>1, <2>2 DEF StackInv, Suspended, MainSteps
  <2>4. ~m_LogMutex
    <3>1. \A i \in 1 .. n : stack[i].log # "writing"
      BY <1>2, TopFrame DEF StackInv
    <3>2. QED
      BY <3>1 DEF LogInv
  <2>5. LogInv'
    BY <2>1, <2>2, <2>4 DEF LogInv
  <2>6. QED
    BY <2>3, <2>5
<1>3. CASE ~(n = 2 /\ Suspended)
  <2>1. \A i \in 1 .. n - 1 : i \in 1 .. n /\ stack'[i] = stack[i]
    BY <1>1, <1>3
  <2>2. \A i \in 1 .. n : i \in 1 .. n - 1 \/ i = n
    BY <1>1
  <2>3. 1 \in 1 .. n - 1 /\ \A i \in 2 .. n - 1 : i \in 2 .. n /\ i \in 1 .. n - 1
    BY <1>1
  <2>4. StackInv'
    <3>1. /\ Len(stack') > 0
          /\ stack'[1].of = "main" /\ stack'[1].at \in MainSteps
          /\ Suspended' => stack'[1].log = "done"
      BY <1>1, <2>1, <2>3 DEF StackInv, Suspended
    <3>2. \A i \in 2 .. n - 1 :
            /\ stack'[i].of \in HasHandler /\ stack'[i].at \in HandlerSteps
            /\ stack'[i].at # "handled" => stack'[i].of = "SIGCHLD"
      BY <2>1, <2>3 DEF StackInv
    <3>3. \A i, j \in 1 .. n - 1 : stack'[i].of = stack'[j].of => i = j
      BY <2>1 DEF StackInv
    <3>4. QED
      BY <1>1, <3>1, <3>2, <3>3 DEF StackInv
  <2>5. LogInv'
    BY <1>1, <2>1, <2>2, TopFrame DEF LogInv
  <2>6. QED
    BY <2>4, <2>5
<1>4. QED
  BY <1>2, <1>3

-----------------------------------------------------------------------------
(* Every step keeps the invariant.                                         *)

LEMMA InitProcessesInv == Init => ProcessesInv
<1> SUFFICES ASSUME Init PROVE ProcessesInv
  OBVIOUS
<1> DEFINE f == Frame("main", "shield", "locking")
<1>1. f \in FrameRecord /\ f.of = "main" /\ f.at = "shield" /\ f.log = "locking"
  BY DEF Frame, FrameRecord, MainSteps, LogSteps
<1> HIDE DEF f
<1>2. stack = <<f>>
  BY DEF Init, f
<1>3. stack \in Seq(FrameRecord) /\ Len(stack) = 1 /\ stack[1] = f
  BY <1>1, <1>2
<1>4. TypeOK
  <2>1. kills \in 0 .. MaxKills
    BY ProcessesConstants DEF Init
  <2>2. QED
    BY <1>3, <2>1 DEF Init, TypeOK, FrameRecord, MainSteps, HandlerSteps, LogSteps
<1>5. StackInv /\ LogInv
  BY <1>1, <1>3 DEF Init, StackInv, LogInv, Suspended, MainSteps
<1>6. ReapInv
  BY DEF Init, ReapInv, Zombies
<1>7. QED
  BY <1>4, <1>5, <1>6 DEF ProcessesInv

(* Steps that leave the master's stack alone.                              *)
LEMMA StillStack ==
    ASSUME ProcessesInv, UNCHANGED <<stack, m_LogMutex>>,
           Zombies' \subseteq Zombies \/ "SIGCHLD" \in pending', pending \subseteq pending'
    PROVE  StackInv' /\ LogInv' /\ ReapInv'
<1>1. StackInv' /\ LogInv'
  BY DEF ProcessesInv, StackInv, LogInv, Suspended
<1>2. ReapInv'
  BY DEF ProcessesInv, ReapInv, Reaping
<1>3. QED
  BY <1>1, <1>2

LEMMA TypesSuffice ==
    ASSUME TypeOK, stack' \in Seq(FrameRecord), m_LogMutex' \in BOOLEAN, shield' \subseteq Signals,
           pending' \subseteq Signals, master' \in {"alive", "ended"},
           worker' \in [Workers -> {"none", "starting", "running", "frozen", "zombie", "reaped"}],
           kills' \in 0 .. MaxKills
    PROVE  TypeOK'
  BY DEF TypeOK, FrameRecord, MainSteps, HandlerSteps, LogSteps

(* A frame of MasterProcessCycle or of a handler that has written its line *)
(* goes to its next step.                                                  *)
LEMMA GotoNext ==
    ASSUME ProcessesInv, NEW at \in MainSteps \cup HandlerSteps, NEW log \in LogSteps,
           Goto(at, log), Top.log # "writing", log # "writing",
           UNCHANGED <<m_LogMutex, pending, master, kills>>, shield' \subseteq Signals,
           worker' \in [Workers -> {"none", "starting", "running", "frozen", "zombie", "reaped"}],
           Zombies' \subseteq Zombies,
           Reaping(Len(stack)) => at \in {"handled", "waitpid"} \/ Zombies' = {},
           Len(stack) = 1 => at \in MainSteps /\ (at = "suspended" => log = "done"),
           Len(stack) # 1 => at \in HandlerSteps /\ (at # "handled" => Top.of = "SIGCHLD")
    PROVE  ProcessesInv'
<1> USE DEF ProcessesInv
<1>1. TypeOK'
  <2>1. stack' \in Seq(FrameRecord)
    BY GotoEffect DEF StackInv
  <2>2. QED
    BY <2>1, TypesSuffice DEF TypeOK
<1>2. StackInv'
  BY GotoStack
<1>3. LogInv'
  BY GotoLog
<1>4. ReapInv'
  BY GotoReap
<1>5. QED
  BY <1>1, <1>2, <1>3, <1>4

LEMMA LockLogSafe == ASSUME ProcessesInv, LockLog PROVE ProcessesInv'
<1> USE DEF ProcessesInv
<1> DEFINE n == Len(stack)
<1>1. /\ n \in 1 .. n /\ n \in Nat /\ Top = stack[n] /\ Top \in FrameRecord /\ n > 0
      /\ Len(stack) = 1 => Top.at \in MainSteps
      /\ Len(stack) # 1 => Top.at \in HandlerSteps /\ (Top.at # "handled" => Top.of = "SIGCHLD")
  BY TopFrame DEF StackInv, FrameRecord
<1>2. Top.at \in MainSteps \cup HandlerSteps /\ Top.log = "locking" /\ Goto(Top.at, "writing")
  BY <1>1 DEF FrameRecord, LockLog
<1>3. "writing" \in LogSteps
  BY DEF LogSteps
<1>4. /\ stack' \in Seq(FrameRecord) /\ Len(stack') = n
      /\ \A i \in 1 .. n : i # n => stack'[i] = stack[i]
      /\ stack'[n].log = "writing"
  BY <1>1, <1>2, <1>3, GotoEffect
<1>5. TypeOK'
  BY <1>4, TypesSuffice DEF LockLog, TypeOK
<1>6. StackInv'
  <2>1. Len(stack) = 1 => Top.at # "suspended"
    BY <1>1, <1>2 DEF StackInv, Suspended
  <2>2. QED
    BY <1>1, <1>2, <1>3, <2>1, GotoStack
<1>7. LogInv'
  <2>1. \A i \in 1 .. n : stack[i].log # "writing"
    BY DEF LockLog, LogInv
  <2>2. \A i \in 1 .. n : stack'[i].log = "writing" <=> i = n
    BY <1>4, <2>1
  <2>3. m_LogMutex'
    BY DEF LockLog
  <2>4. QED
    BY <1>1, <1>4, <2>2, <2>3 DEF LogInv
<1>8. ReapInv'
  <2>1. Zombies' = Zombies /\ pending' = pending
    BY DEF LockLog, Zombies
  <2>2. Reaping(n) => Top.at \in {"handled", "waitpid"}
    BY <1>1 DEF Reaping
  <2>3. QED
    BY <1>2, <1>3, <2>1, <2>2, GotoReap
<1>9. QED
  BY <1>5, <1>6, <1>7, <1>8

LEMMA WriteLogSafe == ASSUME ProcessesInv, WriteLog PROVE ProcessesInv'
<1> USE DEF ProcessesInv
<1> DEFINE n == Len(stack)
<1>1. /\ n \in 1 .. n /\ n \in Nat /\ Top = stack[n] /\ Top \in FrameRecord /\ n > 0
      /\ Len(stack) = 1 => Top.at \in MainSteps
      /\ Len(stack) # 1 => Top.at \in HandlerSteps /\ (Top.at # "handled" => Top.of = "SIGCHLD")
  BY TopFrame DEF StackInv, FrameRecord
<1>2. Top.at \in MainSteps \cup HandlerSteps /\ Top.log = "writing" /\ Goto(Top.at, "done")
  BY <1>1 DEF FrameRecord, WriteLog
<1>3. "done" \in LogSteps
  BY DEF LogSteps
<1>4. /\ stack' \in Seq(FrameRecord) /\ Len(stack') = n
      /\ \A i \in 1 .. n : i # n => stack'[i] = stack[i]
      /\ stack'[n].log = "done"
  BY <1>1, <1>2, <1>3, GotoEffect
<1>5. TypeOK'
  BY <1>4, TypesSuffice DEF WriteLog, TypeOK
<1>6. StackInv'
  BY <1>1, <1>2, <1>3, GotoStack
<1>7. LogInv'
  <2>1. \A i \in 1 .. n : i # n => stack[i].log # "writing"
    BY <1>1, <1>2 DEF LogInv
  <2>2. \A i \in 1 .. n : stack'[i].log # "writing"
    BY <1>4, <2>1
  <2>3. ~m_LogMutex'
    BY DEF WriteLog
  <2>4. QED
    BY <1>4, <2>2, <2>3 DEF LogInv
<1>8. ReapInv'
  <2>1. Zombies' = Zombies /\ pending' = pending
    BY DEF WriteLog, Zombies
  <2>2. Reaping(n) => Top.at \in {"handled", "waitpid"}
    BY <1>1 DEF Reaping
  <2>3. QED
    BY <1>2, <1>3, <2>1, <2>2, GotoReap
<1>9. QED
  BY <1>5, <1>6, <1>7, <1>8

(* MasterProcessCycle's own steps: no handler is above it.                 *)
LEMMA MainStepSafe ==
    ASSUME ProcessesInv, RegisterSignals \/ AllForked \/ SetSigSuspend
    PROVE  ProcessesInv'
<1> USE DEF ProcessesInv
<1>1. Top.of = "main" /\ Top.log = "done"
  BY DEF RegisterSignals, AllForked, SetSigSuspend, Runs
<1>2. Len(stack) = 1 /\ ~Reaping(Len(stack))
  BY <1>1, TopFrame DEF Reaping
<1>3. PICK at \in {"fork", "suspend", "suspended"} :
        \E log \in {"locking", "done"} : Goto(at, log) /\ (at = "suspended" => log = "done")
  BY DEF RegisterSignals, AllForked, SetSigSuspend
<1>4. PICK log \in {"locking", "done"} : Goto(at, log) /\ (at = "suspended" => log = "done")
  BY <1>3
<1>5. /\ UNCHANGED <<m_LogMutex, pending, master, kills, worker>> /\ Zombies' = Zombies
      /\ worker' \in [Workers -> {"none", "starting", "running", "frozen", "zombie", "reaped"}]
  BY DEF RegisterSignals, AllForked, SetSigSuspend, Zombies, TypeOK
<1>6. shield' \subseteq Signals
  <2>1. CASE RegisterSignals
    <3>1. ShieldedCount \in 1 .. 10 /\ Len(signals) = 10
      BY DEF ShieldedCount, signals
    <3>2. \A i \in 1 .. ShieldedCount : i \in 1 .. Len(signals)
      BY <3>1
    <3>3. QED
      BY <2>1, <3>2 DEF RegisterSignals, Signals
  <2>2. CASE AllForked \/ SetSigSuspend
    BY <2>2 DEF AllForked, SetSigSuspend, TypeOK
  <2>3. QED
    BY <2>1, <2>2
<1>7. at \in MainSteps /\ at \in MainSteps \cup HandlerSteps /\ log \in LogSteps
  BY DEF MainSteps, LogSteps
<1>8. QED
  BY <1>1, <1>2, <1>4, <1>5, <1>6, <1>7, GotoNext

(* A handler that has nothing left to reap returns.                        *)
LEMMA ReturnSafe ==
    ASSUME ProcessesInv, Return, Len(stack) > 1, Top.log = "done",
           UNCHANGED <<m_LogMutex, shield, pending, master, worker, kills>>,
           Reaping(Len(stack)) => Zombies = {}
    PROVE  ProcessesInv'
<1> USE DEF ProcessesInv
<1> DEFINE n == Len(stack)
<1>1. /\ stack' \in Seq(FrameRecord) /\ Len(stack') = n - 1 /\ n \in Nat
      /\ \A i \in 1 .. n - 1 :
           stack'[i] = IF n = 2 /\ Suspended THEN Frame("main", "suspend", "locking") ELSE stack[i]
  BY ReturnEffect, TopFrame
<1>2. TypeOK'
  BY <1>1, TypesSuffice DEF TypeOK
<1>3. StackInv' /\ LogInv'
  BY ReturnKeeps
<1>4. ReapInv'
  <2>1. Zombies' = Zombies
    BY DEF Zombies
  <2>2. SUFFICES ASSUME Zombies # {}, "SIGCHLD" \notin pending
        PROVE  \E i \in 2 .. Len(stack') : Reaping(i)'
    BY <2>1 DEF ReapInv
  <2>3. PICK i \in 2 .. n : Reaping(i)
    BY <2>2 DEF ReapInv
  <2>4. i # n
    BY <2>2, <2>3
  <2>5. i \in 2 .. n - 1 /\ i \in 1 .. n - 1 /\ n # 2
    <3>1. n \in Nat /\ i \in 2 .. n /\ i # n
      BY <1>1, <2>4
    <3> HIDE DEF n
    <3>2. QED
      BY <3>1
  <2>6. stack'[i] = stack[i]
    BY <1>1, <2>5
  <2>7. QED
    BY <1>1, <2>3, <2>5, <2>6 DEF Reaping
<1>5. QED
  BY <1>2, <1>3, <1>4

LEMMA DeliverSafe == ASSUME ProcessesInv, Deliver PROVE ProcessesInv'
<1> USE DEF ProcessesInv
<1>1. PICK s \in pending \ Blocked :
        /\ pending' = pending \ {s}
        /\ IF s \in HasHandler
             THEN stack' = Append(stack, Frame(s, "handled", "locking")) /\ UNCHANGED master
             ELSE /\ master' = IF s \in Terminates THEN "ended" ELSE master
                  /\ UNCHANGED stack
        /\ UNCHANGED <<m_LogMutex, shield, worker, kills>>
  BY DEF Deliver
<1>2. Zombies' = Zombies
  BY <1>1 DEF Zombies
<1>3. CASE s \in HasHandler
  <2> DEFINE n == Len(stack)
  <2>1. stack' = Append(stack, Frame(s, "handled", "locking"))
    BY <1>1, <1>3
  <2>2. /\ stack' \in Seq(FrameRecord) /\ Len(stack') = n + 1 /\ n \in Nat /\ n > 0
        /\ \A i \in 1 .. n : stack'[i] = stack[i]
        /\ stack'[n + 1] = Frame(s, "handled", "locking")
    BY <1>3, <2>1, PushEffect, TopFrame DEF StackInv
  <2>3. TypeOK'
    BY <1>1, <1>3, <2>2, TypesSuffice DEF TypeOK
  <2>4. StackInv' /\ LogInv'
    BY <1>1, <1>3, <2>1, PushKeeps
  <2>5. ReapInv'
    <3>1. SUFFICES ASSUME Zombies # {}, "SIGCHLD" \notin pending'
          PROVE  \E i \in 2 .. Len(stack') : Reaping(i)'
      BY <1>2 DEF ReapInv
    <3>2. CASE s = "SIGCHLD"
      <4> DEFINE m == Len(stack) + 1
      <4>1. stack'[m].of = "SIGCHLD" /\ stack'[m].at = "handled"
        BY <2>2, <3>2 DEF Frame
      <4>2. m \in Nat /\ m > 1 /\ Len(stack') = m
        BY <2>2
      <4> HIDE DEF m
      <4>3. m \in 2 .. Len(stack')
        BY <4>2
      <4>4. QED
        BY <4>1, <4>3 DEF Reaping
    <3>3. CASE s # "SIGCHLD"
      <4>1. PICK i \in 2 .. n : Reaping(i)
        BY <1>1, <3>1, <3>3 DEF ReapInv
      <4>2. i \in 2 .. n + 1 /\ i \in 1 .. n
        BY <2>2
      <4>3. QED
        BY <2>2, <4>1, <4>2 DEF Reaping
    <3>4. QED
      BY <3>2, <3>3
  <2>6. QED
    BY <2>3, <2>4, <2>5
<1>4. CASE s \notin HasHandler
  <2>1. UNCHANGED <<stack, m_LogMutex, shield, worker, kills>> /\ s # "SIGCHLD"
    BY <1>1, <1>4 DEF HasHandler
  <2>2. TypeOK'
    BY <1>1, <1>4, <2>1 DEF TypeOK
  <2>3. StackInv' /\ LogInv'
    BY <2>1 DEF StackInv, LogInv, Suspended
  <2>4. ReapInv'
    BY <1>1, <1>2, <2>1 DEF ReapInv, Reaping
  <2>5. QED
    BY <2>2, <2>3, <2>4
<1>5. QED
  BY <1>3, <1>4

(* The steps of a handler after its log line.                              *)
LEMMA HandlerStepSafe ==
    ASSUME ProcessesInv, HandlerLogged \/ ReapWorker \/ AllReaped \/ HandlerReturns
    PROVE  ProcessesInv'
<1> USE DEF ProcessesInv
<1>1. Top.log = "done" /\ (Top.of # "main" \/ Top.at \in HandlerSteps)
  BY DEF HandlerLogged, ReapWorker, AllReaped, HandlerReturns, Runs, HandlerSteps
<1>2. /\ Len(stack) \in 2 .. Len(stack) /\ Len(stack) \in Nat /\ Top = stack[Len(stack)]
  BY <1>1, TopFrame
<1>3. Len(stack) > 1 /\ Len(stack) # 1 /\ (Top.at # "handled" => Top.of = "SIGCHLD")
  BY <1>2 DEF StackInv
<1>4. /\ "waitpid" \in HandlerSteps /\ "return" \in HandlerSteps
      /\ "locking" \in LogSteps /\ "done" \in LogSteps
  BY DEF HandlerSteps, LogSteps
<1>5. /\ shield \subseteq Signals
      /\ worker \in [Workers -> {"none", "starting", "running", "frozen", "zombie", "reaped"}]
  BY DEF TypeOK
<1>6. CASE HandlerLogged
  <2>1. UNCHANGED <<m_LogMutex, shield, pending, master, worker, kills>> /\ Zombies' = Zombies
    BY <1>6 DEF HandlerLogged, Zombies
  <2>2. CASE Top.of = "SIGCHLD"
    <3>1. Goto("waitpid", "done")
      BY <1>6, <2>2 DEF HandlerLogged
    <3>2. QED
      BY <1>1, <1>3, <1>4, <1>5, <2>1, <2>2, <3>1, GotoNext
  <2>3. CASE Top.of # "SIGCHLD"
    <3>1. Return
      BY <1>6, <2>3 DEF HandlerLogged
    <3>2. ~Reaping(Len(stack))
      BY <1>2, <2>3 DEF Reaping
    <3>3. QED
      BY <1>1, <1>3, <2>1, <3>1, <3>2, ReturnSafe
  <2>4. QED
    BY <2>2, <2>3
<1>7. CASE ReapWorker
  <2>1. PICK w \in Zombies :
          /\ worker' = [worker EXCEPT ![w] = "reaped"]
          /\ Goto("waitpid", "locking")
          /\ UNCHANGED <<m_LogMutex, shield, pending, master, kills>>
    BY <1>7 DEF ReapWorker
  <2>2. Top.at = "waitpid"
    BY <1>7 DEF ReapWorker
  <2>3. /\ worker' \in [Workers -> {"none", "starting", "running", "frozen", "zombie", "reaped"}]
        /\ Zombies' \subseteq Zombies
    BY <1>5, <2>1 DEF Zombies
  <2>4. QED
    BY <1>1, <1>3, <1>4, <1>5, <2>1, <2>2, <2>3, GotoNext
<1>8. CASE AllReaped
  <2>1. /\ UNCHANGED <<m_LogMutex, shield, pending, master, worker, kills>> /\ Zombies' = Zombies
        /\ Zombies = {} /\ Top.at = "waitpid"
    BY <1>8 DEF AllReaped, Zombies
  <2>2. CASE Return
    BY <1>1, <1>3, <2>1, <2>2, ReturnSafe
  <2>3. CASE Goto("return", "locking")
    BY <1>1, <1>3, <1>4, <1>5, <2>1, <2>3, GotoNext
  <2>4. QED
    BY <1>8, <2>2, <2>3 DEF AllReaped
<1>9. CASE HandlerReturns
  <2>1. UNCHANGED <<m_LogMutex, shield, pending, master, worker, kills>> /\ Return /\ Top.at = "return"
    BY <1>9 DEF HandlerReturns
  <2>2. ~Reaping(Len(stack))
    BY <1>2, <2>1 DEF Reaping
  <2>3. QED
    BY <1>1, <1>3, <2>1, <2>2, ReturnSafe
<1>10. QED
  BY <1>6, <1>7, <1>8, <1>9

(* Steps of workers and of others, and those of fork(): the stack stays.   *)
LEMMA WorldStepSafe ==
    ASSUME ProcessesInv,
           \/ ForkWorker \/ ForkFails \/ KillMaster
           \/ \E w \in Workers : WorkerProcessInit(w) \/ WorkerEnds(w) \/ KillWorker(w)
    PROVE  ProcessesInv'
<1> USE ProcessesConstants DEF ProcessesInv
<1>1. UNCHANGED <<stack, m_LogMutex, shield>> /\ pending \subseteq pending'
  BY DEF ForkWorker, ForkFails, KillMaster, WorkerProcessInit, WorkerEnds, KillWorker
<1>2. "SIGCHLD" \in Signals
  <2>1. "SIGCHLD" = signals[1] /\ 1 \in 1 .. Len(signals)
    BY DEF signals
  <2>2. QED
    BY <2>1 DEF Signals
<1>3. pending' \subseteq Signals /\ kills' \in 0 .. MaxKills
  BY <1>2 DEF ForkWorker, ForkFails, KillMaster, WorkerProcessInit, WorkerEnds, KillWorker, TypeOK
<1>4. /\ worker' \in [Workers -> {"none", "starting", "running", "frozen", "zombie", "reaped"}]
      /\ master' \in {"alive", "ended"}
  BY DEF ForkWorker, ForkFails, KillMaster, WorkerProcessInit, WorkerEnds, KillWorker, TypeOK
<1>5. TypeOK'
  BY <1>1, <1>3, <1>4 DEF TypeOK
<1>6. Zombies' \subseteq Zombies \/ "SIGCHLD" \in pending'
  BY DEF ForkWorker, ForkFails, KillMaster, WorkerProcessInit, WorkerEnds, KillWorker, TypeOK, Zombies
<1>7. QED
  BY <1>1, <1>5, <1>6, StillStack

LEMMA NextProcessesInv == ProcessesInv /\ [Next]_vars => ProcessesInv'
<1> SUFFICES ASSUME ProcessesInv, [Next]_vars PROVE ProcessesInv'
  OBVIOUS
<1>1. CASE UNCHANGED vars
  BY <1>1 DEF vars, ProcessesInv, TypeOK, StackInv, LogInv, ReapInv, Reaping, Suspended, Zombies
<1>2. CASE Next
  BY <1>2, LockLogSafe, WriteLogSafe, MainStepSafe, DeliverSafe, HandlerStepSafe, WorldStepSafe
     DEF Next, MasterStep
<1>3. QED
  BY <1>1, <1>2

-----------------------------------------------------------------------------
(* The theorems.                                                           *)

(* Every variable keeps its type, whatever signals interrupt the master.   *)
THEOREM TypeCorrect == Spec => []TypeOK
<1>1. ProcessesInv => TypeOK
  BY DEF ProcessesInv
<1>2. QED
  BY <1>1, InitProcessesInv, NextProcessesInv, PTL DEF Spec

(* While the master sleeps with no signal on its way, every worker that has*)
(* ended has been reaped, however many ended while one SIGCHLD was pending *)
(* and whatever other signals interrupted the handler that reaps.          *)
THEOREM EveryZombieIsReaped == Spec => []NoZombieForgotten
<1>1. ProcessesInv => NoZombieForgotten
  BY DEF ProcessesInv, ReapInv, NoZombieForgotten
<1>2. QED
  BY <1>1, InitProcessesInv, NextProcessesInv, PTL DEF Spec

-----------------------------------------------------------------------------
(* SIGCHLD is handled in sigsuspend() only.                                *)

LEMMA FirstSignal == signals[1] = "SIGCHLD" /\ 1 \in 1 .. ShieldedCount
  BY DEF signals, ShieldedCount

LEMMA InitShieldInv == Init => ShieldInv
<1> SUFFICES ASSUME Init PROVE ShieldInv
  OBVIOUS
<1>1. Len(stack) = 1 /\ stack[1].at = "shield"
  BY DEF Init, Frame
<1>2. QED
  BY <1>1 DEF Init, ShieldInv

(* The top frame goes on without the lowest one leaving its step.          *)
LEMMA GotoShield ==
    ASSUME ProcessesInv, ShieldInv,
           NEW at \in MainSteps \cup HandlerSteps, NEW log \in LogSteps, Goto(at, log),
           Len(stack) = 1 => at = Top.at,
           UNCHANGED <<shield, pending>>, \A w \in Workers : worker[w] = "none" => worker'[w] = "none"
    PROVE  ShieldInv'
<1>1. /\ Len(stack') = Len(stack)
      /\ \A i \in 1 .. Len(stack) : stack'[i].of = stack[i].of
      /\ \A i \in 1 .. Len(stack) : i # Len(stack) => stack'[i] = stack[i]
      /\ stack'[Len(stack)].at = at
  BY GotoEffect DEF ProcessesInv, StackInv
<1>2. 1 \in 1 .. Len(stack) /\ Len(stack) \in Nat /\ Top = stack[Len(stack)]
  BY TopFrame DEF ProcessesInv
<1>3. stack'[1].at = stack[1].at
  BY <1>1, <1>2
<1>4. \A i \in 2 .. Len(stack) : i \in 1 .. Len(stack)
  BY <1>2
<1>5. QED
  BY <1>1, <1>3, <1>4 DEF ShieldInv, Suspended

LEMMA ReturnShield ==
    ASSUME ProcessesInv, ShieldInv, Return, Len(stack) > 1, UNCHANGED <<shield, pending, worker>>
    PROVE  ShieldInv'
<1> DEFINE n == Len(stack)
<1>1. /\ Len(stack') = n - 1 /\ n \in Nat
      /\ \A i \in 1 .. n - 1 :
           stack'[i] = IF n = 2 /\ Suspended THEN Frame("main", "suspend", "locking") ELSE stack[i]
  BY ReturnEffect, TopFrame DEF ProcessesInv
<1>2. CASE n = 2 /\ Suspended
  <2>1. Len(stack') = 1 /\ stack'[1].at = "suspend"
    BY <1>1, <1>2 DEF Frame
  <2>2. "SIGCHLD" \in shield
    BY <1>2 DEF ShieldInv, Suspended
  <2>3. QED
    BY <2>1, <2>2 DEF ShieldInv
<1>3. CASE ~(n = 2 /\ Suspended)
  <2>1. 1 \in 1 .. n - 1 /\ \A i \in 2 .. n - 1 : i \in 2 .. n /\ i \in 1 .. n - 1
    BY <1>1
  <2>2. \A i \in 1 .. n - 1 : stack'[i] = stack[i]
    BY <1>1, <1>3
  <2>3. QED
    BY <1>1, <2>1, <2>2 DEF ShieldInv, Suspended
<1>4. QED
  BY <1>2, <1>3

LEMMA DeliverShield == ASSUME ProcessesInv, ShieldInv, Deliver PROVE ShieldInv'
<1>1. PICK s \in pending \ Blocked :
        /\ pending' = pending \ {s}
        /\ IF s \in HasHandler
             THEN stack' = Append(stack, Frame(s, "handled", "locking"))
             ELSE UNCHANGED stack
        /\ UNCHANGED <<shield, worker>>
  BY DEF Deliver
<1>2. s = "SIGCHLD" => Suspended
  BY DEF ShieldInv, Blocked, Suspended
<1>3. CASE s \in HasHandler
  <2>1. /\ Len(stack') = Len(stack) + 1 /\ Len(stack) \in Nat /\ Len(stack) > 0
        /\ \A i \in 1 .. Len(stack) : stack'[i] = stack[i]
        /\ stack'[Len(stack) + 1] = Frame(s, "handled", "locking")
    BY <1>1, <1>3, PushEffect, TopFrame DEF ProcessesInv, StackInv
  <2>2. stack'[Len(stack) + 1].of = s
    BY <2>1 DEF Frame
  <2>3. /\ stack'[1] = stack[1]
        /\ \A i \in 2 .. Len(stack) + 1 :
             i = Len(stack) + 1 \/ (i \in 2 .. Len(stack) /\ stack'[i] = stack[i])
    BY <2>1
  <2>4. QED
    BY <1>1, <1>2, <2>1, <2>2, <2>3 DEF ShieldInv, Suspended
<1>4. CASE s \notin HasHandler
  BY <1>1, <1>4 DEF ShieldInv, Suspended
<1>5. QED
  BY <1>3, <1>4

LEMMA NextShieldInv ==
    ASSUME "SIGCHLD" \notin Kills, ProcessesInv, ShieldInv, [Next]_vars
    PROVE  ShieldInv'
<1>1. /\ Len(stack) \in Nat /\ 1 \in 1 .. Len(stack)
      /\ Top = stack[Len(stack)] /\ Top \in FrameRecord
      /\ Top.of # "main" \/ Top.at \in HandlerSteps => Len(stack) \in 2 .. Len(stack)
      /\ Top.of = "main" \/ Top.at \in MainSteps => Len(stack) = 1
  BY TopFrame DEF ProcessesInv
<1>2. CASE UNCHANGED vars
  BY <1>2 DEF vars, ShieldInv, Suspended
<1>3. CASE LockLog \/ WriteLog
  <2>1. PICK log \in {"writing", "done"} : Goto(Top.at, log)
    BY <1>3 DEF LockLog, WriteLog
  <2>2. UNCHANGED <<shield, pending, worker>>
    BY <1>3 DEF LockLog, WriteLog
  <2>3. Top.at \in MainSteps \cup HandlerSteps /\ log \in LogSteps
    BY <1>1 DEF FrameRecord, LogSteps
  <2>4. QED
    BY <2>1, <2>2, <2>3, GotoShield
<1>4. CASE RegisterSignals \/ AllForked \/ SetSigSuspend
  <2>1. Len(stack) = 1 /\ Top.at \in {"shield", "fork", "suspend"}
    BY <1>1, <1>4 DEF RegisterSignals, AllForked, SetSigSuspend, Runs
  <2>2. PICK at \in {"fork", "suspend", "suspended"}, log \in {"locking", "done"} : Goto(at, log)
    BY <1>4 DEF RegisterSignals, AllForked, SetSigSuspend
  <2>3. at \in MainSteps \cup HandlerSteps /\ log \in LogSteps /\ at # "shield"
    BY DEF MainSteps, LogSteps
  <2>4. Len(stack') = 1 /\ stack'[1].at = at
    BY <1>1, <2>1, <2>2, <2>3, GotoEffect DEF ProcessesInv
  <2>5. "SIGCHLD" \in shield'
    <3>1. CASE RegisterSignals
      BY <3>1, FirstSignal DEF RegisterSignals
    <3>2. CASE AllForked \/ SetSigSuspend
      <4>1. stack[1].at # "shield"
        BY <1>1, <2>1, <3>2 DEF AllForked, SetSigSuspend, Runs
      <4>2. QED
        BY <3>2, <4>1 DEF ShieldInv, AllForked, SetSigSuspend
    <3>3. QED
      BY <1>4, <3>1, <3>2
  <2>6. QED
    BY <2>3, <2>4, <2>5 DEF ShieldInv
<1>5. CASE Deliver
  BY <1>5, DeliverShield
<1>6. CASE HandlerLogged \/ ReapWorker \/ AllReaped \/ HandlerReturns
  <2>1. Top.of # "main" \/ Top.at \in HandlerSteps
    BY <1>6 DEF HandlerLogged, ReapWorker, AllReaped, HandlerReturns, HandlerSteps
  <2>2. Len(stack) > 1 /\ Len(stack) # 1
    BY <1>1, <2>1
  <2>3. /\ UNCHANGED <<shield, pending>>
        /\ \A w \in Workers : worker[w] = "none" => worker'[w] = "none"
    BY <1>6 DEF HandlerLogged, ReapWorker, AllReaped, HandlerReturns, Zombies, ProcessesInv, TypeOK
  <2>4. CASE Return /\ UNCHANGED worker
    BY <2>2, <2>3, <2>4, ReturnShield
  <2>5. CASE \E at \in {"waitpid", "return"}, log \in {"locking", "done"} : Goto(at, log)
    <3>1. PICK at \in {"waitpid", "return"}, log \in {"locking", "done"} : Goto(at, log)
      BY <2>5
    <3>2. at \in MainSteps \cup HandlerSteps /\ log \in LogSteps
      BY DEF HandlerSteps, LogSteps
    <3>3. QED
      BY <2>2, <2>3, <3>1, <3>2, GotoShield
  <2>6. QED
    BY <1>6, <2>4, <2>5 DEF HandlerLogged, ReapWorker, AllReaped, HandlerReturns
<1>7. CASE ForkWorker \/ ForkFails
  <2>1. stack[1].at = "fork"
    BY <1>1, <1>7 DEF ForkWorker, ForkFails, Runs
  <2>2. UNCHANGED <<stack, shield>>
    BY <1>7 DEF ForkWorker, ForkFails
  <2>3. QED
    BY <2>1, <2>2 DEF ShieldInv, Suspended
<1>8. CASE KillMaster
  BY <1>8 DEF KillMaster, ShieldInv, Suspended
<1>9. ASSUME NEW w \in Workers, WorkerProcessInit(w) \/ WorkerEnds(w) \/ KillWorker(w)
      PROVE  ShieldInv'
  <2>1. stack[1].at # "shield"
    BY <1>9 DEF ShieldInv, WorkerProcessInit, WorkerEnds, KillWorker
  <2>2. UNCHANGED <<stack, shield>>
    BY <1>9 DEF WorkerProcessInit, WorkerEnds, KillWorker
  <2>3. QED
    BY <2>1, <2>2 DEF ShieldInv, Suspended
<1>10. QED
  BY <1>2, <1>3, <1>4, <1>5, <1>6, <1>7, <1>8, <1>9 DEF Next, MasterStep

(* A frozen master is handling some signal besides SIGCHLD: as long as     *)
(* nobody but a worker that ends causes SIGCHLD, the ends of workers alone,*)
(* any number of them at any moment, never make CLog::Log wait for the     *)
(* mutex that a frame below it holds.                                      *)
THEOREM WorkersCannotFreezeMaster ==
    ASSUME "SIGCHLD" \notin Kills
    PROVE  Spec => []OnlyUnshieldedFreeze
<1>1. ProcessesInv /\ ShieldInv => OnlyUnshieldedFreeze
  <2> SUFFICES ASSUME ProcessesInv, ShieldInv, Frozen
      PROVE  \E i \in 2 .. Len(stack) : stack[i].of # "SIGCHLD"
    BY DEF OnlyUnshieldedFreeze
  <2>1. /\ Len(stack) \in 1 .. Len(stack) /\ Len(stack) \in Nat /\ Top = stack[Len(stack)]
    BY TopFrame DEF ProcessesInv
  <2>2. PICK i \in 1 .. Len(stack) : stack[i].log = "writing"
    BY DEF Frozen, ProcessesInv, LogInv
  <2>3. i # Len(stack)
    BY <2>1, <2>2 DEF Frozen
  <2>4. Len(stack) \in 2 .. Len(stack)
    BY <2>1, <2>3
  <2>5. CASE Top.of = "SIGCHLD"
    <3>1. stack[1].log # "writing"
      BY <2>1, <2>4, <2>5 DEF ProcessesInv, ShieldInv, StackInv
    <3>2. i \in 2 .. Len(stack)
      BY <2>1, <2>2, <3>1
    <3>3. stack[i].of # "SIGCHLD"
      BY <2>1, <2>3, <2>5 DEF ProcessesInv, StackInv
    <3>4. QED
      BY <3>2, <3>3
  <2>6. CASE Top.of # "SIGCHLD"
    BY <2>1, <2>4, <2>6
  <2>7. QED
    BY <2>5, <2>6
<1>2. ProcessesInv /\ ShieldInv /\ [Next]_vars => ShieldInv'
  BY NextShieldInv
<1>3. QED
  BY <1>1, <1>2, InitProcessesInv, NextProcessesInv, InitShieldInv, PTL DEF Spec

=============================================================================

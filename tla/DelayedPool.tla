---------------------------- MODULE DelayedPool ----------------------------
(***************************************************************************)
(* What the connection pool promises, with no list, counter, descriptor or *)
(* thread: an object is handed out, released, kept for Delay seconds and   *)
(* only then handed out again.  The pool may grow at any time.             *)
(***************************************************************************)
EXTENDS Naturals, Sequences

CONSTANT Delay

VARIABLES
    place,       \* Seq of "free", "used", "waiting"
    released,    \* Seq of the time an object in "waiting" was released
    clock

poolVars == <<place, released, clock>>

PoolInit ==
    /\ place \in Seq({"free", "used"})
    /\ released = [c \in DOMAIN place |-> 0]
    /\ clock = 0

Take(c) ==
    /\ place[c] = "free"
    /\ place' = [place EXCEPT ![c] = "used"]
    /\ UNCHANGED <<released, clock>>

Grow ==
    /\ place' = Append(place, "used")
    /\ released' = Append(released, 0)
    /\ UNCHANGED clock

Release(c) ==
    /\ place[c] = "used"
    /\ place' = [place EXCEPT ![c] = "waiting"]
    /\ released' = [released EXCEPT ![c] = clock]
    /\ UNCHANGED clock

Recycle(c) ==
    /\ place[c] = "waiting"
    /\ clock >= released[c] + Delay
    /\ place' = [place EXCEPT ![c] = "free"]
    /\ released' = [released EXCEPT ![c] = 0]
    /\ UNCHANGED clock

Tick ==
    /\ clock' = clock + 1
    /\ UNCHANGED <<place, released>>

PoolNext ==
    \/ \E c \in DOMAIN place : Take(c) \/ Release(c) \/ Recycle(c)
    \/ Grow
    \/ Tick

PoolSpec == PoolInit /\ [][PoolNext]_poolVars
=============================================================================

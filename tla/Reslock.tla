------------------------------ MODULE Reslock -------------------------------
(***************************************************************************)
(* cx_reslock_t (cx/src/reslock.c): a mutex, a condition variable, a flag  *)
(* and a counter of the users inside.  Every function locks the mutex,     *)
(* does its work and unlocks it; only wait_unused sleeps in between.       *)
(*                                                                         *)
(* There is one blocker at a time: a table's compaction, or the journal of *)
(* a memory node.                                                          *)
(***************************************************************************)
EXTENDS Naturals, FiniteSets

CONSTANTS Users,        \* threads that use the resource
          Blocker,      \* the thread that blocks it
          CounterLimit, \* 2^16: `counter` is a uint16_t
          None          \* no thread

ASSUME UsersAssumption == IsFiniteSet(Users) /\ Blocker \notin Users
ASSUME LimitAssumption ==
    CounterLimit \in Nat /\ Cardinality(Users) < CounterLimit
ASSUME NoneAssumption == None \notin Users \cup {Blocker}

VARIABLES
    mtx,        \* the thread holding the mutex, or None
    blocked,    \* _lock->blocked
    counter,    \* _lock->counter
    pc          \* thread -> where it stands

vars == <<mtx, blocked, counter, pc>>

Threads == Users \cup {Blocker}

(* cx_reslock_init: a resource may start blocked, by the one who made it.  *)
Init ==
    /\ mtx = None
    /\ blocked \in BOOLEAN
    /\ counter = 0
    /\ pc = [t \in Threads |->
                IF t = Blocker /\ blocked THEN "alone" ELSE "idle"]

(* pthread_mutex_lock at the start of a function.                          *)
Lock(t, from, to) ==
    /\ pc[t] = from /\ mtx = None
    /\ mtx' = t
    /\ pc' = [pc EXCEPT ![t] = to]
    /\ UNCHANGED <<blocked, counter>>

(* pthread_mutex_unlock at its end.                                        *)
Unlock(t, from, to) ==
    /\ pc[t] = from
    /\ mtx' = None
    /\ pc' = [pc EXCEPT ![t] = to]

-----------------------------------------------------------------------------
(* cx_reslock_avail_guard_begin                                            *)
BeginLock(u) == Lock(u, "idle", "begin")

BeginRefused(u) ==
    /\ blocked
    /\ Unlock(u, "begin", "idle")
    /\ UNCHANGED <<blocked, counter>>

(* Mutant of BeginEntered: the user is not counted.                        *)
BeginEnteredUncounted(u) ==
    /\ ~blocked
    /\ Unlock(u, "begin", "inside")
    /\ UNCHANGED <<blocked, counter>>

BeginEntered(u) ==
    /\ ~blocked
    /\ Unlock(u, "begin", "inside")
    /\ counter' = (counter + 1) % CounterLimit
    /\ UNCHANGED blocked

(* cx_reslock_avail_guard_end: the last one out wakes the blocker up.      *)
EndLock(u) == Lock(u, "inside", "end")

(* Mutant of EndBody: the last one out wakes nobody up.                    *)
EndBodySilent(u) ==
    /\ pc[u] = "end"
    /\ counter' = (counter + CounterLimit - 1) % CounterLimit
    /\ mtx' = None
    /\ pc' = [pc EXCEPT ![u] = "idle"]
    /\ UNCHANGED blocked

EndBody(u) ==
    /\ pc[u] = "end"
    /\ counter' = (counter + CounterLimit - 1) % CounterLimit
    /\ mtx' = None
    /\ pc' = [pc EXCEPT ![u] = "idle",
                        ![Blocker] = IF counter' = 0 /\ @ = "asleep"
                                     THEN "woken" ELSE @]
    /\ UNCHANGED blocked

-----------------------------------------------------------------------------
(* cx_reslock_block                                                        *)
BlockLock == Lock(Blocker, "idle", "block")

BlockBody ==
    /\ Unlock(Blocker, "block", "blocked")
    /\ blocked' = TRUE
    /\ UNCHANGED counter

(* cx_reslock_wait_unused                                                  *)
WaitLock == Lock(Blocker, "blocked", "test")

WaitSleep ==
    /\ counter > 0
    /\ Unlock(Blocker, "test", "asleep")
    /\ UNCHANGED <<blocked, counter>>

WaitDone ==
    /\ counter = 0
    /\ Unlock(Blocker, "test", "alone")
    /\ UNCHANGED <<blocked, counter>>

(* pthread_cond_wait may return without a broadcast.                       *)
WaitSpurious ==
    /\ pc[Blocker] = "asleep"
    /\ pc' = [pc EXCEPT ![Blocker] = "woken"]
    /\ UNCHANGED <<mtx, blocked, counter>>

(* Mutant of WaitRelock: the counter is not tested again (if, not while).  *)
WaitRelockOnce ==
    /\ pc[Blocker] = "woken" /\ mtx = None
    /\ pc' = [pc EXCEPT ![Blocker] = "alone"]
    /\ UNCHANGED <<mtx, blocked, counter>>

WaitRelock == Lock(Blocker, "woken", "test")

(* cx_reslock_unblock, once the blocker has done its work.                 *)
UnblockLock == Lock(Blocker, "alone", "unblock")

UnblockBody ==
    /\ Unlock(Blocker, "unblock", "idle")
    /\ blocked' = FALSE
    /\ UNCHANGED counter

-----------------------------------------------------------------------------
Leave(u) == EndLock(u) \/ EndBody(u)

Use(u) == BeginLock(u) \/ BeginRefused(u) \/ BeginEntered(u) \/ Leave(u)

Wait == WaitLock \/ WaitSleep \/ WaitDone \/ WaitRelock

Block == BlockLock \/ BlockBody \/ Wait \/ WaitSpurious \/ UnblockLock \/ UnblockBody

Next == Block \/ \E u \in Users : Use(u)

Spec == Init /\ [][Next]_vars

(* A user inside leaves and a thread with the mutex goes on; a thread that *)
(* wants the mutex gets it in the end.                                     *)
Fairness ==
    /\ SF_vars(Wait) /\ SF_vars(UnblockLock) /\ WF_vars(BlockBody \/ UnblockBody)
    /\ \A u \in Users :
          /\ SF_vars(EndLock(u)) /\ WF_vars(EndBody(u))
          /\ WF_vars(BeginRefused(u) \/ BeginEntered(u))

FairSpec == Spec /\ Fairness

-----------------------------------------------------------------------------
(* Type invariant.                                                         *)
TypeOK ==
    /\ mtx \in Threads \cup {None}
    /\ blocked \in BOOLEAN
    /\ counter \in 0 .. CounterLimit - 1
    /\ pc \in [Threads -> {"idle", "begin", "inside", "end", "block", "blocked",
                           "test", "asleep", "woken", "alone", "unblock"}]

(* The users that have been let in and are not yet out.                    *)
Inside == {u \in Users : pc[u] \in {"inside", "end"}}

(* A thread holds the mutex exactly while it is in the body of a function. *)
Locking == {"begin", "end", "block", "test", "unblock"}

MutexHeld == \A t \in Threads : pc[t] \in Locking <=> mtx = t

(* "avail_guard begin/end mismatch!" (reslock.c:56) never happens, and the *)
(* counter never wraps: it is the number of users inside.                  *)
CounterExact == counter = Cardinality(Inside)

(* When wait_unused returns nobody is inside, and nobody comes in before   *)
(* the unblock.                                                            *)
BlockerAlone ==
    pc[Blocker] \in {"alone", "unblock"} => blocked /\ Inside = {}

(* The lock keeps what its users rely on (AvailGuard).                     *)
Guard == INSTANCE AvailGuard WITH
    users <- Inside,
    alone <- pc[Blocker] \in {"alone", "unblock"}

GuardSpec == Guard!Spec

(* The blocker is never left asleep: it gets the resource for itself.      *)
WaitEnds == pc[Blocker] = "blocked" ~> pc[Blocker] = "alone"
=============================================================================

---------------------------- MODULE ThreadSemaphore ----------------------------
(***************************************************************************)
(* Thread::Semaphore, dist/Thread-Semaphore/lib/Thread/Semaphore.pm: a     *)
(* shared count, changed under lock($$sema); down() waits on it and up()   *)
(* broadcasts.  lock(), cond_wait() and the rest are those of Monitor,     *)
(* which SharedLock implements.  A call takes the lock, then runs in one   *)
(* step to its return or to its wait: the lock is held all that time.      *)
(***************************************************************************)
EXTENDS Integers

CONSTANTS
  SemThreads,
  NoHolder,
  Start,     \* the count given to new()
  Args,      \* the arguments the callers pass, good or bad
  MaxCount,  \* bound: callers do not raise the count above it
  MaxForced  \* bound: units they take by force

ASSUME SemaphoreAssumption ==
  /\ NoHolder \notin SemThreads
  /\ Start \in Int
  /\ Args \subseteq Int
  /\ MaxCount \in Nat
  /\ MaxForced \in Nat

VARIABLES
  sem_holder, sem_depth, sem_mode,
                        \* the lock and condition variable of the count
  sema,                 \* $$sema
  sem_call,             \* per thread, the method it is in, or "none"
  sem_arg,              \* per thread, its argument
  sem_expired,          \* per thread, cond_timedwait() has timed out
  forced                \* history: how much down_force() has taken

SemLock == INSTANCE Monitor WITH
             Threads <- SemThreads, None <- NoHolder,
             holder <- sem_holder, depth <- sem_depth, mode <- sem_mode

sem_lockvars == <<sem_holder, sem_depth, sem_mode>>
sem_vars ==
  <<sem_holder, sem_depth, sem_mode, sema, sem_call, sem_arg, sem_expired, forced>>

SemMethods == {"down", "down_nb", "down_force", "down_timed", "up"}

SemTypeOK ==
  /\ SemLock!TypeOK
  /\ sema \in Int
  /\ sem_call \in [SemThreads -> SemMethods \cup {"none"}]
  /\ sem_arg \in [SemThreads -> Nat \ {0}]
  /\ sem_expired \in [SemThreads -> BOOLEAN]
  /\ forced \in Nat

SemInit ==
  /\ SemLock!Init
  /\ sema = Start
  /\ sem_call = [t \in SemThreads |-> "none"]
  /\ sem_arg = [t \in SemThreads |-> 1]
  /\ sem_expired = [t \in SemThreads |-> FALSE]
  /\ forced = 0

\* Mutant: anything goes.
AnyArg(n) == TRUE

\* $validate_arg: anything else croaks, before the lock is taken.
ValidArg(n) == n >= 1

\* The callers' own bound on the count, and on what they take by force.
InBounds(m, n) ==
  /\ m = "up" => sema + n <= MaxCount
  /\ m = "down_force" => forced + n <= MaxForced

\* A method is called and gets the lock.
SemEnter(t, m, n) ==
  /\ sem_call[t] = "none"
  /\ ValidArg(n)
  /\ InBounds(m, n)
  /\ SemLock!Acquire(t)
  /\ sem_call' = [sem_call EXCEPT ![t] = m]
  /\ sem_arg' = [sem_arg EXCEPT ![t] = n]
  /\ UNCHANGED <<sem_mode, sema, sem_expired, forced>>

\* t runs the body of method m, with the lock.
SemIn(t, m) == sem_call[t] = m /\ sem_mode[t] = "run"

\* The method returns and its scope ends.
SemReturn(t) ==
  /\ SemLock!Release(t)
  /\ sem_call' = [sem_call EXCEPT ![t] = "none"]
  /\ sem_arg' = [sem_arg EXCEPT ![t] = 1]
  /\ sem_expired' = [sem_expired EXCEPT ![t] = FALSE]

\* Mutant: a positive count is taken to be enough.
DownIfPositive(t) ==
  /\ SemIn(t, "down")
  /\ \/ /\ sema > 0
        /\ sema' = sema - sem_arg[t]
        /\ SemReturn(t)
        /\ UNCHANGED sem_mode
     \/ /\ sema <= 0
        /\ SemLock!Wait(t)
        /\ UNCHANGED <<sema, sem_call, sem_arg, sem_expired>>
  /\ UNCHANGED forced

Down(t) ==
  /\ SemIn(t, "down")
  /\ \/ /\ sema >= sem_arg[t]
        /\ sema' = sema - sem_arg[t]
        /\ SemReturn(t)
        /\ UNCHANGED sem_mode
     \/ /\ sema < sem_arg[t]
        /\ SemLock!Wait(t)
        /\ UNCHANGED <<sema, sem_call, sem_arg, sem_expired>>
  /\ UNCHANGED forced

DownNb(t) ==
  /\ SemIn(t, "down_nb")
  /\ sema' = IF sema >= sem_arg[t] THEN sema - sem_arg[t] ELSE sema
  /\ SemReturn(t)
  /\ UNCHANGED <<sem_mode, forced>>

DownForce(t) ==
  /\ SemIn(t, "down_force")
  /\ sema' = sema - sem_arg[t]
  /\ forced' = forced + sem_arg[t]
  /\ SemReturn(t)
  /\ UNCHANGED sem_mode

\* Mutant: a time-out is not an end, the loop goes on.
DownTimedForever(t) ==
  /\ SemIn(t, "down_timed")
  /\ \/ /\ sema >= sem_arg[t]
        /\ sema' = sema - sem_arg[t]
        /\ SemReturn(t)
        /\ UNCHANGED sem_mode
     \/ /\ sema < sem_arg[t]
        /\ SemLock!Wait(t)
        /\ UNCHANGED <<sema, sem_call, sem_arg, sem_expired>>
  /\ UNCHANGED forced

\* When cond_timedwait() returns false the method returns, whatever the count
\* has become in the meantime.
DownTimed(t) ==
  /\ SemIn(t, "down_timed")
  /\ \/ /\ sem_expired[t]
        /\ SemReturn(t)
        /\ UNCHANGED <<sema, sem_mode>>
     \/ /\ ~sem_expired[t] /\ sema >= sem_arg[t]
        /\ sema' = sema - sem_arg[t]
        /\ SemReturn(t)
        /\ UNCHANGED sem_mode
     \/ /\ ~sem_expired[t] /\ sema < sem_arg[t]
        /\ SemLock!Wait(t)
        /\ UNCHANGED <<sema, sem_call, sem_arg, sem_expired>>
  /\ UNCHANGED forced

\* Mutant: one waiting thread is told, as if all units were asked for singly.
UpSignal(t) ==
  /\ SemIn(t, "up")
  /\ sema' = sema + sem_arg[t]
  /\ IF sema + sem_arg[t] > 0 THEN SemLock!Signal ELSE UNCHANGED sem_mode
  /\ SemReturn(t)
  /\ UNCHANGED forced

Up(t) ==
  /\ SemIn(t, "up")
  /\ sema' = sema + sem_arg[t]
  /\ IF sema + sem_arg[t] > 0 THEN SemLock!Broadcast ELSE UNCHANGED sem_mode
  /\ SemReturn(t)
  /\ UNCHANGED forced

\* cond_timedwait() reaches its time; any wait may end by itself.
SemExpire(t) ==
  /\ sem_call[t] = "down_timed"
  /\ sem_mode[t] = "waiting"
  /\ SemLock!Wake({t})
  /\ sem_expired' = [sem_expired EXCEPT ![t] = TRUE]
  /\ UNCHANGED <<sem_holder, sem_depth, sema, sem_call, sem_arg, forced>>

SemSpurious(t) ==
  /\ sem_mode[t] = "waiting"
  /\ SemLock!Wake({t})
  /\ UNCHANGED <<sem_holder, sem_depth, sema, sem_call, sem_arg, sem_expired, forced>>

\* A wait has ended and the lock is free again.
SemResume(t) ==
  /\ SemLock!Resume(t)
  /\ UNCHANGED <<sema, sem_call, sem_arg, sem_expired, forced>>

SemBody(t) == Down(t) \/ DownNb(t) \/ DownForce(t) \/ DownTimed(t) \/ Up(t)

SemStep(t) ==
  \/ \E m \in SemMethods, n \in Args : SemEnter(t, m, n)
  \/ SemBody(t)
  \/ SemExpire(t) \/ SemSpurious(t) \/ SemResume(t)

SemNext == \E t \in SemThreads : SemStep(t)

SemSpec == SemInit /\ [][SemNext]_sem_vars

\* A method that has the lock runs to its end, the deadline of a timed wait
\* comes, and a thread that wants the lock back gets it at some time.
SemFairness ==
  \A t \in SemThreads :
    /\ WF_sem_vars(SemBody(t))
    /\ SF_sem_vars(SemExpire(t))
    /\ SF_sem_vars(SemResume(t))

SemFairSpec == SemSpec /\ SemFairness

-----------------------------------------------------------------------------
(* Properties.                                                             *)

\* down(), down_nb() and down_timed() never take what is not there, however
\* many threads were woken for the same units: only down_force() can bring
\* the count below zero (Semaphore.pm, "down_force").
NeverOverdrawn == Start >= 0 => sema + forced >= 0

\* Nobody waits for units that are there: up() tells every waiting thread,
\* and tells none only when the count is not positive.
NobodyWaitsInVain ==
  \A t \in SemThreads : sem_mode[t] = "waiting" => sema < sem_arg[t]

=============================================================================

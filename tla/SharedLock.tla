------------------------------ MODULE SharedLock ------------------------------
(***************************************************************************)
(* The user-level lock of a shared variable, dist/threads-shared/          *)
(* shared.xs: a recursive lock (mutex, owner, count and the condition      *)
(* variable "cond" for threads that want it) and the condition variable    *)
(* "user_cond" for cond_wait().  cond_wait() takes the recursive lock      *)
(* apart by hand and puts it together again.                               *)
(*                                                                         *)
(* The mutex is held from MUTEX_LOCK to MUTEX_UNLOCK or COND_WAIT, so each *)
(* such stretch is one step, guarded by "the mutex is free"; the mutex is  *)
(* a variable because one path leaves it locked.                           *)
(***************************************************************************)
EXTENDS Integers, FiniteSets

CONSTANTS
  Threads,
  None,
  MaxScopes,   \* bound: lock() scopes a thread is inside at once
  BadTimeouts  \* whether cond_timedwait() is called with a time that
               \* pthread_cond_timedwait() rejects (EINVAL)

ASSUME LockAssumption ==
  /\ None \notin Threads
  /\ MaxScopes \in Nat
  /\ BadTimeouts \in BOOLEAN

VARIABLES
  mutex,     \* lock.mutex: the thread that holds it, or None
  owner,     \* lock.owner
  locks,     \* lock.locks
  lockWait,  \* threads blocked in COND_WAIT(&lock.cond)
  condWait,  \* threads blocked in COND_WAIT(&user_cond)
  saved,     \* per thread, the local variable "locks" of cond_wait()
  scopes,    \* per thread, the pending recursive_lock_release() destructors
  pc         \* where each thread is

vars == <<mutex, owner, locks, lockWait, condWait, saved, scopes, pc>>

\* "run": outside these functions; "acquire": in the loop of
\* recursive_lock_acquire(); "wait": in cond_wait(), blocked on user_cond;
\* "reacquire": in its second loop; "panic": croaked with the mutex held.
Places == {"run", "acquire", "wait", "reacquire", "panic"}

TypeOK ==
  /\ mutex \in Threads \cup {None}
  /\ owner \in Threads \cup {None}
  /\ locks \in Nat
  /\ lockWait \subseteq Threads
  /\ condWait \subseteq Threads
  /\ saved \in [Threads -> Nat]
  /\ scopes \in [Threads -> Nat]
  /\ pc \in [Threads -> Places]

Init ==
  /\ mutex = None
  /\ owner = None
  /\ locks = 0
  /\ lockWait = {}
  /\ condWait = {}
  /\ saved = [t \in Threads |-> 0]
  /\ scopes = [t \in Threads |-> 0]
  /\ pc = [t \in Threads |-> "run"]

\* COND_SIGNAL(&lock.cond).
SignalLock ==
  IF lockWait = {} THEN UNCHANGED lockWait
                   ELSE \E w \in lockWait : lockWait' = lockWait \ {w}

-----------------------------------------------------------------------------
(* lock() and the end of its scope.                                        *)

\* The loop of recursive_lock_acquire() and what follows it.
AcquireLoop(t) ==
  \/ /\ owner = None
     /\ locks' = 1
     /\ owner' = t
     /\ scopes' = [scopes EXCEPT ![t] = @ + 1]
     /\ pc' = [pc EXCEPT ![t] = "run"]
     /\ UNCHANGED <<mutex, lockWait, condWait, saved>>
  \/ /\ owner # None
     /\ lockWait' = lockWait \cup {t}
     /\ pc' = [pc EXCEPT ![t] = "acquire"]
     /\ UNCHANGED <<mutex, owner, locks, condWait, saved, scopes>>

Lock(t) ==
  /\ pc[t] = "run"
  /\ mutex = None
  /\ scopes[t] < MaxScopes
  /\ \/ /\ owner = t
        /\ locks' = locks + 1
        /\ scopes' = [scopes EXCEPT ![t] = @ + 1]
        /\ UNCHANGED <<mutex, owner, lockWait, condWait, saved, pc>>
     \/ /\ owner # t
        /\ AcquireLoop(t)

\* COND_WAIT(&lock.cond) has returned.
LockAgain(t) ==
  /\ pc[t] = "acquire"
  /\ t \notin lockWait
  /\ mutex = None
  /\ AcquireLoop(t)

\* Mutant: the lock is freed without a signal.
UnlockSilent(t) ==
  /\ pc[t] = "run"
  /\ mutex = None
  /\ scopes[t] > 0
  /\ owner = t
  /\ scopes' = [scopes EXCEPT ![t] = @ - 1]
  /\ locks' = locks - 1
  /\ owner' = IF locks = 1 THEN None ELSE t
  /\ UNCHANGED <<mutex, lockWait, condWait, saved, pc>>

\* recursive_lock_release(), at the end of a scope.
Unlock(t) ==
  /\ pc[t] = "run"
  /\ mutex = None
  /\ scopes[t] > 0
  /\ scopes' = [scopes EXCEPT ![t] = @ - 1]
  /\ \/ /\ owner = t /\ locks = 1
        /\ locks' = 0
        /\ owner' = None
        /\ SignalLock
     \/ /\ owner = t /\ locks # 1
        /\ locks' = locks - 1
        /\ UNCHANGED <<owner, lockWait>>
     \/ /\ owner # t
        /\ UNCHANGED <<owner, locks, lockWait>>
  /\ UNCHANGED <<mutex, condWait, saved, pc>>

-----------------------------------------------------------------------------
(* cond_wait(), cond_timedwait(), cond_signal(), cond_broadcast().         *)

\* Mutant: the lock is freed for the wait without a signal.
CondWaitSilent(t) ==
  /\ pc[t] = "run"
  /\ mutex = None
  /\ owner = t
  /\ owner' = None
  /\ saved' = [saved EXCEPT ![t] = locks]
  /\ locks' = 0
  /\ condWait' = condWait \cup {t}
  /\ pc' = [pc EXCEPT ![t] = "wait"]
  /\ UNCHANGED <<mutex, lockWait, scopes>>

\* Mutant: nested scopes are forgotten by the wait.
CondWaitOneScope(t) ==
  /\ pc[t] = "run"
  /\ mutex = None
  /\ owner = t
  /\ owner' = None
  /\ saved' = [saved EXCEPT ![t] = 1]
  /\ locks' = 0
  /\ SignalLock
  /\ condWait' = condWait \cup {t}
  /\ pc' = [pc EXCEPT ![t] = "wait"]
  /\ UNCHANGED <<mutex, scopes>>

\* cond_wait() and cond_timedwait() up to the wait; without the lock they
\* croak and change nothing.
CondWait(t) ==
  /\ pc[t] = "run"
  /\ mutex = None
  /\ owner = t
  /\ owner' = None
  /\ saved' = [saved EXCEPT ![t] = locks]
  /\ locks' = 0
  /\ SignalLock
  /\ condWait' = condWait \cup {t}
  /\ pc' = [pc EXCEPT ![t] = "wait"]
  /\ UNCHANGED <<mutex, scopes>>

\* The threads in S leave the wait on user_cond, signalled or timed out.
WakeWaiters(S) ==
  /\ condWait' = condWait \ S
  /\ pc' = [t \in Threads |-> IF t \in S THEN "reacquire" ELSE pc[t]]
  /\ UNCHANGED <<mutex, owner, locks, lockWait, saved, scopes>>

\* The second loop of cond_wait() and what follows it.
Reacquire(t) ==
  /\ pc[t] = "reacquire"
  /\ t \notin lockWait
  /\ mutex = None
  /\ \/ /\ owner = None
        /\ owner' = t
        /\ locks' = saved[t]
        /\ pc' = [pc EXCEPT ![t] = "run"]
        /\ UNCHANGED lockWait
     \/ /\ owner # None
        /\ lockWait' = lockWait \cup {t}
        /\ UNCHANGED <<owner, locks, pc>>
  /\ UNCHANGED <<mutex, condWait, saved, scopes>>

CondSignal(t) ==
  /\ pc[t] = "run"
  /\ \E w \in condWait : WakeWaiters({w})

CondBroadcast(t) ==
  /\ pc[t] = "run"
  /\ condWait # {}
  /\ WakeWaiters(condWait)

\* pthread_cond_timedwait() reaches its time, or either wait ends by itself.
Timeout(t) ==
  /\ t \in condWait
  /\ WakeWaiters({t})

SpuriousWakeup(t) ==
  /\ t \in lockWait
  /\ lockWait' = lockWait \ {t}
  /\ UNCHANGED <<mutex, owner, locks, condWait, saved, scopes, pc>>

\* cond_timedwait() with a time pthread_cond_timedwait() rejects: croak()
\* from the middle, the mutex still locked.  The scope then ends in
\* recursive_lock_release(), which waits for that mutex for ever.
TimedwaitPanic(t) ==
  /\ BadTimeouts
  /\ pc[t] = "run"
  /\ mutex = None
  /\ owner = t
  /\ mutex' = t
  /\ owner' = None
  /\ saved' = [saved EXCEPT ![t] = locks]
  /\ locks' = 0
  /\ SignalLock
  /\ pc' = [pc EXCEPT ![t] = "panic"]
  /\ UNCHANGED <<condWait, scopes>>

-----------------------------------------------------------------------------

Step(t) ==
  \/ Lock(t) \/ LockAgain(t) \/ Unlock(t)
  \/ CondWait(t) \/ Reacquire(t)
  \/ CondSignal(t) \/ CondBroadcast(t)
  \/ Timeout(t) \/ SpuriousWakeup(t) \/ TimedwaitPanic(t)

Next == \E t \in Threads : Step(t)

Spec == Init /\ [][Next]_vars

\* A thread that the operating system has made runnable takes the mutex when
\* it stays free.  Nothing is assumed of how long locks are held.
Fairness ==
  \A t \in Threads :
    /\ WF_vars(LockAgain(t))
    /\ WF_vars(Reacquire(t))

FairSpec == Spec /\ Fairness

-----------------------------------------------------------------------------
(* Properties.                                                             *)

\* What threads::shared promises.  To its callers, a thread stuck in a panic
\* is one whose wait never ends.
AbstractMode(t) ==
  CASE pc[t] \in {"wait", "panic"} -> "waiting"
    [] pc[t] = "reacquire"         -> "resuming"
    [] OTHER                       -> "run"

M == INSTANCE Monitor WITH
       holder <- owner,
       depth  <- scopes,
       mode   <- [t \in Threads |-> AbstractMode(t)]

\* The lock behaves as shared.pm says: nested scopes, a wait that gives up
\* all of them at once and returns with all of them, and no release that the
\* thread is not entitled to, across the hand-made release and re-acquisition
\* in cond_wait().
ImplementsMonitor == M!Spec

\* One thread at a time is inside scopes of the lock; every other thread that
\* has entered one is in cond_wait().
MutualExclusion ==
  \A t, u \in Threads :
    /\ scopes[t] > 0 /\ pc[t] \notin {"wait", "reacquire"}
    /\ scopes[u] > 0 /\ pc[u] \notin {"wait", "reacquire"}
    => t = u

\* The count is the number of scopes the owner will leave, so the last one of
\* them, and no earlier one, frees the lock; and it survives a wait.
CountIsScopes ==
  /\ owner # None => locks = scopes[owner] /\ locks > 0
  /\ \A t \in Threads : pc[t] \in {"wait", "reacquire"} => saved[t] = scopes[t]

Contenders == {t \in Threads : pc[t] \in {"acquire", "reacquire"}}

\* One condition variable serves threads that enter lock() and threads that
\* come back from cond_wait(), and a third may take the lock before the one
\* that was signalled.  Nobody is forgotten: while the lock is free and
\* threads wait for it, one of them is awake and will look again.
NoLostWakeup ==
  owner = None /\ lockWait # {} => \E t \in Contenders : t \notin lockWait

\* lock() blocks "until it's available" (lib/threads/shared.pm): a lock that
\* nobody holds and somebody wants is taken, unless a thread has croaked with
\* the mutex locked.
FreeLockIsTaken ==
  (owner = None /\ Contenders # {}) ~> (owner # None \/ mutex # None)

=============================================================================

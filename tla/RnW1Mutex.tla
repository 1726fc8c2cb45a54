------------------------------ MODULE RnW1Mutex ------------------------------
(***************************************************************************)
(* The many-readers/one-writer lock that thread.h builds out of one mutex, *)
(* one condition variable and a counter (perl_RnW1_mutex_t).  Perl uses it *)
(* for the process environment: getenv() takes the read side, putenv() and *)
(* the time functions that call tzset() take the write side.               *)
(*                                                                         *)
(* A reader holds the mutex only while it changes the counter.  A writer   *)
(* keeps the mutex for its whole critical section, so the mutex is a       *)
(* variable of its own here and every step that needs it is guarded by it. *)
(* A macro body that takes and releases the mutex without waiting is one   *)
(* step: nothing outside the mutex reads what it changes.                  *)
(***************************************************************************)
EXTENDS Integers, FiniteSets

CONSTANTS
  RWThreads,   \* the interpreter threads that use the lock
  NoHolder       \* the mutex has no holder

ASSUME ThreadsAssumption ==
  /\ IsFiniteSet(RWThreads)
  /\ NoHolder \notin RWThreads

VARIABLES
  lock,          \* the thread that holds (mutex)->lock, or NoHolder
  readers_count, \* (mutex)->readers_count
  wakeup,        \* the threads blocked in COND_WAIT(&(mutex)->wakeup, ..)
  at             \* where each thread is

rw_vars == <<lock, readers_count, wakeup, at>>

\* "idle": outside; "reading", "writing": inside a critical section;
\* "waiting": in COND_WAIT; "woken": out of it, about to retake the mutex.
RWPlaces == {"idle", "reading", "writing", "waiting", "woken"}

RWTypeOK ==
  /\ lock \in RWThreads \cup {NoHolder}
  /\ readers_count \in Nat
  /\ wakeup \in SUBSET RWThreads
  /\ at \in [RWThreads -> RWPlaces]

RWInit ==
  /\ lock = NoHolder
  /\ readers_count = 0
  /\ wakeup = {}
  /\ at = [t \in RWThreads |-> "idle"]

\* COND_SIGNAL: at least one of the threads blocked on the condition
\* variable, if there is one, leaves COND_WAIT and competes for the mutex.
\* pcNext is the program counter with the caller's own move already made.
Signal(pcNext) ==
  \/ /\ wakeup = {}
     /\ at' = pcNext
     /\ UNCHANGED wakeup
  \/ \E w \in wakeup :
       /\ wakeup' = wakeup \ {w}
       /\ at' = [pcNext EXCEPT ![w] = "woken"]

ReadLock(t) ==
  /\ at[t] = "idle"
  /\ lock = NoHolder
  /\ readers_count' = readers_count + 1
  /\ at' = [at EXCEPT ![t] = "reading"]
  /\ UNCHANGED <<lock, wakeup>>

\* Mutant: an unlock on a path that never locked, not clamped at zero.
ReadUnlockUnbalanced(t) ==
  /\ at[t] \in {"idle", "reading"}
  /\ lock = NoHolder
  /\ readers_count' = readers_count - 1
  /\ Signal([at EXCEPT ![t] = "idle"])
  /\ UNCHANGED lock

ReadUnlock(t) ==
  /\ at[t] = "reading"
  /\ lock = NoHolder
  /\ IF readers_count - 1 <= 0
       THEN /\ readers_count' = 0
            /\ Signal([at EXCEPT ![t] = "idle"])
       ELSE /\ readers_count' = readers_count - 1
            /\ at' = [at EXCEPT ![t] = "idle"]
            /\ UNCHANGED wakeup
  /\ UNCHANGED lock

\* The loop of PERL_WRITE_LOCK, entered with the mutex free: either there is
\* no reader and the writer keeps the mutex, or it waits.
WriteLockLoop(t) ==
  \/ /\ readers_count <= 0
     /\ readers_count' = 0
     /\ lock' = t
     /\ at' = [at EXCEPT ![t] = "writing"]
     /\ UNCHANGED wakeup
  \/ /\ readers_count > 0
     /\ wakeup' = wakeup \cup {t}
     /\ at' = [at EXCEPT ![t] = "waiting"]
     /\ UNCHANGED <<lock, readers_count>>

\* Mutant: a new writer does not look at the readers inside.
WriteLockBlind(t) ==
  /\ at[t] = "idle"
  /\ lock = NoHolder
  /\ lock' = t
  /\ at' = [at EXCEPT ![t] = "writing"]
  /\ UNCHANGED <<readers_count, wakeup>>

WriteLock(t) ==
  /\ at[t] = "idle"
  /\ lock = NoHolder
  /\ WriteLockLoop(t)

\* COND_WAIT returns with the mutex retaken, and the loop tests again.
WriteRelock(t) ==
  /\ at[t] = "woken"
  /\ lock = NoHolder
  /\ WriteLockLoop(t)

\* Mutant: the writer leaves without a signal.
WriteUnlockSilent(t) ==
  /\ at[t] = "writing"
  /\ lock' = NoHolder
  /\ at' = [at EXCEPT ![t] = "idle"]
  /\ UNCHANGED <<readers_count, wakeup>>

WriteUnlock(t) ==
  /\ at[t] = "writing"
  /\ lock' = NoHolder
  /\ Signal([at EXCEPT ![t] = "idle"])
  /\ UNCHANGED readers_count

\* pthread_cond_wait() may return without a signal.
RWSpuriousWakeup(t) ==
  /\ t \in wakeup
  /\ wakeup' = wakeup \ {t}
  /\ at' = [at EXCEPT ![t] = "woken"]
  /\ UNCHANGED <<lock, readers_count>>

RWStep(t) ==
  \/ ReadLock(t)
  \/ ReadUnlock(t)
  \/ WriteLock(t)
  \/ WriteRelock(t)
  \/ WriteUnlock(t)
  \/ RWSpuriousWakeup(t)

RWNext == \E t \in RWThreads : RWStep(t)

RWSpec == RWInit /\ [][RWNext]_rw_vars

\* A thread inside a critical section leaves it, and the mutex is handed to a
\* thread that keeps asking for it.  Nobody is made to enter, and nothing is
\* assumed of spurious wake-ups.
RWFairness ==
  \A t \in RWThreads :
    /\ SF_rw_vars(ReadUnlock(t) \/ WriteRelock(t))
    /\ WF_rw_vars(WriteUnlock(t))

RWFairSpec == RWSpec /\ RWFairness

-----------------------------------------------------------------------------

Readers == {t \in RWThreads : at[t] = "reading"}
Writers == {t \in RWThreads : at[t] = "writing"}

\* A thread that changes the environment is alone: no other writer and no
\* reader is inside (the promise of the comment above PERL_READ_LOCK).
WriterExcludesAll ==
  \A t \in Writers : Readers = {} /\ Writers = {t}

\* The counter is the number of readers, so the two places that reset a
\* count below zero to zero never have anything to repair and the asserts
\* next to them hold.
CountIsReaders == readers_count = Cardinality(Readers)

\* A blocked writer is never forgotten: as long as a thread sits in
\* COND_WAIT, some thread is still to signal it (a reader inside, or the
\* writer that holds the mutex) or one is already on its way to the mutex.
NoWriterForgotten ==
  wakeup # {} => \/ Readers # {}
                 \/ Writers # {}
                 \/ \E t \in RWThreads : at[t] = "woken"

\* A writer that waits gets in, provided that readers stop arriving: the
\* lock lets a reader in while writers wait, so nothing better holds.
WriterGetsIn ==
  (<>[][\A t \in RWThreads : ~ReadLock(t)]_rw_vars)
    => \A t \in RWThreads : (at[t] = "waiting") ~> (at[t] = "writing")

=============================================================================

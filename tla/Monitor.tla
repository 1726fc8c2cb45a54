-------------------------------- MODULE Monitor --------------------------------
(***************************************************************************)
(* What threads::shared promises of lock(), cond_wait(), cond_signal() and *)
(* cond_broadcast() on one shared variable (lib/threads/shared.pm): a lock *)
(* that one thread holds at a time, through as many nested scopes as it    *)
(* has entered; a wait that gives the lock up at once and entirely, and    *)
(* gets it back, with every scope, before it returns.                      *)
(*                                                                         *)
(* SharedLock.tla is the implementation; ThreadQueue.tla and               *)
(* ThreadSemaphore.tla are clients.                                        *)
(***************************************************************************)
EXTENDS Naturals

CONSTANTS
  Threads,
  None

VARIABLES
  holder,  \* the thread that has the variable locked, or None
  depth,   \* per thread, the lock() scopes it is inside
  mode     \* per thread: running, in cond_wait(), or on its way out of it

monitor == <<holder, depth, mode>>

TypeOK ==
  /\ holder \in Threads \cup {None}
  /\ depth \in [Threads -> Nat]
  /\ mode \in [Threads -> {"run", "waiting", "resuming"}]

Init ==
  /\ holder = None
  /\ depth = [t \in Threads |-> 0]
  /\ mode = [t \in Threads |-> "run"]

-----------------------------------------------------------------------------
(* The lock: these change holder and depth only.                           *)

Acquire(t) ==
  /\ mode[t] = "run"
  /\ holder \in {None, t}
  /\ holder' = t
  /\ depth' = [depth EXCEPT ![t] = @ + 1]

Release(t) ==
  /\ mode[t] = "run"
  /\ holder = t
  /\ depth' = [depth EXCEPT ![t] = @ - 1]
  /\ holder' = IF depth[t] = 1 THEN None ELSE t

-----------------------------------------------------------------------------
(* The condition variable.                                                 *)

Waiting == {t \in Threads : mode[t] = "waiting"}

\* cond_wait(): the scopes stay entered, the lock is gone.
Wait(t) ==
  /\ mode[t] = "run"
  /\ holder = t
  /\ holder' = None
  /\ mode' = [mode EXCEPT ![t] = "waiting"]
  /\ UNCHANGED depth

\* Some waiting threads are unblocked.
Wake(S) ==
  /\ S \subseteq Waiting
  /\ mode' = [t \in Threads |-> IF t \in S THEN "resuming" ELSE mode[t]]

Signal == IF Waiting = {} THEN UNCHANGED mode ELSE \E t \in Waiting : Wake({t})
Broadcast == Wake(Waiting)

Resume(t) ==
  /\ mode[t] = "resuming"
  /\ holder = None
  /\ holder' = t
  /\ mode' = [mode EXCEPT ![t] = "run"]
  /\ UNCHANGED depth

-----------------------------------------------------------------------------

\* A waiting thread may be unblocked at any time: by a signal (which the
\* manual does not make depend on holding the lock), a timeout, or nothing.
Next ==
  \/ \E t \in Threads :
       \/ Acquire(t) /\ UNCHANGED mode
       \/ Release(t) /\ UNCHANGED mode
       \/ Wait(t)
       \/ Resume(t)
  \/ \E S \in SUBSET Threads : Wake(S) /\ UNCHANGED <<holder, depth>>

Spec == Init /\ [][Next]_monitor

\* Only the holder runs inside a scope of its own: every other thread that
\* has entered one is in cond_wait(), or on its way out of it.
OneInside ==
  \A t \in Threads : depth[t] > 0 /\ mode[t] = "run" => holder = t

\* A thread never holds the lock without a scope that will give it back.
HeldIsScoped ==
  holder # None => depth[holder] > 0 /\ mode[holder] = "run"

=============================================================================

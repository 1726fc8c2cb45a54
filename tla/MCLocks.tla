-------------------------------- MODULE MCLocks --------------------------------
(* Model-checking the environment lock, the lock of a shared variable and the *)
(* deferred signals: one is used, the others rest.  What fairness asks for    *)
(* can be done only by a thread that has entered a lock, or when a signal has *)
(* come, so that it asks nothing of one that rests.                           *)
EXTENDS RnW1Mutex, SharedLock, SafeSignals

VARIABLE used

MCInit ==
  /\ used \in {"RnW1Mutex", "SharedLock", "SafeSignals"}
  /\ RWInit /\ Init /\ SigInit

MCNext ==
  \/ used = "RnW1Mutex" /\ RWNext /\ UNCHANGED <<used, vars, sig_vars>>
  \/ used = "SharedLock" /\ Next /\ UNCHANGED <<used, rw_vars, sig_vars>>
  \/ used = "SafeSignals" /\ SigNext /\ UNCHANGED <<used, rw_vars, vars>>

mc_vars == <<used, rw_vars, vars, sig_vars>>

\* Only one of the three.
Rw(A) == A /\ UNCHANGED <<used, vars, sig_vars>>
Shared(A) == A /\ UNCHANGED <<used, rw_vars, sig_vars>>
Sig(A) == A /\ UNCHANGED <<used, rw_vars, vars>>

\* RWFairness, Fairness and SigFairness.  As those that rest can do nothing of
\* it, one condition can stand for two: opcode boundaries share theirs with the
\* first thread (TLC's effort doubles with every SF).
First == CHOOSE t \in RWThreads : TRUE

MCFairness ==
  /\ \A t \in RWThreads :
       /\ SF_mc_vars(\/ Rw(ReadUnlock(t) \/ WriteRelock(t))
                     \/ t = First /\ Sig(AsyncCheck))
       /\ WF_mc_vars(Rw(WriteUnlock(t)))
  /\ \A t \in Threads :
       /\ WF_mc_vars(Shared(LockAgain(t)))
       /\ WF_mc_vars(Shared(Reacquire(t)))
  /\ SF_mc_vars(Sig(HandlerReturn))
  /\ WF_mc_vars(Sig(Despatch))
  /\ WF_mc_vars(Sig(SetSig))

MCSpec == MCInit /\ [][MCNext]_mc_vars /\ MCFairness

\* The variables of both locks and of the signals keep their types.
TypesOK == RWTypeOK /\ TypeOK /\ SigTypeOK

\* Who asks for either lock gets it, if those inside leave it and, for the
\* writers of the first, readers stop arriving.
WaitersGetIn == WriterGetsIn /\ FreeLockIsTaken

=============================================================================

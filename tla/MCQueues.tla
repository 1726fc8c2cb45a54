-------------------------------- MODULE MCQueues --------------------------------
(* Model-checking Thread::Queue and Thread::Semaphore: one is used, the other *)
(* rests.  The queue is used in *)
(* one of two ways.  Without a limit: one producer and two consumers that     *)
(* take single items.  With a limit: one producer and one consumer, every     *)
(* method, positions on both sides of the head and the tail, and a limit that *)
(* may be lowered.                                                            *)
EXTENDS ThreadQueue, ThreadSemaphore

CONSTANT OtherConsumers  \* those there are only if there is no limit

VARIABLE used

MCIndices == {-3, -1, 0, 1}

MCInit ==
  /\ Init /\ SemInit
  /\ used \in IF LIMIT = 0 THEN {"queue", "semaphore"} ELSE {"limited queue"}

SingleItems(t) ==
  /\ call'[t] \notin {"insert", "extract"} /\ arg'[t].n \in Sizes
  /\ call'[t] \in Taking => arg'[t].n = 1
  /\ LIMIT' = LIMIT

MCNext ==
  \/ /\ used = "queue"
     /\ \E t \in Threads : Step(t) /\ SingleItems(t)
     /\ UNCHANGED <<used, sem_vars>>
  \/ /\ used = "limited queue"
     /\ \E t \in Threads \ OtherConsumers : Step(t)
     /\ UNCHANGED <<used, sem_vars>>
  \/ used = "semaphore" /\ SemNext /\ UNCHANGED <<used, vars>>

mc_vars == <<used, vars, sem_vars>>

\* Fairness and SemFairness.  What they ask for can be done only by a thread
\* that is in a method, so that nothing is asked of the one that rests, and one
\* condition can stand for that of either.
Either(A, B) ==
  \/ A /\ UNCHANGED <<used, sem_vars>>
  \/ B /\ UNCHANGED <<used, vars>>

MCFairness ==
  \A t \in Threads :
    /\ WF_mc_vars(Either(Body(t), SemBody(t)))
    /\ SF_mc_vars(Either(Expire(t), SemExpire(t)))
    /\ SF_mc_vars(Either(Resume(t), SemResume(t)))

MCSpec == MCInit /\ [][MCNext]_mc_vars /\ MCFairness

\* The variables of the queue and of the semaphore keep their types.
TypesOK == TypeOK /\ SemTypeOK

\* Fifo of a queue on which insert() and extract() are not used.
PlainFifo == used = "queue" => Fifo

\* "All threads blocking on dequeue() calls will be unblocked" (Queue.pm,
\* end): although end() signals once, each of them returns.  With a limit the
\* signal may go to a producer that finds no room.
Unblocked(t) == used = "queue" /\ ENDED /\ call[t] \in {"dequeue_wait", "timed_wait"}

\* Those calls return that must: the ones that end() unblocks, and down_timed().
CallsReturn ==
  \A t \in Threads :
    (Unblocked(t) \/ sem_call[t] = "down_timed")
      ~> (call[t] = "none" /\ sem_call[t] = "none")

=============================================================================

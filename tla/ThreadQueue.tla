------------------------------ MODULE ThreadQueue ------------------------------
(***************************************************************************)
(* Thread::Queue, dist/Thread-Queue/lib/Thread/Queue.pm: a shared list, an *)
(* optional size limit and an "ended" flag, all under the lock of one      *)
(* shared hash, and that hash's one condition variable for everybody that  *)
(* waits: enqueue() for room, dequeue() and dequeue_timed() for items.     *)
(* Every method that changes something signals one waiting thread.         *)
(*                                                                         *)
(* lock(), cond_wait() and cond_signal() are those of Monitor, which       *)
(* SharedLock implements.  A call takes the lock, then runs in one step to *)
(* its return or to its wait: the lock is held all that time.  pending()   *)
(* and peek() change nothing and are left out.                             *)
(***************************************************************************)
EXTENDS Integers, Sequences, FiniteSetsExt

CONSTANTS
  Producers, Consumers,  \* the threads that add, and those that take
  None,
  Methods,               \* the methods they call
  Sizes,                 \* how many items enqueue() and insert() are given
  Counts,                \* the counts given to the dequeue methods, extract()
  Indices,               \* the positions given to insert() and extract()
  StartLimits,           \* the limits set before the threads start; 0: none
  Limits,                \* the limits set later
  MaxItems               \* bound: items given to enqueue() and insert()

Threads == Producers \cup Consumers

ASSUME QueueAssumption ==
  /\ None \notin Threads
  /\ Sizes \subseteq Nat \ {0}
  /\ Counts \subseteq Int
  /\ Indices \subseteq Int
  /\ StartLimits \subseteq Nat
  /\ Limits \subseteq Nat
  /\ MaxItems \in Nat

VARIABLES
  holder, depth, mode,  \* the lock and condition variable of %$self
  queue,                \* @{$$self{queue}}: items are numbered as they come
  LIMIT,                \* $$self{LIMIT}, 0 for undef
  ENDED,                \* $$self{ENDED}
  call,                 \* per thread, the method it is in, or "none"
  arg,                  \* per thread, its arguments
  expired,              \* per thread, cond_timedwait() has timed out
  offered,              \* items given to calls so far (bounded by MaxItems)
  added,                \* history: items put on the queue so far
  taken                 \* history: the items handed out, in order

M == INSTANCE Monitor

lockvars == <<holder, depth, mode>>
history == <<offered, added, taken>>
vars == <<holder, depth, mode, queue, LIMIT, ENDED, call, arg, expired,
          offered, added, taken>>

Adding == {"enqueue", "insert"}
Taking == {"dequeue", "dequeue_nb", "dequeue_timed", "extract"}
\* The "_wait" places are the methods' loops around cond_wait().
Loops == {"enqueue_wait", "dequeue_wait", "timed_wait"}
Places == Adding \cup Taking \cup Loops \cup {"end", "none"}

NoArgs == [n |-> 1, index |-> 0]

TypeOK ==
  /\ M!TypeOK
  /\ queue \in Seq(1 .. MaxItems)
  /\ LIMIT \in Nat
  /\ ENDED \in BOOLEAN
  /\ call \in [Threads -> Places]
  /\ arg \in [Threads -> [n : Int, index : Int]]
  /\ expired \in [Threads -> BOOLEAN]
  /\ offered \in 0 .. MaxItems
  /\ added \in 0 .. MaxItems
  /\ taken \in Seq(1 .. MaxItems)

Init ==
  /\ M!Init
  /\ queue = <<>>
  /\ LIMIT \in StartLimits
  /\ ENDED = FALSE
  /\ call = [t \in Threads |-> "none"]
  /\ arg = [t \in Threads |-> NoArgs]
  /\ expired = [t \in Threads |-> FALSE]
  /\ offered = 0
  /\ added = 0
  /\ taken = <<>>

-----------------------------------------------------------------------------
(* Calls.                                                                  *)

\* A method is called and gets the lock.
Enter(t, m, n, index) ==
  /\ call[t] = "none"
  /\ m \in Methods
  /\ M!Acquire(t)
  /\ call' = [call EXCEPT ![t] = m]
  /\ arg' = [arg EXCEPT ![t] = [n |-> n, index |-> index]]
  /\ UNCHANGED <<mode, queue, LIMIT, ENDED, expired, added, taken>>

EnterAdding(t) ==
  /\ t \in Producers
  /\ \E n \in Sizes :
       /\ offered + n <= MaxItems
       /\ offered' = offered + n
       /\ \/ Enter(t, "enqueue", n, 0)
          \/ \E i \in Indices : Enter(t, "insert", n, i)

EnterTaking(t) ==
  /\ t \in Consumers
  /\ \E n \in Counts :
       \/ \E m \in Taking \ {"extract"} : Enter(t, m, n, 0)
       \/ \E i \in Indices : Enter(t, "extract", n, i)
  /\ UNCHANGED offered

EnterEnd(t) ==
  /\ t \in Producers
  /\ Enter(t, "end", 1, 0)
  /\ UNCHANGED offered

\* t runs the body of method m, with the lock.
In(t, m) == call[t] = m /\ mode[t] = "run"

\* The method returns, or croaks, and its scope ends.
Return(t) ==
  /\ M!Release(t)
  /\ call' = [call EXCEPT ![t] = "none"]
  /\ arg' = [arg EXCEPT ![t] = NoArgs]
  /\ expired' = [expired EXCEPT ![t] = FALSE]

ReturnNothing(t) ==
  /\ Return(t)
  /\ UNCHANGED <<mode, queue, LIMIT, ENDED, history>>

\* cond_wait() or cond_timedwait(), from place p of the method.
WaitAt(t, p) ==
  /\ M!Wait(t)
  /\ call' = [call EXCEPT ![t] = p]
  /\ UNCHANGED <<queue, LIMIT, ENDED, arg, expired, history>>

\* The list is changed, one waiting thread is told, and the method returns.
Change(t, newQueue, newlyTaken, nAdded) ==
  /\ queue' = newQueue
  /\ taken' = taken \o newlyTaken
  /\ added' = added + nAdded
  /\ M!Signal
  /\ Return(t)
  /\ UNCHANGED <<LIMIT, ENDED, offered>>

NewItems(n) == [i \in 1 .. n |-> added + i]

-----------------------------------------------------------------------------
(* Adding.                                                                 *)

\* Mutant: items are put on the wrong end.
EnqueueLoopHead(t) ==
  IF LIMIT # 0 /\ Len(queue) >= LIMIT
    THEN WaitAt(t, "enqueue_wait")
    ELSE Change(t, NewItems(arg[t].n) \o queue, <<>>, arg[t].n)

EnqueueLoop(t) ==
  IF LIMIT # 0 /\ Len(queue) >= LIMIT
    THEN WaitAt(t, "enqueue_wait")
    ELSE Change(t, queue \o NewItems(arg[t].n), <<>>, arg[t].n)

Enqueue(t) ==
  /\ In(t, "enqueue")
  /\ IF ENDED THEN ReturnNothing(t) ELSE EnqueueLoop(t)

EnqueueAgain(t) ==
  /\ In(t, "enqueue_wait")
  /\ EnqueueLoop(t)

\* A negative position counts from the tail, and stops at the head.
InsertPosition(index) ==
  IF index >= 0 THEN Min({index, Len(queue)}) ELSE Max({index + Len(queue), 0})

Insert(t) ==
  /\ In(t, "insert")
  /\ IF ENDED
       THEN ReturnNothing(t)
       ELSE LET i == InsertPosition(arg[t].index)
            IN  Change(t,
                       SubSeq(queue, 1, i) \o NewItems(arg[t].n)
                         \o SubSeq(queue, i + 1, Len(queue)),
                       <<>>, arg[t].n)

\* Mutant: the queue ends and nobody is told.
EndSilent(t) ==
  /\ In(t, "end")
  /\ ENDED' = TRUE
  /\ Return(t)
  /\ UNCHANGED <<mode, queue, LIMIT, history>>

End(t) ==
  /\ In(t, "end")
  /\ ENDED' = TRUE
  /\ M!Signal
  /\ Return(t)
  /\ UNCHANGED <<queue, LIMIT, history>>

\* $q->limit = l: limit() returns the element as an lvalue and its lock ends;
\* the assignment is made after that, and nobody is told.
SetLimit(t, l) ==
  /\ t \in Producers
  /\ "limit" \in Methods
  /\ call[t] = "none"
  /\ LIMIT' = l
  /\ UNCHANGED <<lockvars, queue, ENDED, call, arg, expired, history>>

-----------------------------------------------------------------------------
(* Taking.                                                                 *)

\* _validate_count(): anything else croaks.
ValidCount(n) == n >= 1 /\ (LIMIT # 0 => n <= LIMIT)

\* Mutant: items are shifted off without a look at how many there are.
TakeBlind(t, n) ==
  Change(t, SubSeq(queue, n + 1, Len(queue)),
         [i \in 1 .. n |-> IF i <= Len(queue) THEN queue[i] ELSE 0], 0)

\* Mutant: items are taken and nobody is told.
TakeSilent(t, n) ==
  LET k == Min({n, Len(queue)})
  IN  /\ queue' = SubSeq(queue, k + 1, Len(queue))
      /\ taken' = taken \o SubSeq(queue, 1, k)
      /\ Return(t)
      /\ UNCHANGED <<mode, LIMIT, ENDED, offered, added>>

Take(t, n) ==
  LET k == Min({n, Len(queue)})
  IN  Change(t, SubSeq(queue, k + 1, Len(queue)), SubSeq(queue, 1, k), 0)

\* dequeue_nb(), called by a user or by another method.
DequeueNbOf(t, n) ==
  IF ValidCount(n) THEN Take(t, n) ELSE ReturnNothing(t)

DequeueNb(t) ==
  /\ In(t, "dequeue_nb")
  /\ DequeueNbOf(t, arg[t].n)

DequeueLoop(t) ==
  LET n == arg[t].n IN
    CASE Len(queue) < n /\ ~ENDED -> WaitAt(t, "dequeue_wait")
      [] ENDED                    -> DequeueNbOf(t, n)
      [] OTHER                    -> Take(t, n)

Dequeue(t) ==
  /\ In(t, "dequeue")
  /\ IF ValidCount(arg[t].n) THEN DequeueLoop(t) ELSE ReturnNothing(t)

DequeueAgain(t) ==
  /\ In(t, "dequeue_wait")
  /\ DequeueLoop(t)

\* Ends when the items are there, the queue has ended or the time is up, and
\* takes what there is.
TimedLoop(t) ==
  IF Len(queue) < arg[t].n /\ ~ENDED /\ ~expired[t]
    THEN WaitAt(t, "timed_wait")
    ELSE DequeueNbOf(t, arg[t].n)

DequeueTimed(t) ==
  /\ In(t, "dequeue_timed")
  /\ IF ValidCount(arg[t].n) THEN TimedLoop(t) ELSE ReturnNothing(t)

DequeueTimedAgain(t) ==
  /\ In(t, "timed_wait")
  /\ TimedLoop(t)

\* Mutant: the tail that is put back starts one item late.
ExtractLosesOne(t) ==
  /\ In(t, "extract")
  /\ LET n == arg[t].n
         i == arg[t].index
     IN  IF ~ValidCount(n) \/ i < 0
           THEN ReturnNothing(t)
           ELSE Change(t,
                       SubSeq(queue, 1, Min({i, Len(queue)}))
                         \o SubSeq(queue, i + n + 2, Len(queue)),
                       SubSeq(queue, i + 1, Min({i + n, Len(queue)})),
                       0)

\* From position i on, at most n items; a position before the head takes
\* from the head what the count reaches.
Extract(t) ==
  /\ In(t, "extract")
  /\ LET n == arg[t].n
         i == arg[t].index
         fromTail == i + Len(queue)
         start == IF i < 0 THEN fromTail ELSE i
     IN  CASE ~ValidCount(n) -> ReturnNothing(t)
           [] ValidCount(n) /\ start < 0 ->
                IF n + start <= 0 THEN ReturnNothing(t)
                                  ELSE DequeueNbOf(t, n + start)
           [] OTHER ->
                Change(t,
                       SubSeq(queue, 1, Min({start, Len(queue)}))
                         \o SubSeq(queue, start + n + 1, Len(queue)),
                       SubSeq(queue, start + 1, Min({start + n, Len(queue)})),
                       0)

-----------------------------------------------------------------------------
(* Waiting.                                                                *)

\* cond_timedwait() reaches its time; any wait may end by itself.
Expire(t) ==
  /\ call[t] = "timed_wait"
  /\ mode[t] = "waiting"
  /\ M!Wake({t})
  /\ expired' = [expired EXCEPT ![t] = TRUE]
  /\ UNCHANGED <<holder, depth, queue, LIMIT, ENDED, call, arg, history>>

Spurious(t) ==
  /\ mode[t] = "waiting"
  /\ M!Wake({t})
  /\ UNCHANGED <<holder, depth, queue, LIMIT, ENDED, call, arg, expired, history>>

\* A wait has ended and the lock is free again.
Resume(t) ==
  /\ M!Resume(t)
  /\ UNCHANGED <<queue, LIMIT, ENDED, call, arg, expired, history>>

-----------------------------------------------------------------------------

Call(t) == EnterAdding(t) \/ EnterTaking(t) \/ EnterEnd(t)

Body(t) ==
  \/ Enqueue(t) \/ EnqueueAgain(t) \/ Insert(t) \/ End(t)
  \/ Dequeue(t) \/ DequeueAgain(t) \/ DequeueNb(t)
  \/ DequeueTimed(t) \/ DequeueTimedAgain(t) \/ Extract(t)

Step(t) ==
  \/ Call(t) \/ Body(t)
  \/ \E l \in Limits : SetLimit(t, l)
  \/ Expire(t) \/ Spurious(t) \/ Resume(t)

Next == \E t \in Threads : Step(t)

Spec == Init /\ [][Next]_vars

\* A method that has the lock runs to its end, the deadline of a timed wait
\* comes, and a thread that wants the lock back gets it at some time.
Fairness ==
  \A t \in Threads :
    /\ WF_vars(Body(t))
    /\ SF_vars(Expire(t))
    /\ SF_vars(Resume(t))

FairSpec == Spec /\ Fairness

-----------------------------------------------------------------------------
(* Properties.                                                             *)

\* Items come off the queue in the order they were put on it, none lost and
\* none twice, whichever threads add and take them and however often they
\* wait in between (Queue.pm, "thread-safe FIFO queues").
Fifo == taken \o queue = [i \in 1 .. added |-> i]

\* The same for insert() and extract(), which work in the middle of the
\* list: every item is in one place, and in one place only.
ItemsConserved ==
  LET all == taken \o queue IN
    /\ Len(all) = added
    /\ {all[i] : i \in DOMAIN all} = 1 .. added

\* A thread that waits in enqueue() could go on: there is room.
HasRoom(t) == call[t] = "enqueue_wait" /\ (LIMIT = 0 \/ Len(queue) < LIMIT)
\* A thread that waits in a dequeue method could go on.
HasItems(t) ==
  call[t] \in {"dequeue_wait", "timed_wait"} /\ (Len(queue) >= arg[t].n \/ ENDED)

\* A thread has left its wait and is about to look again.
SomeoneAwake == \E t \in Threads : call[t] \in Loops /\ mode[t] # "waiting"

\* "blocked until the requisite number of items are available" (Queue.pm,
\* dequeue): a thread that waits for items that are there is not forgotten;
\* the one signal of a change has gone to it or to a thread that will pass
\* it on.
DequeueIsWoken ==
  (\E t \in Threads : mode[t] = "waiting" /\ HasItems(t)) => SomeoneAwake

\* "will block until the number of pending items in the queue drops below
\* the limit" (Queue.pm, limit): the same for a thread that waits for room.
EnqueueIsWoken ==
  (\E t \in Threads : mode[t] = "waiting" /\ HasRoom(t)) => SomeoneAwake

\* One condition variable serves both: whoever could go on, somebody is awake
\* who will get there.
NobodyIsForgotten == DequeueIsWoken /\ EnqueueIsWoken

=============================================================================

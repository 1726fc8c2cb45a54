-------------------------------- MODULE Ithreads --------------------------------
(***************************************************************************)
(* The life of a thread, dist/threads/threads.xs.  An ithread structure is *)
(* shared by its own thread, by the Perl objects for it in every           *)
(* interpreter and by join() or detach(); its counter "count" says when it *)
(* goes.  Its mutex guards its fields, create_destruct_mutex guards the    *)
(* list of threads and the pool's counters.                                *)
(*                                                                         *)
(* Each thread runs Perl code or is in the C code of this file; "work" is  *)
(* what is left of the C code, first frame first.  Freeing an interpreter  *)
(* frees the objects in it, and so, one inside the other, other threads.   *)
(* A stretch under one mutex is one step; a mutex that is held while       *)
(* another is asked for, or across frames, is a variable.                  *)
(*                                                                         *)
(* Left out: exit() in a thread, signals, stack sizes, and objects for the *)
(* main thread (0), which is never freed.  list() and object() can make an *)
(* object for a thread whose creation fails; its structure goes anyway,    *)
(* and what the program does with the object then is not followed.         *)
(***************************************************************************)
EXTENDS Integers, FiniteSets, Sequences, SequencesExt

CONSTANTS
  MaxTid,  \* bound: threads created
  None

Tids == 1 .. MaxTid
Main == 0
Actors == {Main} \cup Tids

ASSUME IthreadsAssumption == MaxTid \in Nat /\ None \notin Actors

VARIABLES
  pool,      \* create_destruct_mutex: who holds it, or None
  mutex,     \* thread->mutex
  mem,       \* the structure: "none", "alloc" or "freed"
  listed,    \* threads on the circular list
  count,     \* thread->count
  state,     \* thread->state, the set of its flags
  interp,    \* threads that have thread->interp
  objs,      \* per interpreter, the threads it has a Perl object for (bound:
             \* at most one object for each)
  os,        \* the thread of the operating system
  work,      \* per thread, the frames of C code still to run
  tid_counter, running_threads, joinable_threads, detached_threads, total_threads,
  ended      \* how perl_destruct() of the main thread went

locks == <<pool, mutex>>
struct == <<mem, listed, count, state, interp>>
counters == <<running_threads, joinable_threads, detached_threads, total_threads>>
vars == <<pool, mutex, mem, listed, count, state, interp, objs, os, work,
          tid_counter, running_threads, joinable_threads, detached_threads,
          total_threads, ended>>

Flags == {"DETACHED", "JOINED", "FINISHED", "NONVIABLE", "DIED"}
Uncallable(t) == state[t] \cap {"DETACHED", "JOINED"} # {}

Places == {"clone", "start", "look", "take", "unpool", "finish", "term",
           "run_ref", "exit", "joined", "pthread_join", "detach", "detached",
           "clear", "free", "unlink", "disown", "destroy", "total"}

TypeOK ==
  /\ pool \in Actors \cup {None}
  /\ mutex \in [Tids -> Actors \cup {None}]
  /\ mem \in [Tids -> {"none", "alloc", "freed"}]
  /\ listed \subseteq Tids
  /\ count \in [Tids -> Nat]
  /\ state \in [Tids -> SUBSET Flags]
  /\ interp \subseteq Tids
  /\ objs \in [Actors -> SUBSET Tids]
  /\ os \in [Tids -> {"none", "running", "exited"}]
  /\ work \in [Actors -> Seq([at : Places, on : Actors])]
  /\ tid_counter \in 1 .. MaxTid + 1
  /\ running_threads \in Nat
  /\ joinable_threads \in Int
  /\ detached_threads \in Nat
  /\ total_threads \in Nat
  /\ ended \in {"no", "vetoed", "cleaned"}

Init ==
  /\ pool = None
  /\ mutex = [t \in Tids |-> None]
  /\ mem = [t \in Tids |-> "none"]
  /\ listed = {}
  /\ count = [t \in Tids |-> 0]
  /\ state = [t \in Tids |-> {}]
  /\ interp = {}
  /\ objs = [a \in Actors |-> {}]
  /\ os = [t \in Tids |-> "none"]
  /\ work = [a \in Actors |-> <<>>]
  /\ tid_counter = 1
  /\ running_threads = 0
  /\ joinable_threads = 0
  /\ detached_threads = 0
  /\ total_threads = 0
  /\ ended = "no"

-----------------------------------------------------------------------------
(* Control.                                                                *)

Frame(place, t) == [at |-> place, on |-> t]
Top(a) == Head(work[a])

\* a is in C code, and place on t is next.
At(a, place, t) == work[a] # <<>> /\ Top(a) = Frame(place, t)

\* a runs Perl code.
InPerl(a) ==
  /\ work[a] = <<>>
  /\ IF a = Main THEN ended = "no" ELSE os[a] = "running"

\* The frame on top gives way to the frames fs.
Then(a, fs) == work' = [work EXCEPT ![a] = fs \o Tail(@)]
\* Perl code calls C code.
Call(a, fs) == work' = [work EXCEPT ![a] = fs]

\* a has an object for t, and not for one that could not be created.
Viable(t) == "NONVIABLE" \notin state[t]
Usable(a, t) == t \in objs[a] /\ Viable(t)

\* S_ithread_free() from its start, with t's mutex, in the frame on top; work
\* is what its caller does next.  The mutex is let go.
Unref(a, t, next) ==
  /\ mutex' = [mutex EXCEPT ![t] = None]
  /\ IF "NONVIABLE" \notin state[t] /\ count[t] > 1
       THEN /\ count' = [count EXCEPT ![t] = @ - 1]
            /\ work' = [work EXCEPT ![a] = next]
       ELSE /\ count' = IF "NONVIABLE" \in state[t] THEN count
                                                    ELSE [count EXCEPT ![t] = 0]
            /\ work' = [work EXCEPT ![a] = <<Frame("unlink", t)>> \o next]

-----------------------------------------------------------------------------
(* create().                                                               *)

\* ithread_create() and S_ithread_create() up to perl_clone(): three
\* references, for the thread, for its object and for join() or detach().
Create(a) ==
  LET t == tid_counter IN
    /\ InPerl(a)
    /\ pool = None
    /\ t <= MaxTid
    /\ pool' = a
    /\ mutex' = [mutex EXCEPT ![t] = a]
    /\ mem' = [mem EXCEPT ![t] = "alloc"]
    /\ listed' = listed \cup {t}
    /\ count' = [count EXCEPT ![t] = 3]
    /\ interp' = interp \cup {t}
    /\ tid_counter' = t + 1
    /\ total_threads' = total_threads + 1
    /\ Call(a, <<Frame("clone", t)>>)
    /\ UNCHANGED <<state, objs, os, running_threads, joinable_threads,
                   detached_threads, ended>>

\* perl_clone(): every object of the parent is cloned, and ithread_mg_dup()
\* counts it.
Clone(a, t) ==
  /\ At(a, "clone", t)
  /\ IF objs[t] = objs[a]
       THEN Then(a, <<Frame("start", t)>>) /\ UNCHANGED <<count, objs>>
       ELSE \E x \in objs[a] \ objs[t] :
              /\ Viable(x)
              /\ mutex[x] = None
              /\ count' = [count EXCEPT ![x] = @ + 1]
              /\ objs' = [objs EXCEPT ![t] = @ \cup {x}]
              /\ UNCHANGED work
  /\ UNCHANGED <<locks, mem, listed, state, interp, os, tid_counter, counters, ended>>

\* pthread_create(); the object; the thread may run.
Start(a, t) ==
  /\ At(a, "start", t)
  /\ os' = [os EXCEPT ![t] = "running"]
  /\ running_threads' = running_threads + 1
  /\ objs' = [objs EXCEPT ![a] = @ \cup {t}]
  /\ pool' = None
  /\ mutex' = [mutex EXCEPT ![t] = None]
  /\ Then(a, <<>>)
  /\ UNCHANGED <<struct, tid_counter, joinable_threads, detached_threads,
                 total_threads, ended>>

\* pthread_create() fails.
StartFails(a, t) ==
  /\ At(a, "start", t)
  /\ state' = [state EXCEPT ![t] = @ \cup {"NONVIABLE"}]
  /\ pool' = None
  /\ mutex' = [mutex EXCEPT ![t] = None]
  /\ Then(a, <<Frame("unlink", t)>>)
  /\ UNCHANGED <<mem, listed, count, interp, objs, os, tid_counter, counters, ended>>

-----------------------------------------------------------------------------
(* Objects: self(), list(), object(), and their end.                       *)

Self(a) ==
  /\ InPerl(a)
  /\ a # Main
  /\ a \notin objs[a]
  /\ mutex[a] = None
  /\ count' = [count EXCEPT ![a] = @ + 1]
  /\ objs' = [objs EXCEPT ![a] = @ \cup {a}]
  /\ UNCHANGED <<locks, mem, listed, state, interp, os, work, tid_counter,
                 counters, ended>>

\* list() walks over all threads, object() looks for one; either with the
\* pool's mutex all the time.
Walk(a, looks) ==
  /\ InPerl(a)
  /\ pool = None
  /\ pool' = a
  /\ Call(a, looks \o <<Frame("unpool", a)>>)
  /\ UNCHANGED <<mutex, struct, objs, os, tid_counter, counters, ended>>

List(a) == Walk(a, [t \in Tids |-> Frame("look", t)])
Object(a, t) == t # a /\ Walk(a, <<Frame("look", t)>>)

\* The state is read under the thread's mutex, and the mutex let go.
Look(a, t) ==
  /\ At(a, "look", t)
  /\ t \in listed => mutex[t] = None
  /\ Then(a, IF t \in listed /\ ~Uncallable(t) THEN <<Frame("take", t)>> ELSE <<>>)
  /\ UNCHANGED <<locks, struct, objs, os, tid_counter, counters, ended>>

\* S_ithread_to_SV().
Take(a, t) ==
  /\ At(a, "take", t)
  /\ mutex[t] = None
  /\ IF t \in objs[a] THEN UNCHANGED <<count, objs>>
     ELSE /\ count' = [count EXCEPT ![t] = @ + 1]
          /\ objs' = [objs EXCEPT ![a] = @ \cup {t}]
  /\ Then(a, <<>>)
  /\ UNCHANGED <<locks, mem, listed, state, interp, os, tid_counter, counters, ended>>

Unpool(a) ==
  /\ At(a, "unpool", a)
  /\ pool' = None
  /\ Then(a, <<>>)
  /\ UNCHANGED <<mutex, struct, objs, os, tid_counter, counters, ended>>

\* An object goes out of scope: ithread_mg_free().
Drop(a, t) ==
  /\ InPerl(a)
  /\ Usable(a, t)
  /\ mutex[t] = None
  /\ objs' = [objs EXCEPT ![a] = @ \ {t}]
  /\ Unref(a, t, <<>>)
  /\ UNCHANGED <<pool, mem, listed, state, interp, os, tid_counter, counters, ended>>

-----------------------------------------------------------------------------
(* The end of a thread.                                                    *)

\* S_ithread_run() after the Perl code: first the pool's mutex.
Finish(t) ==
  /\ InPerl(t)
  /\ t # Main
  /\ pool = None
  /\ pool' = t
  /\ Call(t, <<Frame("finish", t)>>)
  /\ UNCHANGED <<mutex, struct, objs, os, tid_counter, counters, ended>>

\* Mutant: a detached thread is counted as joinable when it ends.
MarkFinishedJoinable(t) ==
  /\ At(t, "finish", t)
  /\ mutex[t] = None
  /\ \E died \in {{}, {"DIED"}} :
       state' = [state EXCEPT ![t] = @ \cup {"FINISHED"} \cup died]
  /\ running_threads' = running_threads - 1
  /\ joinable_threads' = joinable_threads + 1
  /\ pool' = None
  /\ Then(t, <<Frame("term", t), Frame("run_ref", t), Frame("exit", t)>>)
  /\ UNCHANGED <<mutex, mem, listed, count, interp, objs, os, tid_counter,
                 detached_threads, total_threads, ended>>

MarkFinished(t) ==
  /\ At(t, "finish", t)
  /\ mutex[t] = None
  /\ \E died \in {{}, {"DIED"}} :
       state' = [state EXCEPT ![t] = @ \cup {"FINISHED"} \cup died]
  /\ IF "DETACHED" \in state[t]
       THEN /\ detached_threads' = detached_threads - 1
            /\ UNCHANGED <<running_threads, joinable_threads>>
       ELSE /\ running_threads' = running_threads - 1
            /\ joinable_threads' = joinable_threads + 1
            /\ UNCHANGED detached_threads
  /\ pool' = None
  /\ Then(t, <<Frame("term", t), Frame("run_ref", t), Frame("exit", t)>>)
  /\ UNCHANGED <<mutex, mem, listed, count, interp, objs, os, tid_counter,
                 total_threads, ended>>

\* thread_locale_term(), still in the thread's own interpreter.
LocaleTerm(t) ==
  /\ At(t, "term", t)
  /\ Then(t, <<>>)
  /\ UNCHANGED <<locks, struct, objs, os, tid_counter, counters, ended>>

RunRef(t) ==
  /\ At(t, "run_ref", t)
  /\ mutex[t] = None
  /\ Unref(t, t, Tail(work[t]))
  /\ UNCHANGED <<pool, mem, listed, state, interp, objs, os, tid_counter, counters, ended>>

Exit(t) ==
  /\ At(t, "exit", t)
  /\ os' = [os EXCEPT ![t] = "exited"]
  /\ Then(t, <<>>)
  /\ UNCHANGED <<locks, struct, objs, tid_counter, counters, ended>>

-----------------------------------------------------------------------------
(* join() and detach().                                                    *)

\* Otherwise join() croaks and changes nothing.
Join(a, t) ==
  /\ InPerl(a)
  /\ Usable(a, t)
  /\ a # t
  /\ mutex[t] = None
  /\ ~Uncallable(t)
  /\ state' = [state EXCEPT ![t] = @ \cup {"JOINED"}]
  /\ Call(a, <<Frame("joined", t)>>)
  /\ UNCHANGED <<locks, mem, listed, count, interp, objs, os, tid_counter, counters, ended>>

\* Mutant: the counter is changed without the pool's mutex.
JoinedNoPool(a, t) ==
  /\ At(a, "joined", t)
  /\ joinable_threads' = joinable_threads - 1
  /\ Then(a, <<Frame("pthread_join", t)>>)
  /\ UNCHANGED <<locks, struct, objs, os, tid_counter, running_threads,
                 detached_threads, total_threads, ended>>

Joined(a, t) ==
  /\ At(a, "joined", t)
  /\ pool = None
  /\ joinable_threads' = joinable_threads - 1
  /\ Then(a, <<Frame("pthread_join", t)>>)
  /\ UNCHANGED <<locks, struct, objs, os, tid_counter, running_threads,
                 detached_threads, total_threads, ended>>

\* Mutant: the interpreter goes, error and all.
PthreadJoinClearsAll(a, t) ==
  /\ At(a, "pthread_join", t)
  /\ os[t] = "exited"
  /\ mutex[t] = None
  /\ mutex' = [mutex EXCEPT ![t] = a]
  /\ Then(a, <<Frame("clear", t), Frame("free", t)>>)
  /\ UNCHANGED <<pool, struct, objs, os, tid_counter, counters, ended>>

\* A thread that died keeps its interpreter, for error().
PthreadJoin(a, t) ==
  /\ At(a, "pthread_join", t)
  /\ os[t] = "exited"
  /\ mutex[t] = None
  /\ mutex' = [mutex EXCEPT ![t] = a]
  /\ Then(a, IF "DIED" \in state[t] THEN <<Frame("free", t)>>
                                     ELSE <<Frame("clear", t), Frame("free", t)>>)
  /\ UNCHANGED <<pool, struct, objs, os, tid_counter, counters, ended>>

\* $thr->detach(), or threads->detach() in the thread itself.
Detach(a, t) ==
  /\ InPerl(a)
  /\ Usable(a, t) \/ t = a
  /\ pool = None
  /\ pool' = a
  /\ Call(a, <<Frame("detach", t)>>)
  /\ UNCHANGED <<mutex, struct, objs, os, tid_counter, counters, ended>>

\* The second of two detach() calls, or one after join(), croaks.
MarkDetached(a, t) ==
  /\ At(a, "detach", t)
  /\ mutex[t] = None
  /\ pool' = None
  /\ IF Uncallable(t)
       THEN Then(a, <<>>) /\ UNCHANGED <<state, counters>>
       ELSE /\ state' = [state EXCEPT ![t] = @ \cup {"DETACHED"}]
            /\ IF "FINISHED" \in state[t]
                 THEN /\ joinable_threads' = joinable_threads - 1
                      /\ UNCHANGED <<running_threads, detached_threads>>
                 ELSE /\ running_threads' = running_threads - 1
                      /\ detached_threads' = detached_threads + 1
                      /\ UNCHANGED joinable_threads
            /\ Then(a, <<Frame("detached", t)>>)
            /\ UNCHANGED total_threads
  /\ UNCHANGED <<mutex, mem, listed, count, interp, objs, os, tid_counter, ended>>

\* The state is read again, under the mutex: the thread may have finished.
Detached(a, t) ==
  /\ At(a, "detached", t)
  /\ mutex[t] = None
  /\ mutex' = [mutex EXCEPT ![t] = a]
  /\ Then(a, IF "FINISHED" \in state[t] /\ "DIED" \notin state[t]
               THEN <<Frame("clear", t), Frame("free", t)>>
               ELSE <<Frame("free", t)>>)
  /\ UNCHANGED <<pool, struct, objs, os, tid_counter, counters, ended>>

-----------------------------------------------------------------------------
(* S_ithread_clear() and S_ithread_free().                                 *)

\* With t's mutex: the objects in the interpreter go one by one, then the
\* interpreter.  An object may be the last of its thread, and that thread is
\* then freed in the middle of this.
Clear(a, t) ==
  /\ At(a, "clear", t)
  /\ \/ /\ t \notin interp
        /\ Then(a, <<>>)
        /\ UNCHANGED <<mutex, count, interp, objs>>
     \/ /\ t \in interp /\ objs[t] = {}
        /\ interp' = interp \ {t}
        /\ Then(a, <<>>)
        /\ UNCHANGED <<mutex, count, objs>>
     \/ /\ t \in interp
        /\ \E x \in objs[t] :
             /\ Viable(x)
             /\ mutex[x] = None
             /\ objs' = [objs EXCEPT ![t] = @ \ {x}]
             /\ Unref(a, x, work[a])
        /\ UNCHANGED interp
  /\ UNCHANGED <<pool, mem, listed, state, os, tid_counter, counters, ended>>

\* The reference of join() or detach().
Free(a, t) ==
  /\ At(a, "free", t)
  /\ mutex[t] = a
  /\ Unref(a, t, Tail(work[a]))
  /\ UNCHANGED <<pool, mem, listed, state, interp, objs, os, tid_counter, counters, ended>>

\* The last reference has gone.
Unlink(a, t) ==
  /\ At(a, "unlink", t)
  /\ pool = None
  /\ t \in listed
  /\ listed' = listed \ {t}
  /\ Then(a, <<Frame("disown", t)>>)
  /\ UNCHANGED <<locks, mem, count, state, interp, objs, os, tid_counter, counters, ended>>

Disown(a, t) ==
  /\ At(a, "disown", t)
  /\ mutex[t] = None
  /\ mutex' = [mutex EXCEPT ![t] = a]
  /\ Then(a, <<Frame("clear", t), Frame("destroy", t)>>)
  /\ UNCHANGED <<pool, struct, objs, os, tid_counter, counters, ended>>

Destroy(a, t) ==
  /\ At(a, "destroy", t)
  /\ mutex' = [mutex EXCEPT ![t] = None]
  /\ mem' = [mem EXCEPT ![t] = "freed"]
  /\ Then(a, <<Frame("total", t)>>)
  /\ UNCHANGED <<pool, listed, count, state, interp, objs, os, tid_counter, counters, ended>>

\* The very last thing, for the sake of Veto.
Total(a, t) ==
  /\ At(a, "total", t)
  /\ pool = None
  /\ total_threads' = total_threads - 1
  /\ Then(a, <<>>)
  /\ UNCHANGED <<locks, struct, objs, os, tid_counter, running_threads,
                 joinable_threads, detached_threads, ended>>

\* Perl_ithread_hook(), from perl_destruct() of the main interpreter: with
\* threads around, nothing more is freed.
Veto ==
  /\ InPerl(Main)
  /\ pool = None
  /\ ended' = IF total_threads > 0 THEN "vetoed" ELSE "cleaned"
  /\ UNCHANGED <<locks, struct, objs, os, work, tid_counter, counters>>

-----------------------------------------------------------------------------

PerlStep(a) ==
  \/ Create(a) \/ Self(a) \/ List(a)
  \/ \E t \in Tids : Object(a, t) \/ Drop(a, t) \/ Join(a, t) \/ Detach(a, t)

CStep(a) ==
  \/ \E t \in Tids :
       \/ Clone(a, t) \/ Start(a, t) \/ StartFails(a, t)
       \/ Look(a, t) \/ Take(a, t)
       \/ Joined(a, t) \/ PthreadJoin(a, t)
       \/ MarkDetached(a, t) \/ Detached(a, t)
       \/ Clear(a, t) \/ Free(a, t) \/ Unlink(a, t) \/ Disown(a, t)
       \/ Destroy(a, t) \/ Total(a, t)
  \/ Unpool(a)

RunStep(t) == Finish(t) \/ MarkFinished(t) \/ LocaleTerm(t) \/ RunRef(t) \/ Exit(t)

Next ==
  \/ \E a \in Actors : PerlStep(a) \/ CStep(a)
  \/ \E t \in Tids : RunStep(t)
  \/ Veto

Spec == Init /\ [][Next]_vars

-----------------------------------------------------------------------------
(* Properties.                                                             *)

\* a has frame place for t still to run.
Pending(a, place, t) == \E i \in DOMAIN work[a] : work[a][i] = Frame(place, t)

\* Whoever has a reference to t: the interpreters with an object for it (the
\* creator of t is about to get one), the thread itself until it gives its
\* own up, and the join() or detach() to come or in progress.
ObjectHolders(t) ==
  {a \in Actors : t \in objs[a] \/ Pending(a, "clone", t) \/ Pending(a, "start", t)}
RunHolds(t) ==
  \/ os[t] = "none"
  \/ os[t] = "running" /\ ("FINISHED" \in state[t] => Pending(t, "run_ref", t))
JoinHolds(t) ==
  \/ ~Uncallable(t)
  \/ \E a \in Actors, p \in {"joined", "pthread_join", "detached", "free"} : Pending(a, p, t)

References(t) ==
  Cardinality(ObjectHolders(t)) + (IF RunHolds(t) THEN 1 ELSE 0)
                                + (IF JoinHolds(t) THEN 1 ELSE 0)

\* The counter is the number of references, through cloning, list(), nested
\* destruction and every race between them.
CountIsReferences ==
  \A t \in Tids : mem[t] = "alloc" /\ Viable(t) => count[t] = References(t)

\* A structure is freed only when nobody has a reference to it; list() and
\* object(), which read the state, let the mutex go and count afterwards, do
\* not bring a thread back whose last reference went in between.
NothingDangles ==
  \A t \in Tids : mem[t] = "freed" /\ Viable(t) => References(t) = 0

\* The pool's counters say what the exit warning prints.  A thread that is
\* being joined before it has finished is counted as running, and is taken
\* off the joinable ones in advance.
InState(fin, det) ==
  {t \in Tids : /\ os[t] # "none"
                /\ ("FINISHED" \in state[t]) = fin /\ ("DETACHED" \in state[t]) = det}
TakenOff == {t \in Tids : /\ "JOINED" \in state[t]
                          /\ \A a \in Actors : ~Pending(a, "joined", t)}
PoolCounters ==
  /\ running_threads = Cardinality(InState(FALSE, FALSE))
  /\ detached_threads = Cardinality(InState(FALSE, TRUE))
  /\ joinable_threads = Cardinality(InState(TRUE, FALSE)) - Cardinality(TakenOff)

\* The pool, and the main interpreter that other threads borrow at their
\* end, are freed only when no thread will touch them again (the comment at
\* the end of S_ithread_free()).
PoolOutlivesThreads ==
  ended = "cleaned" =>
    /\ pool = None
    /\ \A t \in Tids : os[t] = "running" => work[t] = <<Frame("exit", t)>>

\* The interpreter of a thread is there as long as the thread runs Perl code,
\* whoever joins or detaches it in the meantime.
RunsInItsInterpreter ==
  \A t \in Tids : os[t] = "running" /\ "FINISHED" \notin state[t] => t \in interp

\* "$thr->error()" finds the error of a thread that died as long as there is
\* an object for the thread, also after join() or detach().
ErrorSurvives ==
  \A a \in Actors, t \in Tids : t \in objs[a] /\ "DIED" \in state[t] => t \in interp

\* What list(), object(), join(), detach() and the ends of threads count, each
\* under a mutex of its own, adds up.
ThreadsAreCounted == CountIsReferences /\ PoolCounters

\* No structure, interpreter or pool is freed while a thread will use it.
NothingIsFreedInUse == NothingDangles /\ PoolOutlivesThreads /\ RunsInItsInterpreter

\* b has the mutex that a is waiting for.
WaitsFor(a, b) ==
  /\ work[a] # <<>>
  /\ \/ pool = b /\ Top(a).at \in {"joined", "unlink", "total"}
     \/ \E t \in Tids :
          /\ mutex[t] = b
          /\ \/ /\ Top(a) \in {Frame(p, t) : p \in {"finish", "run_ref", "detach", "detached",
                                                  "disown", "look", "take"}}
             \/ \E x \in Tids : At(a, "clear", x) /\ objs[x] = {t}
             \/ \E x \in Tids : At(a, "clone", x) /\ objs[a] \ objs[x] = {t}

\* S_ithread_clear() is called without create_destruct_mutex, because "that
\* could lead to a deadlock", but with the thread's own mutex: no two threads
\* wait for each other's mutexes, and none for one of its own.
NoCircularWait == \A a, b \in Actors : ~(WaitsFor(a, b) /\ WaitsFor(b, a))

=============================================================================

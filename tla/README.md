# A verification project for perl and the WebPerl glue

TLA+ modules, TLC configurations and TLAPS proofs for parts of this source tree
(perl 5 with the WebPerl extension for the browser) whose correctness depends
on the order in which things happen: signals and opcodes, threads and locks,
waits and wake-ups, Perl and JavaScript code that call each other, destructors
and signal handlers that come back in the middle of something, exceptions that
have to find their way over two stacks; and for the data structures and the
integer arithmetic, whose invariants a long sequence of legal calls can break.

Contents: [1 the system](#1-the-system), [2 the modules](#2-the-modules),
[3 the runs](#3-the-runs), [4 fairness](#4-fairness),
[5 the proofs](#5-the-proofs), [6 findings](#6-findings),
[7 other observations](#7-other-observations),
[8 what is not modelled](#8-what-is-not-modelled), [9 the plan](#9-the-plan).

`tlc -config X.cfg M.tla` checks a run of section 3, `tlapm M_proofs.tla` the
proofs of a module. `PROJECT.json` has, in a form for tools, the components,
the runs, the source lines that each definition stands for, the hazards at
their lines, the mutants that show that each property can fail, the findings
and the theorems.

## 1 The system

An interpreter compiles text to op trees (`toke.c`, `perly.c`, `op.c`) and
runs them (`run.c`, `pp*.c`) on values with reference counts (`sv.c`, `hv.c`,
`av.c`). Much of that is sequential and about data. The parts where state is
shared, where control comes back in the middle of something, or where a
representation has to be kept consistent over many calls, are these:

| Component | State it keeps | Operations | Interacts with | What is hard | Correct if |
|---|---|---|---|---|---|
| Environment lock, `thread.h` | a mutex, a condition variable, `readers_count` | `PERL_READ_LOCK`, `PERL_WRITE_LOCK` and their unlocks | any thread that calls `getenv()`, `putenv()`, `tzset()` | readers come in while writers wait; one signal for many waiters | writers are alone; nobody is forgotten |
| Deferred signals, `mg.c`, `perl.h` | `PL_psig_ptr`, `PL_psig_pend`, `PL_sig_pending`, the process's mask | `csighandler3()`, `PERL_ASYNC_CHECK`, `despatch_signals()`, `perly_sighandler()`, `magic_setsig()` | the kernel; `fork()`, `die`, `%SIG`, `perl_destruct()` | C-level handlers come between any two steps; Perl-level handlers nest, die, fork, assign to `%SIG` | a recorded signal is handled; handlers are not re-entered; the mask comes back |
| Lock of a shared variable, `shared.xs` | `recursive_lock_t`: mutex, owner, count, condition; the user's condition | `lock()`, the end of its scope, `cond_wait()`, `cond_timedwait()`, `cond_signal()`, `cond_broadcast()` | Thread::Semaphore, Thread::Queue, user code | two condition variables, nested scopes given up and taken back, time-outs, exceptions | it is a monitor: one owner, exact depth, no lost wake-up |
| Shared data, `shared.xs` | the shared interpreter's values, proxies in each thread | `share()`, tied FETCH/STORE, iteration | the lock above | one iterator for all threads; lifetime across interpreters | proxies never outlive their values |
| Thread::Semaphore | the count, shared and locked | `down*()`, `up()` | the lock | late wake-ups, negative counts, time-outs | never overdrawn; nobody waits for units that are there |
| Thread::Queue | the items, `LIMIT`, `ENDED` | `enqueue()`, `dequeue*()`, `insert()`, `extract()`, `limit()`, `end()` | the lock | producers and consumers wait on one condition and are signalled one at a time | FIFO, no item lost, nobody forgotten |
| threads, `threads.xs` | `ithread` structures with flags and a count, a list of them, a pool with counters | `create`, `self`, `list`, `object`, `join`, `detach`, the end of a thread, `perl_destruct()` of its interpreter | `perl_clone()`, pthreads; objects in every interpreter | two levels of mutexes, references taken after a mutex is let go, destruction inside destruction | counts are exact, nothing is freed early, the pool goes last |
| WebPerl glue, `ext/WebPerl` | `%CodeTable`, `Perl.GlueTable`, three global slots for arguments, result and error | `js()`, `_code_reg()`, `_call_code()`, `unregister()`, `sub_once()`, JSObject and its accessors | the JavaScript engine, reference counts | addresses as keys, calls inside calls, destructors | a callback reaches its sub, a call its result, an object its value |
| Scopes and exceptions, `pp_ctl.c`, `scope.c`, `perl.c` | the context stack, the C stack with its chain of `JMPENV`, `$@` | `die`, `eval`, `exit`, `BEGIN`, `docatch()`, `call_sv()`, `perl_run()` | destructors, tied variables, everything that calls Perl code from C | the eval is found on one stack and its loop on the other; what runs while they are unwound uses both | an error ends at the innermost eval, in the loop that runs it, and `$@` is it |
| Hashes, `hv.c` | buckets and chains, one iterator, placeholders, counters | store, fetch, delete, `each`, clear, split | destructors of the values, restricted hashes | the entry under the iterator is deleted; destructors change the hash that is being cleared | every entry is found, counted and freed once |
| Arrays, `av.c`, `pp_splice()` | a block of slots and a window on it | store, push, pop, shift, unshift, fill, delete, splice, clear | | slots on both sides of the window | it is a list, spare slots hold nothing |
| Values, `sv.c` | reference counts, weak references and their backreferences, temporaries | assignment, weaken, bless, freeing with `DESTROY` | destructors are Perl code | DESTROY brings its object back, or to another class | counts are exact; nothing leaks or is used after it is freed |
| Method resolution, `mro_core.c`, `gv.c`, `sv.c` | linearizations, method and destructor caches with generations, `PL_isarev` | calls, `@ISA =`, definition of subs | | three caches, each with a validity of its own | a cached answer is the one a search would give |
| PerlIO, `perlio.c` | layers, a buffer for reads and writes, positions, `lockcnt` | read, unread, write, flush, seek, tell, close, pop | the kernel; signal handlers inside system calls | one buffer for both directions; a handler closes the handle a call is using | it is a file; interrupted calls use nothing freed |
| Integers, `pp.c`, `pp_hot.c`, `numeric.c` | a number as IV, UV or NV | `+ - * ** % / << >> ++ --`, comparison, `grok_number()` | | two widths and a sign: overflow, boundaries | exact whenever an integer can hold the result |

The thread modules exist only in builds with threads; the glue exists only in
the emscripten build, which has neither threads nor signals
(`perlmain_noexit_patch`). The parts are composed where they meet in the code:
the semaphore and the queue with the lock, a handle's layers with the handler
that runs inside them, threads with the interpreters that own their objects,
text with the integers it becomes.

## 2 The modules

Operators have the names of the functions they stand for. A step of a model is
what the code does in one go as others can see it: a stretch under one mutex,
or code of one interpreter between two points at which a signal, a callback, a
destructor or another thread can come in. A definition marked `Mutant:` is a
plausible bug, used only to show that a property would notice.

**RnW1Mutex** (`thread.h` 296-342). `lock` is the holder of the mutex,
`wakeup` the threads that wait on the condition, `pc` where each thread is.
A writer keeps the mutex for as long as it writes; a reader only changes the
count under it.

**SafeSignals** (`mg.c` 1558-1872 and 3684-3826, `perl.h` `PERL_ASYNC_CHECK`,
`pp_fork()`, `perl_destruct()`). The kernel has `action`, `kpending` and
`blocked`, the interpreter `psig_ptr`, `psig_pend` and `sig_pending`. The C
stack is `frames`: loops of `despatch_signals()`, each with its position and
`was_blocked`, and assignments to `%SIG` half done. `Deliver` may happen at
any time. Perl code runs if the stack is empty or its top has called a
handler; there it may check for signals, assign to `%SIG`, fork, die or end.
`sig_pending` that reaches `DieCount` (`SIG_PEND_DIE_IF_PENDING`) dies in the
C-level handler, as in the code.

**Monitor** is what `lock()` and the `cond_` functions promise: `holder`,
`depth` and `mode` for each thread. **SharedLock** (`shared.xs` 186-281,
1580-1730) is how it is done: a mutex and a condition around `owner` and
`locks`, the user's condition on the same mutex, `cond_wait()` that takes
owner and count out by hand and puts them back. `SharedLock` implements
`Monitor` under the refinement mapping owner to `holder`, scopes to `depth`,
`pc` to `mode` (`ImplementsMonitor`). **ThreadSemaphore** and **ThreadQueue**
use `Monitor` and not `SharedLock`: their methods lock once, for one whole
body, and the refinement says that nothing is lost by that. A body up to its
wait is one step, because the lock is held.

**ThreadSemaphore** (`Semaphore.pm`): `sema` is the count; `forced` is a
history of what `down_force()` took. **ThreadQueue** (`Queue.pm`): items are
numbered in the order in which they were added, `taken` is a history of what
came off, so that order and loss are visible. `limit()` returns an lvalue: the
assignment is a step without the lock.

**Ithreads** (`threads.xs`). An ithread has `mem`, `listed`, `count`, `state`
and `interp`. `objs[a]` are the threads for which the interpreter of `a` has
an object. `work[a]` is what is left to do in C, first frame first: because
freeing an interpreter frees the objects in it, which may free other ithreads,
which free interpreters, `Clear`, `Unlink`, `Disown`, `Destroy` and `Total`
nest to any depth. `pool` and `mutex` are the mutexes that are held across
steps.

**CodeTable** (`WebPerl.pm` 90-183). `addr` are the addresses of living subs,
used again after a sub is freed; `code_table` is `%CodeTable`, `symtab` one
entry of the symbol table, `callbacks` what JavaScript has; `frames` are calls
of callbacks inside calls. `call_rv` and `call_error` hold the number of the
call a result belongs to. The arguments have no variable: they are read
before any other code can run. The JavaScript half (`Perl.dispatch`) is not in
this tree and is marked external; it throws the error if there is one, and
returns the result if not. Results that cannot be encoded make `_to_js()`
croak outside the `eval`; what then unwinds is a matter of the JavaScript
engine, and such results are left out. Reference counts are right by
assumption: a sub is freed when nothing refers to it.

**Exceptions** (`pp_ctl.c`, `perl.c`, `scope.c`, `cop.h`). `cxstack` are subs,
evals and what must be done when a block is left (destroy an object, restore a
tied variable), `cstack` the C functions between them: those with a
`JMPENV_PUSH` and whether `CATCH_GET` is set in it. `ctl` says which C function
is doing what, `restart` is `PL_restartop` with `PL_restartjmpenv`, `errsv`
is `$@`. `die_unwind()` unwinds `cxstack` and each entry that runs Perl code
nests; the jump goes over `cstack`, and each function that it reaches acts as
its own code does. That an error is made a string by overloading code that dies
(`Stringifies`), and that `exit` is called where a tied variable is localized
(`ExitsOverTied`), are constants, as they lead to the findings.

**HashTable** (`hv.c`). `HvARRAY` are the chains, `xhv_eiter`, `xhv_riter` and
`HvLAZYDEL` the iterator, `allocated` the entries that have memory, `lazynext`
what the deleted entry under the iterator leads to. `emptying` is the stack of
the calls of `hv_clear()` and `hv_undef()` that have not returned: such a call
lets go of one value a step, and in between the value's destructor may use the
same hash, empty or undefine it again included (`MaxDepth` deep).
`ClearHash` and `UndefHash` free the entries (`FreeRound` is one round of
`hv_free_entries()`, with its index and the reset of an iterator that is at an
entry); `ClearRestricted` and `ClearNext` make placeholders of the values of a
restricted hash: the value goes first, its destructor runs, and only then is
the entry a placeholder and counted. What destructors may do has three limits,
each where the code would go on with what is no longer there. The key whose
value a restricted hash is just letting go of is not deleted, and that hash is
not emptied again (`BeingCleared`): the entry still has the value (`hv.c`
2025-2027), which would be freed twice, and the placeholder counted twice.
Nothing is inserted once an `undef()` inside has made the array smaller than
the index of a round outside (`InBounds`; `hv.c` 2185). And nothing looks for
placeholders while there are fewer than are counted (`Counted`; that it comes
to this at all is finding 2). `Untidy` says whether destructors use a hash whose
placeholders are being freed, and unlock one that is being cleared; it is FALSE
in `data` and TRUE in `hash_clear`. A key is its hash value; `xhv_rand`, with
which the iterator starts, may be any of `Rands`. `owed` and `spoiled` are
history.

**ArrayTable** (`av.c`, `pp.c` from 5848) is one block of slots with an offset.
**PerlList** is a list with the operations of an array; `IsAList` says that
`ArrayTable` implements it (list to the window), and that each operation
implements its own namesake.

**IvArith** (`pp.c`, `pp_hot.c`, `sv.c`) has the integer halves of the
operators as operators on records, with a word of `Bits` bits. The run takes
every value a variable can hold, and every second operand. **GrokNumber**
(`numeric.c`, `sv.c` `S_sv_2iuv_common()`) reads a text
digit by digit, into such a word.

**PerlIOBuf** (`perlio.c`) is the buffer layer over the unix layer
with one record `io` for a handle, its buffer and the kernel's file.
**PerlFile** is a file with one position; `IsAFile` maps the buffer's unread
rest or unwritten part to it. Bytes are copied one by one where the code
copies as many as fit. A read buffer that cannot be flushed, because the
position it stands for is before the file's start, stays, and a write or a seek
goes on regardless, as in the code; it takes `UngetcAtStart`. **PerlIOAsync** has such a handle and what
a signal handler does to it inside a system call: `f` are the layers, the
buffer and `lockcnt`, `op` the C functions that are active and what they keep
in variables of their own. A handler may close the handle, pop a layer, write,
flush, return or die; other signals do not come in while it runs.

**SvRefs** (`sv.c`). `heap` has for each value its count,
class, elements and state, the references `to` with a flag `weak`, the
backreferences, the temporaries, and `stack`, the frees that are in progress:
`sv_clear()` of an object is interrupted by `DESTROY`, in which the program may
do what it can do outside. `told` is the class whose destructor was last called.

**Mro** (`mro_core.c`, `gv.c`, `sv.c` `S_curse()`). `mro` has `@ISA`, the
linear cache, the methods, the cached method and the cached destructor of each
package, `isarev`, and `moved`, a history of the packages whose ancestors'
`@ISA` has changed since their destructor was cached. `Linear` goes up the
`@ISA`s one level at a time, to the depth that the number of packages allows;
`LinesJoined` is the loop over the names of a further parent, with `stored`,
that has UNIVERSAL from the start. `Uncached` is the reference: what the tables
say if nothing is cached.

**MCLocks**, **MCQueues**, **MCThreads**, **MCData**, **MCObjects** put
independent modules side by side: a variable `used` says which one runs, the
others stay in their initial states. The state space is the sum, not the
product.

## 3 The runs

| Run | Bounds | Shows |
|---|---|---|
| `locks` | environment lock: 4 threads. Lock of a variable: 3 threads, 2 nested scopes, bad time-outs. Signals: 2 signals, 4 deliveries, stack of 3, limit 4 | `WriterExcludesAll`: a writer is alone. `NoWriterForgotten`: while a writer waits, somebody will signal it or has. `NoLostWakeup`: the same for the lock of a variable. `ImplementsMonitor`: that lock is a monitor. `WaitersGetIn`: who asks for either lock gets it. `NoReentrance`, `MaskRestored`: through every nesting of handlers, exceptions and forks. `OnlyADieStrands`: a recorded signal that nothing will look at comes only from an exception. `RecordsAreHandled`: without one, a recorded signal is handled or the process ends, and by the handler it was recorded for |
| `queues` | queue: 1 producer, 2 consumers, 4 items, no limit; or 1 producer, 1 consumer, limit 2 lowered to 1, positions -3 to 1, counts 0 to 2. Semaphore: 3 threads, arguments 0 to 2, count to 2, 1 forced | `PlainFifo`, `ItemsConserved`. `NobodyIsForgotten`: whoever waits for items or room that is there has been signalled, and `enqueue()` adds only below the limit. `NeverOverdrawn`: only `down_force()` goes below zero. `NobodyWaitsInVain`. `CallsReturn`: `end()` signals once and all blocked calls return; `down_timed()` returns. No deadlock |
| `threads` | main thread and 2 others. Glue: 2 subs, 2 addresses, 3 calls, 2 deep. Exceptions: 6 C functions, 5 contexts | `ThreadsAreCounted`: `count` is exactly the number of references, and the pool's counters those of threads. `NothingIsFreedInUse`: ithreads, interpreters and the pool. `ErrorSurvives`. `CallbackFindsItsSub`: until it is unregistered a callback reaches its sub, and as long as the sub exists never another. `OnlyADestructorMixesResults`. `EvalsAreCaught`: the eval an error is caught by runs in the loop of the C function that has run it, both stacks agree when C code goes on, and `$@` is the error |
| `data` | hash: 3 keys that collide before or after the split, 2 buckets that become 4, emptied 2 calls deep. Array: 6 slots, indices to 3. Integers: 6 bits, of which a floating number keeps 3. Texts to 7 digits. File: 4 bytes, buffer of 2. Handlers: buffer of 3, prints and reads to 5 | `HashIsSound`: every entry is found, counted and freed once. `EachReturnsAllOnce`. `SpareSlotsAreNull`, `IsAList`. `ArithmeticIsExact`, `TextIsItsNumber`. `IsAFile`. `HandlersAreHarmless` |
| `objects` | 2 values with 1 element, 2 variables, 2 classes, 2 temporaries. Packages: 3 and UNIVERSAL, 4 changes | `ReferencesAreCounted`, `NothingLeaks`, `LastClassDestroys`. `CachesAreCurrent`: methods, heirs and destructors, the last but for finding 5 |
| `threads_deadlock`, `hash_clear`, `pow`, `perlio`, `mro`, `call_list`, `exit_tied` | as above; the exceptions 5 or 6 deep | violations, section 6 |

Each passing run also has the type invariants of its modules (`TypesOK`).

Why the bounds are enough for what is asked:

* Two signals give every order of positions relative to a loop (at, before,
  behind), and 4 deliveries a second record of each; a stack of 3 holds an
  outer loop, a handler and an inner loop or an assignment. The theorems have
  no bound.
* Three threads are a holder, one that is woken and one that overtakes it; the
  fourth of the environment lock is a second writer next to two readers.
  Nesting of 2 tells "all scopes" from "one scope".
* Two items or units at a time, with counts of 1 and 2, tell "some" from
  "enough". Counts are equal in the queue with two consumers: with different
  counts the claim is false (section 7).
* Two threads besides the main one can hold objects for each other, and one
  can free the other inside freeing itself. Chains of three are beyond the
  bound, and so is the lock-order inversion of section 7.
* Two subs and two addresses have an address used again, and a table entry
  that is not the one that was meant. Three calls, two deep, have a call after
  a nested one.
* Six C functions are a program's loop, an eval with its own loop, a
  destructor's `call_sv()` in it, and an eval in that one; with five contexts
  an error in the innermost can meet a destructor on its way out.
* Keys 0, 2 and 6 share a bucket of two; of four, 2 and 6 still share one and 0
  has another: a chain that is divided while an iterator is in it. Two calls
  that empty the hash are one and another inside its destructor; three keys
  leave one to each of them and one to the program in between. In `hash_clear`
  the keys are 0, 1 and 2: the placeholders fill a table of two.
* Arrays of 6 slots have room on both sides of a list of 2 that is moved.
* 6 bits have all orders of operands, results and limits of the two widths,
  and the first digits that are read without a check are fewer than fit.
* A buffer of 2 is filled, emptied and passed by one read or print; 4 bytes of
  file are two of them. A print of 5 through a buffer of 3 is interrupted in
  its first and in its second flush.
* Two values can refer to each other, strongly and weakly, and one destructor
  can run inside the other. Three packages are a chain or a diamond's side.

`CHECK_DEADLOCK FALSE` is set where a program may really stop or a bound ends
it: all signals delivered or the interpreter destroyed, all calls made, the
process ended, the mutex left locked by `cond_timedwait()`. `queues` is
checked for deadlock.

## 4 Fairness

Fairness is assumed of what the code, the scheduler or the operating system
does by itself, never of what a program chooses to do.

* RnW1Mutex: `SF` of `ReadUnlock` and `WriteRelock`, `WF` of `WriteUnlock`.
  Whoever is inside leaves; who competes for a mutex that is free again and
  again gets it in the end, as with the mutexes of pthreads under a fair
  scheduler. Nobody has to enter.
* SafeSignals: `SF` of `AsyncCheck` (opcode boundaries keep coming between
  handlers) and of `HandlerReturn` (a handler that is reached again and again
  ends), `WF` of the C code. Nothing of `Kill`, `Die`, `Fork`, `SetSigEnter`.
* SharedLock: `WF` of `LockAgain` and `Reacquire`: a thread that is awake goes
  round its loop.
* ThreadSemaphore and ThreadQueue: `WF` of a body that has the lock, `SF` of
  `Expire` (time comes) and of `Resume` (the lock is had some time). Nothing
  of entering a method: no producer is made to produce.
* Exceptions, in `call_list` only: `WF` of the C code that unwinds and jumps.
* The other modules have safety properties only.

In `locks` and `queues` one condition stands for that of several modules, for
TLC's effort doubles with every `SF`. That is the same: what fairness asks for
can be done only by a thread that has entered a lock or a method, or after a
signal has come, and of the modules in a run one does that.

## 5 The proofs

Every theorem holds for every value of the constants, under the assumptions
named in the modules; TLC evaluates these in the runs. Each `_proofs` module
has an inductive invariant, the lemmas that the initial states have it and
every step keeps it, and the theorems.

* **Locks_proofs**, signals: `TypeCorrect`, `HandlerBlocks`,
  `NoHandlerReentered`, `DieAloneStrands`, `MaskIsRestored`. The first
  invariant is about the stack:
  only its top is in C code (`OnlyTheTopIsInC`); a loop about to call a
  handler has its signal recorded and blocked (`CallsWhatIsRecorded`); a
  signal whose handler runs is blocked and not recorded, so that no inner loop
  finds it (`HandledIsNotRecorded`); the mask that an unfinished assignment to
  `%SIG` will restore covers the handlers below it (`SavedMaskCovers`); and
  the handlers on the stack are of different signals (`HandlersDistinct`).
  The two properties are not inductive without the frames in C code, which
  have taken a signal or a mask and have still to act on it.
  `DieAloneStrands` is an action property:
  each step but an exception keeps "noticed" for every recorded signal.
  `MaskIsRestored` has an invariant of its own, `MaskInv`: the blocked signals
  are those of the frames on the stack that hold one (`Held`), and what a
  frame will do to the mask when it is left is right for the mask it was
  entered with (`Remembers`). It is false once a handler in C dies, which takes
  as many signals as the limit; `EachWasSent` says that this many have then been
  sent.
* **Locks_proofs**, locks: of the environment lock `EnvLockTypes`, `WriterIsAlone`,
  `ReadersAreCounted`, `NoWriterIsForgotten`, for a finite set of threads.
  `Bookkeeping` says which place goes with which state of the mutex and of the
  wait set, and exclusion follows from it; the count is a cardinality, and each
  step adds or removes one. Of the lock of a shared variable `SharedLockTypes`,
  `Excludes`, `ScopesAreCounted`, `NoWakeupIsLost`, `Implements`. `Places_OK`
  ties places to the owner and to the two wait sets. `Implements` maps every
  step to a step of `Monitor` or to a stutter: `CountIsScopes` gives the depth
  at which the real lock lets go, `Places_OK` the mode of the thread that does.
  Of the run's own specification `TypesAreKept`.
* **Queues_proofs**: of the semaphore `SemTypeCorrect`, `NobodyForgotten`,
  `NeverBelowZero`, over the monitor's own invariant; of the queue
  `QueueTypeCorrect`, `NoItemIsLost`, `FirstInFirstOut`, `PairIsNotForgotten`,
  `CrowdIsNotForgotten`; and of the run's own specification `TypesAreKept`,
  `OrderIsKept`, `NobodyIsForgottenWhenUsed`. `BodyOutcome` says once what a
  stretch of any method under the lock can come to (it gives up, waits for
  room or for items, changes the queue, or the queue is ended). The invariant
  `QInv` says which threads are in the monitor (`InMonitor`), what a call
  has for arguments (`CallTypes`, `ArgsInv`), that the items offered are
  numbered without gap or repetition (`Accounted`, by an assignment of
  numbers to threads instead of a sum over them) and that each is in one place
  (`Conserved`). That nobody is forgotten is false in general: each change
  signals one thread, of whichever kind, and a call may want several items.
  It is proved for the two ways of use where one signal is enough: one producer
  and one consumer (`DuoInv`), and any number of threads on a queue without
  limit that take single items (`UnlimitedInv`).

* **Threads_proofs**: `ThreadTypes`, `CountersAreRight`,
  `NothingUsedIsFreed`, `ErrorIsKept`, for any number of threads. A stack of C
  frames is seen as a set of frames with a shape (`Shape`: no frame is on
  it twice, which ones can only be last or first, that clearing an interpreter
  is followed by giving up a reference or by freeing the structure), and each
  action as the exchange of its top frame for a few others (`Turns`). The invariant
  has two halves. `ControlInv` says which frames can be where: a frame of `create()`,
  `list()` or `detach()` comes with the pool's mutex (`PoolIsHeld`), the last
  steps of a thread with its state (`Ending`), those of `join()` and `detach()`
  with the flag that makes them unique (`Joining`, `OneJoiner`), the freeing of
  a structure with its being unreferenced and off the list, once
  (`Freeing`, `OneEnd`). `CountInv` says that the counter is the cardinality of
  the set of holders (`Accounted`), that an interpreter is there as long as its
  thread is referred to and runs, or died (`Interpreters`), that the pool's
  counters are right, and that each structure not yet freed is in
  `total_threads` (`TotalIsRight`), which is what the veto at exit rests on. The
  central lemma is that no step gives a reference to a thread that has none.
  None of this needs the mutexes of the threads, only that of the pool.

* **CodeTable_proofs**: `TypeCorrect`, `CallbacksReachTheirSubs`,
  `ResultsAreTheirCalls`, for any number of subs, addresses and calls. The
  first invariant, `TableInv`, is about references: what the table or a call
  on the stack has got exists (`KeysAreAddresses`, `RunsWhatExists`), the
  address of a sub never changes (`CallbackKeepsAddress`) and a callback that
  has not been unregistered has its entry (`RegisteredIsInTable`). It is kept
  because a new entry is for the address of a living sub, and no two living
  subs share one. The second, `ResultInv`, is about the stack: calls below the
  top are in a sub or in a destructor (`WaitingBelow`), and unless a
  destructor has called back the two slots have what the top has put there
  (`SlotsAreTheTops`).
* **Data_proofs**, handles: `HandleTypes` and `Harmless`: on a handle that is
  not line buffered (`Plain`), with handlers that close but do not pop, no
  interrupted function goes on with what a handler has freed, for any size of
  the buffer and any lengths. The invariant says that the layers are in use
  exactly while a handler runs (`LockedInHandler`), that between two steps of
  the functions that are active the handle is whole (`ActiveIsWhole`), and
  that what a handler has closed is cleared on both layers (`ClosedInUse`),
  which is what `perlio_async_run()` looks for. Without `Plain` it is false
  (finding 4).
* **Data_proofs**, arrays: `ArrayTypes` and `SpareSlotsHoldNothing`, for a block
  of any size. The invariant has two parts: the block is what the window says
  (`Shape`: off slots before it, AvMAX + 1 in it, all of them values), and
  slots outside of the elements are NULL (`Tidy`). Each operation is a lemma
  that it keeps both. They rest on three facts: making room keeps them
  (`ExtendKeeps`), elements written within the window keep them
  (`WriteKeeps`), and the window may move if what it leaves is NULL
  (`WindowKeeps`). `Tidy` needs `~Slack`; the proof shows that `unshift()`
  needs nothing, because it moves elements up only when the slots before the
  array are used up. That `Max` of the elements before a deleted one exists
  follows from the well-foundedness of `<` on `Nat`.
* **Data_proofs**, arrays as lists: `ArraysAreLists`, that ArrayTable implements
  PerlList (`IsAList`), for a block of any size, any lists and any indices.
  The mapping is `ListOf`, the window as a sequence. For each operation a lemma
  says where the elements are afterwards (`StoreAt`, `UnshiftAt`, ...) and one
  that the list is what the operation of the same name makes of it
  (`StoreLists`, `UnshiftLists`, ...). `splice()` goes through `Moved`: whichever
  of its five ways it takes, the elements before the hole stay where they were
  and those after it are `n - length` further up, as the list sees it, when the
  new ones are written. Only `Store`, `Push` and `Fill` need `~Slack`: they
  raise AvFILLp over slots that they do not write, and these are empty because
  of `Tidy`. `unshift()` and `splice()` write every slot that they win.
* **Objects_proofs**, values: `SvTypes`, `CountsAreRight`, `NoneIsForgotten`,
  `ClassIsTold`, for any number of values, variables and elements, and
  destructors nested to any depth. The invariant, `HeapInv`, has two halves.
  `DataInv`: a count is the cardinality of the strong references to the value
  plus its places on the stack of temporaries (`Exact`), references lead to values
  that are not freed (`ToLive`), and the back-references are the weak
  references (`Backed`). `StackInv` is what makes the first one inductive: a
  destructor runs right above the `sv_clear()` of its object (`OverItsClear`,
  `UnderItsDestructor`), which is on the stack once (`OneClear`), and as long as
  it runs `$_[0]` is a reference to the object (`Own`). So the last of the
  other references to an object that is being destroyed is never its last
  one (`LastIsNotCleared`), and nothing starts a second `sv_clear()`. What a
  `sv_clear()` takes apart is in one place (`ItersClear`, `ItersOnce`); a value
  with count zero is at one (`ZeroIsCleared`). For `ClassIsTold`, the class that
  an active `sv_clear()` remembers is the one its object was last given to
  (`ClassWasTold`). The assumption says that no variable is an element.
* **Objects_proofs**, packages: `AnswersAreCurrent`, that caches answer what a
  search without them would (`CachesAreCurrent`), and `MroTypes`, for any finite
  set of packages, any `@ISA`s and any number of changes; and of the run's own
  specification `ObjectTypes`. The invariant, `MroInv`, says that a cached
  linearization is the one computed from nothing (`LinesCurrent`), that
  `PL_isarev` has at least those that inherit (`HeirsKnown`), and so that a
  change wipes every line, method and destructor that it makes false: only lines
  through the changed package differ afterwards. `Depths` and `DepthsExist` take
  the search apart into steps by depth, `Stable` says that a line that is
  found does not change further up, and `LinesJoinedIs` and `LineIs` that it starts
  with its package and has none twice. Two hypotheses: no package inherits from
  itself (`~Cycles`), and no `@ISA` names UNIVERSAL (`UnnamedUNIVERSAL`);
  without the latter `HeirsAreKnown` is false (section 7).
* **Exceptions_proofs**: `ExceptionTypes`, `EvalsCatch`, and of the run's own
  specification `AllTypes`, for any number of C functions and contexts. The
  invariant relates the two stacks.
  `Static` is about the C functions alone: which can be above which (`Under`),
  how much of Perl's stack each has found and leaves alone (`Heights`,
  `Above`). `Zones` says which function the entries between two heights belong
  to; `Evals` that each eval has an owner, the function whose loop it is in,
  which has a catcher or is the program's own; `Ordered` that the owners are in
  the order of the evals; `Guards` that the first entry of a `call_sv()` with
  `G_EVAL` or of a compilation stays as long as that function does; `Dies` and
  `ExitsClean` what `die_unwind()` and `my_exit()` have still to find. For a
  jump under way, `JumpsTo` says where it will end: each catcher it meets
  passes it on, up to the one that has the eval. `CatchFlags` and `OldFlags`
  say what the catchers' flags are at any moment: up exactly while a
  `call_sv()` without `G_EVAL` waits above. It is proved for
  `~ExitsOverTied`; without, `EvalsAreCaught` is false (finding 7).
* **Data_proofs**, integers: `ArithTypes` and `ArithExact`, for any even `H`,
  that is any width, and any precision of the floating type up to it. An operand is
  seen as its sign and absolute value (`Operand`, `WithSign`), and each operator as
  what it makes of those: sums by the comparison of the absolute values
  (`SumOfIs`), products by halves as `pp_multiply()` has them
  (`LongTimesShortIs`), remainders by the four cases of signs (`RestIs`), shifts
  as products and quotients by powers of two (`RestOfProduct`, `DivDiv`), and
  powers by repeated squaring (`RaisedIs`). What the recursive definition of a power
  computes is shown by induction over the numbers whose claim fails: that such a set
  has a least member (`LeastOf`) follows from the well-foundedness of `<`, and
  needs no operator as a parameter. `ArithExact` is for `~BigPower`; without,
  it is false (finding 3). `BitsAssumption` spells out the doubling of powers of
  two up to the width, which the provers do not know of `^`.
* **Data_proofs**, texts: `GrokTypes` and `TextExact`, for any base and any number of
  digits. `FewDigits` says that the digits that are read without a check give
  a value below the power of the base with that exponent, and so do not
  overflow; `ReadsTheNumber` that the value read so far is the digits', or that
  it has become too large and stays so. `FitsIs` is the comparison before the
  last digit that fits, with the quotient and the rest of `UV_MAX` by the base.
  `GrokAssumption` bounds the powers of the base for the unchecked digits.
* **Data_proofs**, files: `FilesAreSound` and `FileIsAFile`, that PerlIOBuf
  implements PerlFile (`IsAFile`), for a buffer of any size and files and data of
  any length. The mapping is the content (the file with what is still to be
  written in its place), the position, and what the next reads return (the rest
  of the buffer, then of the file). The invariant, `GoodHandle`, says where the
  kernel is: at the end of a buffer that was read, at the start of one that is to
  be written, at the end of a file that is appended to; and that the part of
  the buffer that counts has been set (`HasBytes`). The latter is what fails
  with `UngetcAtStart` and the former with `AppendSeeks` (section 7), so both are
  hypotheses. Lemmas say what `Flush`, `BufFill`, one byte read, written or put back
  make of those three (`FlushIs`, `BufFillIs`, `ReadByteIs`, `WriteByteIs`,
  `PutBackIs`); that bytes written one after the other are the bytes written
  together is `OverMore`. Reads and writes of many bytes are functions of how many
  have been moved (`ReadFrom`, `WriteTo`). That these are what their recursive
  definitions say needs no induction theorem with an operator: the functions
  exist by recursion on `Nat`, and their claims hold for the least number for
  which they could fail.

* **Hash_proofs**: `HashSound` and `HashTypes`, for any keys, any sizes of the
  table (powers of two, as `hv.c` has them), any order of the buckets and
  any number of calls that empty the hash inside of each other. The invariant,
  `Sound`, is about a number of buckets and a set of entries. `TableOf` says
  that each bucket's chain has exactly the entries of the set whose hash value
  leads there, each once; `Entries` that no two have one key and that the
  counters are cardinalities (the one of placeholders may be ahead while the
  hash is emptied); `Pointers` that an entry kept for the iterator is beside the
  set exactly when `HvLAZYDEL` is up, and that what it leads to is in the set;
  `Stack` what holds of the calls that are active: their indices are buckets
  there are, or nothing is left to free, one that clears a restricted hash is at an entry that is in the
  table and is no placeholder, at most one such call is active and it is the
  last, and the hash is then restricted. The lemmas about chains say what each
  operator makes of a table: `WithoutIs`, `OneMoreIs`, `HeadGone`, and
  `SplitIs`, where an entry of bucket `b % m` comes to be in bucket `b`
  (`RestOfRest`); `NextValueIs` that the next value of a restricted hash is in
  the table. That the iterator's next place is within the table takes that the
  exclusive or is a number at all (`XorIsNat`). There are two hypotheses.
  `lock_keys()` names its keys: the other form leaves an entry kept for the
  iterator in a restricted hash, where a clear drops it, and `HashIsSound` is
  false; a restricted hash keeps nothing for the iterator otherwise, which is a
  part of the invariant. And `~Untidy`: while there are fewer placeholders than
  are counted, the theorem says nothing of a program that uses the hash
  (finding 2), nor of one that unlocks a hash that is being cleared. The limits
  of the model itself (`BeingCleared`, `InBounds`, section 2) apply as well. Of
  the run's own specification `DataTypes`.

Only model-checked: all liveness, as TLAPS does not prove it;
`EachReturnsAllOnce` of HashTable, which needs the order in which an iteration
takes the buckets as a permutation that survives every change; and the
properties of the runs that end in a violation. The temporal parts of the proofs
are the usual step from an inductive invariant to `[]`.

## 6 Findings

Runs that state what a document says and are violated by what the code does.

1. `threads_deadlock`, `threads.xs` 274: `S_ithread_clear()` destroys the
   interpreter of a thread with the thread's mutex held. If that interpreter
   has an object for its own thread in a global, `ithread_mg_free()` asks for
   the same mutex, and `join()` or `detach()` does not return.
2. `hash_clear`, `hv.c` 2034: `hv_clear()` sets the number of placeholders to
   zero only after all entries are freed. A destructor that inserts keys
   meanwhile, until the hash is full, makes `S_clear_placeholders()` look for
   placeholders that are gone ("You can't get here"). A perl 5.36 crashes.
3. `pow`, `pp.c` 1152: the number of bits of a power is computed in a UV and
   wraps for a large exponent, which is then taken for small: `3 ** 2 ** 63`
   as an integer gives 1. (The same line converts the right operand with
   `SvIV_please_nomg(svr)`, so that the exponent may have been a floating one.)
4. `perlio`, `perlio.c` 4165 and 2474: `PerlIOBuf_write()` ignores the result
   of the flush of a line-buffered handle, inside which a handler may have
   closed it; and `S_perlio_async_run()` asks only the unix layer whether
   it has been cleared, so that a handler that pops the upper one is not
   noticed. `t/io/eintr.t` 5-8 asks for neither to use freed memory.
5. `mro`, `mro_core.c` 564: when `@ISA` changes, the destructor cached for the
   package is dropped, and those of its heirs are not: objects are still
   destroyed by what was found before. `perlobj.pod` 939: DESTROY "is called
   just like any other method".
6. `call_list`, `perl.c` 5281: after a `BEGIN` block has died, `call_list()`
   makes the error a string with its own catcher still on the chain. If that
   dies, inside an eval, it passes the jump on to itself, for ever.
   (`perlinterp.pod` 221-225.)
7. `exit_tied`, `perl.c` 3168: `call_sv()` with `G_EVAL` takes the error of any
   eval that is to be restarted, without the comparison that `docatch()` makes
   (`pp_ctl.c` 3534). If `exit` is called in a destructor and a tied variable
   that was localized further out dies in STORE, the main program is run on
   by the destructor's loop. (`perlinterp.pod` 221-225.)

## 7 Other observations

Seen in the models, or the reason why a property is stated with an exception.

* Signals. `despatch_signals()` sets `PL_sig_pending` to zero before its loop
  (`mg.c` 1668). A handler that dies leaves the loop; signals behind its
  position stay recorded and nothing looks at them until some other signal
  comes, whereas `perlipc.pod` 250-270 has them handled at the next safe point.
  A handler that deletes entries of `%SIG` can make an outer loop
  find a recorded signal without a handler (`mg.c` 1785, 3687), which ends the
  program. The exception at the pending limit (`mg.c` 1628) leaves the signal
  that the kernel blocked for the C-level handler blocked: `MaskRestored` is
  checked away from the limit.
* Lock. `cond_timedwait()` with a time the system rejects croaks with the
  mutex locked (`shared.xs` 717); nobody can lock that variable again.
* Queue. `dequeue()` signals one thread (`Queue.pm` 90), which may be another
  consumer; it finds the queue empty and waits again without passing the
  signal on, and a producer that waits for room stays blocked although there
  is room (documentation of `limit`, 498-499). It takes two consumers and a
  limit, which the run does not combine. Consumers that wait for different counts can starve one another
  (`Queue.pm` 41); raising the limit tells nobody (49); a producer that waits
  when `end()` is called adds its items afterwards (37); `end()` on a queue
  with a limit may leave a consumer blocked, if its signal goes to a producer
  that finds no room (69).
* Threads. (a) A thread that cannot be started is on the list, with the pool's
  mutex free, from `threads.xs` 1041 until it is unlinked: `list()` can make an
  object for it, and its structure goes anyway. The model lets that happen and
  does not follow such an object. (b) After a thread has marked itself
  finished, `detach()` by another may free its interpreter while it is in
  `thread_locale_term()` (692). (c) `join()` and `detach()` can hold a
  thread's mutex while a nested last reference wants `create_destruct_mutex`,
  while `list()` holds that and wants the thread's mutex; it takes four
  threads. (d) `joinable_threads` is -1 while a running thread is being
  joined, and the warning at exit can print that. (e) A detached thread with
  an object for itself in a global is never freed. (f) The section of
  `join()` under the pool's mutex (1343), which seems to be there for a
  counter, is what keeps `list()` from bringing a thread back after its last
  reference has gone (mutant `JoinedNoPool`).
* WebPerl. (a) The key of a callback is an address. After `unregister()` and
  the end of the sub, a sub that is made and registered at the same address
  is what an old callback calls, where "code table entry does not exist" is
  meant. (b) The result of a call waits in `Perl._call_code_rv` while
  `_call_code()` is left. If the sub was unregistered during the call and that
  was the last reference, what it had closed over is destroyed there; a
  destructor that calls back through JavaScript overwrites the result.
  (c) `sub_once()` unregisters after the call: one that dies stays, and one
  that is called from inside itself runs again.
* Hash. After `lock_keys(%h)`, which makes placeholders of the keys under an
  iterator too, `%h = ()` sets the iterator's entry to NULL (`hv.c` 2045) and
  leaves `HvLAZYDEL` on; the next `each` and `delete` free an entry that is
  still on its chain, against `sv.h` 513 (`LockForms` with `"keys"`). The same
  comes of a destructor that unlocks the hash that is being cleared, deletes
  the key under the iterator and lets the clear go on (`Untidy`). A destructor
  that deletes the very key whose value is being let go of frees a value that
  is on its way out already (`hv.c` 2025-2027), and one that undefines a large
  hash which is being emptied and stores in it again leaves the outer call with
  an index past the end of the new array (2185); these two are outside of the
  model.
* Array. An array with spare slots at both ends that is made larger has the
  wrong slots set to NULL (`av.c` about 120): new elements are what `realloc()`
  left there, whereas `av_exists()` relies on NULL (1122). (`Slack`.)
* PerlIO. `ungetc()` at the start of a `+<` handle followed by a print writes
  a whole buffer with bytes that were never set (`UngetcAtStart`). On `+>>`, a
  seek, read and print make `tell()` return the old position (`AppendSeeks`).
  On a FIFO opened `+<`, what was read ahead is lost when a print follows. A
  handler that prints to the handle whose print it interrupts corrupts the
  data, as `perlipc.pod` 299-303 warns. After a close in a handler the upper
  layer is freed by nobody.
* Values. An object that DESTROY has brought back and blessed into another
  class is given to that class's DESTROY at once, though it is referenced.
* Methods. A change of `@ISA` that croaks because of a circle leaves
  `PL_isarev` as it was (`mro_core.c` about 640), so that `get_isarev()` misses
  heirs (`Cycles`). `mro::set_mro()` drops as little as finding 5. An `@ISA`
  that names UNIVERSAL after another parent gets a linearization without it,
  as `stored` has it from the start (`mro_core.c` 348, 362, 372): `PL_isarev` of
  UNIVERSAL and its parents then lacks the package, and it is not told of a
  later change of `@UNIVERSAL::ISA`. No `@ISA` of the runs does so.
* Exceptions. `exit` inside an eval with a localized tied variable whose STORE
  dies is cancelled, and the program goes on after the eval.

## 8 What is not modelled

* Compilation, op trees, regular expressions, floating point, `Storable`:
  functions over data of unbounded size, in which order plays no part. They
  are by far the largest part of the source.
* `cpan/`, the ports (`win32/`, `vms/`, ...) and generated code.
* Inside the modelled parts: `PERL_SIGNALS=unsafe` and the signals that are
  never deferred; `POSIX::sigaction()`; the two-argument `cond_wait()`;
  creation and destruction of the lock of a variable (`shared.xs` 325);
  `$thr->kill()` and `exit()` in a thread; what becomes of objects made for a
  thread whose creation failed; the one iterator of a shared hash; the locale
  lock; several interpreters in WebPerl, and `Perl.GlueTable`; tied hashes and
  arrays; what destructors do to a hash beyond the limits of section 2; names of stashes and shared key strings; c3 and renamed stashes;
  layers other than `:perlio` and `:unix`, and the table of handles; loops,
  sorts and formats among the contexts.

## 9 The plan

The modules were written in the order of section 2: signals and locks first,
as they have the most interleavings, then what is built on them, then the data
structures. Next:

1. **GlueTable**: JavaScript values in Perl; `coderef()` keeps only the key,
   tied arrays and `toperl()` closures keep the object. Property: whatever is
   left of an object reaches its value or nothing.
2. **Shared data**: proxies, the shared side's counts, the one iterator of a
   shared hash (`shared.xs` 1472-1520); creation and destruction of the
   `user_lock` (325, 398); the two-argument `cond_wait()`, in SharedLock.
3. **Signals and threads**: `$thr->kill()` records a signal in another
   interpreter; SafeSignals with a second actor.
4. **Proofs**: `EachReturnsAllOnce`. Liveness of Ithreads: a finished thread
   without references is freed.
5. **Hashes**: what the model keeps destructors from doing (section 7), as runs
   of their own.

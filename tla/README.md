# Verification of my_libs

TLA+ specifications, model checking and proofs for `my_libs`, a C library of
locks, threads and containers taken from the `mysys` library of MySQL
(`src/src/*.c`, `src/include/*.h`).  This document says what the library
consists of, what is modelled and how, what each run checks, what is proved
and what is left out.

## 1. The system

### 1.1 Components

| component | state | operations | correct when |
|---|---|---|---|
| `rw_pr_lock_t` (`my_pr_rwlock.c`), a read/write lock that prefers readers | a mutex, the condition `no_active_readers`, `active_readers`, `writers_waiting_readers`, `active_writer`. A writer keeps the mutex as long as it holds the lock | init, destroy, rdlock, wrlock, unlock | any number of readers or one writer; no wakeup is lost; a reader is not held up by waiting writers; the lock may be destroyed by whoever unlocks it last |
| `my_rw_lock_t`, portable (`my_rwlock.c`), prefers writers | a mutex, conditions `readers` and `writers`, `state`, `waiters` | init, destroy, rdlock, tryrdlock, wrlock, trywrlock, unlock | the same exclusion; queued writers get in; the last of them wakes all readers; the asserts hold |
| `my_rw_lock_t` on slim locks (same file) | a slim lock of Windows, `have_exclusive_srwlock` | the same | released in the mode it is held in, though `unlock` is not told which |
| choice of the lock (`my_rw_init`, `check_srwlock_availability`, `my_pthread_once`) | `once_control`, `have_srwlock`, the function pointers, all static | `my_pthread_once` from any thread | the routine runs once; who returns finds it done; every lock is used as what it was made as |
| threads (`my_pthread.c`) | thread ids, handles, the parameter of a thread that starts | create, start, exit, join, cancel, the deadline of a wait | when a join succeeds its thread has ended, handles are closed and parameters freed once, whatever fails; no wait outlasts its deadline |
| `my_list` | doubly linked items, the mark `__foreach` in each | add, prepend, append, sortadd, insert, lookup, delete, foreach, rforeach, clear, uninit | the chain is the same in both directions; a callback may change the list under the loop |
| `my_queue` | an array as a heap, `elements`, `max_elements`, `max_at_top`, `auto_extent` | init, resize, reinit, insert, insert_safe, remove, replaced, fix | the best element is on top, nothing is lost |
| `my_rbtree` | red-black tree with one shared sentinel, a counter in each element, bytes allocated | insert, delete, search (exact, by flag, edge, next), walk, record_pos | red-black after every change; searches find what their flags say; memory is accounted for |
| `my_dyn_hash` | one array of links, `records`, `blength` | insert, delete, update, replace, first, next, reset, free | every record is in the chain of its home bucket |
| `my_hash` | array of chains, items marked while a traversal is at them | lookup, lookadd, add, delete, foreach, begin, next, pre, clear, uninit | it is a map; a rehash or a deletion in a callback does not lead the loop astray; iterators agree with it |
| `my_array` | a growing buffer | init, insert, alloc, pop, set, get, delete, free, uninit | never outside of what is allocated |
| `my_malloc`, `my_zk`, headers | none of their own | | |

### 1.2 How they interact

* `my_rw_init` calls `my_pthread_once`, which runs `check_srwlock_availability`
  once; every other `my_rw_*` function tests `have_srwlock` and goes on with one
  of the two implementations.
* Both portable locks are built from a mutex and condition variables.
* `my_list_foreach` and `my_hash_foreach` call a function of the caller, which may
  call the list or the table again.
* `rbtree_insert` calls `rbtree_free` when the memory limit is reached, and
  starts again on an empty tree.
* The links of `my_dyn_hash.c` are the elements of a `my_array`: an insertion takes
  one by `my_array_alloc`, a deletion gives the last one back by `my_array_pop`.
* A thread that is to be joined may be waiting in `pthread_cond_timedwait`: the
  join depends on how its deadline is turned into milliseconds.

### 1.3 What is hard

* **Concurrency.**  Every interleaving of the lock functions, statement by
  statement: `rw_pr_unlock` reads `active_writer` without the mutex,
  `my_pthread_once` reads `once_control` without anything, `srw_unlock` finds out
  from an unprotected flag how to release.  Conditions may wake spuriously.
* **Lifetime.**  A `rw_pr_lock_t` may be destroyed as soon as it is unlocked,
  although another thread is still returning from its unlock.
* **Reentrancy.**  A callback deletes or inserts elements of the list the loop
  walks through, or makes a table larger under it.
* **Names that are given again.**  The id of a thread that has ended may be the id of
  another one when it is joined.
* **Long sequences of calls.**  Red-black deletion, the splitting and merging of
  chains in `my_dyn_hash`, a heap after removals in the middle.
* **Limits.**  The counter of 31 bits, the memory limit, refused memory, a full queue,
  a clock that is set while somebody waits for it.

The full list, each hazard at its line and with the properties that watch it, is
`hazards` in `PROJECT.json`.

## 2. How the code is modelled

* *The unit of atomicity in the concurrent modules* is what lies between two
  statements that other threads can see.  `pc[t]` names the statement thread `t`
  executes next.  Taking a mutex is a step of its own; the last statement under a
  mutex includes its release when no field is read without the mutex.
  `pthread_cond_wait` releases the mutex and sleeps in one step and takes the mutex
  again in another.  In `WinThreads` it is a call of the system.  The sequential
  modules have one action per call, and `MyList` and `MyHash` one per call and per
  turn of a loop that calls back.
* *Observers.*  Some variables are not in the code: `begun` and `ended`
  (`PthreadOnce`), `todo`, `asked`, `lost` and `last` (`MyList`), `did`
  (which call was made last, so that no call can pass for another one in a
  refinement), `kept` (`RbTree`), `disturbed` (`MyQueue`); `cancelled`, `claimed` and
  `joined` (`WinThreads`).
* *Data* are reduced to what the properties tell apart: an element of a queue or a
  tree is its key, hash numbers are keys modulo `HashSpan`, memory is counted in
  elements.
* *Undefined values* are choices: the fields of an item that `my_malloc` returns,
  whether memory is found, which trylock fails.
* *The source as it stands.*  Some statements of the containers are half way through
  being ported (`item->next` beside `item->__next`, `length` of the iterator
  beside that of the list).  Where only one field has the type that the statement
  needs, that one is meant.  In `my_hash.c`: an item has two fields `key`, the caller's
  pointer and a number, and every statement has a type that only one of them fits
  (`key_free` and `= NULL` the pointer, `HASH_INDEX` and `ops->hash` the number);
  `prev` and `pre` are one; `HASH_INDEX` without a size means that of the table;
  `return pre` in `my_hash_lookadd` returns what was found; `HASH_GROW_STEP` and
  `SD_HASH_DEFAULT_SIZE` have no definition and are constants here.  In
  `my_dyn_hash.c` the arguments of `my_array_init` are not in its order; the initial
  number and the increment are taken by their names.
* *Fault definitions.*  A definition commented "Fault: ..." is never used by a
  specification.  It is a plausible mistake in the code, put in the place of the
  definition after it to see that the property named in `mutants` of
  `PROJECT.json` would notice it.

## 3. The modules

| module | what it is | corresponds to |
|---|---|---|
| `ProofLemmas` | induction, counting, functions defined by recursion, linked sequences, sequences in a row, orders, rearranged sequences: lemmas the proofs share | |
| `RWLock` | abstract: sets of readers and of writers, four actions | what all read/write locks promise |
| `PrRwLock` | the lock that prefers readers | `my_pr_rwlock.c`; `Inner` are the steps of a call that has begun, `RdLock`, `WrLock`, `Unlock` the calls, `Retire`/`Destroy`/`ReInit` the user that unlocks and destroys |
| `PrRwLockProofs` | theorems about it | |
| `MyRwLock` | the portable `my_rw_lock_t` | `my_rwlock.c`, the branches with `have_srwlock` false |
| `SrwRwLock` | the slim one, with the system's slim lock as an external lock that does not check how it is released | `srw_*` in `my_rwlock.c` |
| `AnyRwLock` | composes the two: either is `my_rw_lock_t` | the tests of `have_srwlock` |
| `AnyRwLockProofs` | theorems about the portable lock, the slim one and the composition | |
| `PthreadOnce` | `my_pthread_once` for any routine | `my_pthread.c` |
| `RwInit` | `PthreadOnce` composed with `check_srwlock_availability` and `my_rw_init`, on each version of Windows | `my_rwlock.c` |
| `RwInitProofs` | theorems about it | |
| `WinThreads` | users who create, join and cancel threads, and the threads; the system gives ids and counts handles | `pthread_create_base`, `pthread_start`, `pthread_join_base`, `pthread_cancel`, `get_milliseconds` in `my_pthread.c` |
| `WinThreadsProofs` | theorems about it | |
| `MyList` | the list, in memory cells, and its traversals | `my_list.c` |
| `MyListProofs` | theorems about it | |
| `PriorityQueue`, `MyQueue` | a bag with a best key; the heap | `my_queue.c` |
| `MyQueueProofs` | theorems about the heap, and that it is a `PriorityQueue` | |
| `KeyCounts`, `RbTree` | how often each key was put in; the tree, with the slots of pointers `parents` consists of | `my_rbtree.c` |
| `KeyedRecords`, `DynHash` | records with a key; the links | `my_dyn_hash.c` |
| `MyArray` | how many elements are in use and fit; extended by `DynHash` | `my_array.c` as `my_dyn_hash.c` calls it |
| `KeyValue`, `MyHash` | a map; the table, in memory cells, and its traversal | `my_hash.c` |
| `MyHashProofs` | theorems about it, and that it is a `KeyValue` | |
| `MC*` | the modules as TLC runs them: symmetry, the options of trees | |

`map` in `PROJECT.json` gives the lines of each definition.

### 3.1 Some correspondences worth knowing

* `PrRwLock`.  A thread holds the lock from the step that records it
  (`active_readers++`, `active_writer= TRUE`) to the one that takes the record away;
  `ReaderPCs` and `WriterPCs` are the statements in between.  `Retire` is a user
  who is about to unlock last and then destroys the lock, under the guarantee the
  header asks for: all others are in the tail of `rw_pr_unlock`, or out.
* `RbTree`.  The code is written out twice, mirrored; here `s` stands for a side and
  `Other(s)` for the opposite.  `parents` holds addresses of pointers; here *slots*, an
  element with a side, or the root.  `Rotate` writes through a slot as the code does,
  so that a wrong slot writes to the wrong place.
* `DynHash`.  `FindLow` and `FindHigh` are the state machine with the flags
  LOWFIND, LOWUSED, HIGHFIND, HIGHUSED that `my_hash_insert` runs over one chain.
  `MoveLink`, which runs off the array when it does not find its link, leaves a link
  without record then, which `HomeChains` would notice.  Whether an insertion goes
  ahead is decided by `MyArray`: with `Full` it may be refused.
* `MyHash`.  `at` is the item whose callback runs; every other action may be that
  callback's.  A deletion of `at` only frees its key and value (`Bury`); `Continue` or
  `Break` does the rest (`Unlink`), reading the next item before.  `Moved` gives the
  buckets after `rehash` directly: it visits all items in order and puts each in front
  of its new chain.  `IterPre` is the set of outcomes of `my_hash_pre`: empty
  where its loop does not end.
* `WinThreads`.  A handle is known by the variable that holds it, the local `handle`
  of a call or the `out_handle` a caller keeps (`saved`), so that `open[t]` can be
  compared with those who hold a handle of `t`.  A thread keeps its id as long as
  it runs or a handle is open; after that `BeginThread` may give the id again.
* `MyQueue`.  `disturbed` is set when `queue_remove` puts the last element below a
  parent it belongs above: `_downheap` never looks up.  Until then, and again after
  `queue_fix`, the queue is a `PriorityQueue` that gives the best key first; in
  between it still loses and invents nothing, wherever it removes from.

## 4. The runs

Every property of a passing run is watched by a mutant of the code that breaks it.

| run | bounds | what it shows |
|---|---|---|
| `PrRwLock` | 4 threads; 10 479 states | `ImplementsRWLock`, and with it exclusion; the unprotected read of `active_writer` is never stale (`UnlockOwnsMutex`); `NoLostWakeup`; `DestroySafe`; `WritersGetIn`; `PendingReaderGetsIn`, which the header promises to the deadlock detector |
| `AnyRwLock` | 4 threads; 66 259 states | `ImplementsRWLock` for either lock; `ReleasesHeldMode` for the slim one; for the portable one `AssertsHold`, `NobodyStranded`, `QueuedWriterGetsIn`, `EverybodyGetsIn` |
| `RwInit` | 4 threads, each version of Windows; 10 800 states | the routine runs once and nobody returns before it has (`RoutineRunsOnce`); `have_srwlock` no longer changes once a lock is made and no null pointer is called (`UsedAsMade`); every init returns (`InitReturns`) |
| `WinThreads` | 2 users, 2 threads, 2 ids, a DWORD of 3 bits; 353 277 states | handles and parameters (`ResourcesAccounted`), ended when joined (`JoinedHasEnded`), waits no longer than asked for, and endless ones only without a deadline (`WinTypeOK`), and joins that return unless their thread waits for ever without a deadline (`JoinReturns`) |
| `MyList` | 3 cells, 2 data, one traversal; 21 931 states | the chain in both directions, no leak but what `my_list_clear` drops, and each deletion put off made up for (`WellLinked`); the loop never stands on freed memory (`CursorAlive`), visits all that stays (`NothingSkipped`); a deletion takes out the item it is for, then or when the loop leaves it, and no other (`OnlyAskedLeave`) |
| `MyListDelete` | as before, no traversal | violated, see 6 |
| `MyListNested` | two traversals | violated, see 6 |
| `MyQueue` | up to 6 elements, 3 keys; 18 160 states | `HeapOrder` while not `disturbed`, and an array that is never too small; `ImplementsPriorityQueue` |
| `MyQueueTop` | as before | violated, see 6 |
| `RbTree` | 6 keys, three ways to make a tree; 52 839 states | see below |
| `DynHash` | 5 records, keys 0, 1, 2, 3, 4, 8, hash numbers modulo 8, an array that grows by 2; 84 940 states | `HomeChains`, with a number of buckets and of links that fits, `AllFound`, and that the table is a set of keyed records with and without `my_hash_UNIQUE`, which calls a key taken only if another record has it and a record missing only if it is not there |
| `MyHash` | 4 cells, keys 1, 5, 6, 9, tables of 1 bucket, which grows to 4, or of 2; 72 972 states | the chains, marks and counts (`WellLinked`), the traversal (`CursorAlive`, `NothingSkipped`), the iterators (`IteratorsAgree`), and that the table is a map (`ImplementsKeyValue`) |

`RbTree` checks `RedBlack` (the code's own `test_rb_tree`, an intact sentinel, and what
the 64 entries of `parents` are reckoned from), `NextIsNeighbour` and `SearchKeyFinds`
(every flag, every step from every found key; `RecordPosOrdered` is part of it),
`Accounted` (memory, elements, keys freed) and `ImplementsKeyCounts`.

The type invariants of `AnyRwLock`, `MyList`, `MyQueue`, `RbTree`, `DynHash` and
`MyHash` are conjuncts of `ReleasesHeldMode`, `WellLinked`, `HeapOrder`,
`Accounted`, `HomeChains` and `WellLinked`.

### 4.1 Why the bounds are enough

* *Threads.*  Four threads are a holder, a thread that is woken, one that comes in
  between and one that waits beside them; the fields tell threads apart by
  number only (0, 1, more).  For all locks and for the initialisation the theorems
  lift the bound for the safety properties and the refinement.
* *List.*  Three items are a current one with a neighbour on each side; deleting and
  inserting touches no more.  Two data are an equal one and another one.  The
  theorems lift both bounds.
* *Heap.*  Six elements have three levels, an inner node with one child, and a removal
  in the middle whose replacement comes from the other subtree; equal keys occur.
  The theorems lift the bounds for both properties.
* *Tree.*  Trees of six keys have three levels of black and red elements; every
  branch of both rebalancing loops is reached in both mirrored forms.  `CountBits`
  is 2 instead of 31 and one key is inserted again (`Repeated`), up to the limit.
  `RefusalBound` allows one refusal of memory to remain unaccounted.
* *Hash.*  With five records the table grows and shrinks over 1, 2, 4 and 8 buckets.
  Keys 0 and 8 have one hash number; 0, 4 and 8 and 0, 2 and 4 share buckets while
  the table is smaller.

* *Array.*  With `InitialNumber` 0 and `Increment` 2 the array fills up and grows, or is
  refused to, in the middle of a table that grows as well.
* *`my_hash`.*  Keys 1 and 9 have one hash number, 1 and 5 share a bucket at every
  size, 6 has another one as soon as there are two.  `HASH_FULL_ITERATE` is 2: a table of one bucket grows at
  the fourth item, also during a traversal.  Four items in one chain are a current
  one with neighbours and one more.  The theorems lift all bounds, those on the sizes too.
* *Threads of Windows.*  Two users are a creator and a joiner, two joiners, or a joiner and
  one who cancels; two threads and two ids are enough for an id to be given to the other
  thread.  A DWORD has 3 bits and a clock three times, far enough apart for the
  difference to be negative, to exceed `max_timeout_msec`, and to wrap.

### 4.2 Fairness

Fairness is assumed of the steps of a call that has begun (`Inner`): a thread that
runs goes on.  It is weak: a mutex need not be fair, so a thread may be overtaken as
long as others compete.  The liveness properties therefore say from which moment on
callers stop competing (`Quiescent`, `Calm`); they all hold spurious wakeups to
be finite.  That a holder unlocks is not assumed for `PendingReaderGetsIn`, where it is
the point that it need not; `WritersGetIn` has it as a hypothesis (`HoldersUnlock`)
and the portable `my_rw_lock_t` as fairness.  Nothing is assumed of the system's slim
lock, and nothing is claimed about who gets it.  `RwInit` assumes that each thread
keeps running, which makes the polling loop end.  `WinThreads` assumes that a call
that has begun goes on and that functions of threads end once they do not wait; that
anybody signals a waiting thread is not assumed, nor that a call of the system fails.
So a thread in `pthread_cond_wait`, which has no deadline, may wait for ever and a join
of it with it: `JoinReturns` has this as its one exception.

## 5. What is proved

`PrRwLockProofs` proves, for every finite set of threads
(`ThreadsAssumption`: `Threads` is finite and `NoThread` is not one of them):

| theorem | statement |
|---|---|
| `InductiveInvariant` | `Spec => []IInv` |
| `TypeCorrect` | `Spec => []TypeOK`; in particular no counter goes below zero |
| `MutualExclusion` | `Spec => []Exclusion` |
| `UnlockByOwner` | `Spec => []UnlockOwnsMutex` |
| `WritersAreWoken` | `Spec => []NoLostWakeup` |
| `SafeToDestroy` | `Spec => []DestroySafe` |
| `Refinement` | `Spec => ImplementsRWLock` |

The inductive invariant `IInv` has these parts, and each is needed:

* `MutexInv`: the threads at `OwnerPCs` are the owner of the mutex.  Two writers
  would have to be two owners, which is what excludes them: there is no other
  check in the code.
* `CountInv`: the counters are the numbers of readers and of waiting writers, as
  cardinalities of sets of threads.  The lemma `MoveCount` says how such a number
  changes when one thread moves, and `WhereCount` when it is zero.
* `WriterInv`: `active_writer` says whether there is a writer, and then nobody
  reads.  This makes the unprotected read in `rw_pr_unlock` good: a thread that holds
  the lock cannot see the field change.
* `LifeInv`: when one user is about to destroy the lock all others are out.
* `NoLostWakeup` itself, which is inductive with the rest.

The step is proved action by action, one lemma for each, and the refinement from the
same invariant: `Grant` and `RdCount` are acquisitions, `WrUnlock` and `RdUncount`
releases, all other steps leave readers and writers as they are.

`RwInitProofs` proves, for every set of threads and every version of Windows:

| theorem | statement |
|---|---|
| `InductiveInvariant` | `Spec => []IInv` |
| `TypeCorrect` | `Spec => []RwInitTypeOK` |
| `OnceContract` | `Spec => []RoutineRunsOnce` |
| `LocksUsedAsMade` | `Spec => []UsedAsMade` |

Its invariant is in two layers.  `OnceInv` is about `my_pthread_once` alone: one
thread at most is in the routine, only while `once_control` is INPROGRESS
(`RunnerInv`), and `once_control` tells how often the routine has begun and ended and
what a thread at each statement knows of it (`ProgressInv`).  `LockInv` adds that the
functions fetched so far are those kernel32 has, and that a lock is made only after
DONE, so that the one step that sets `have_srwlock` finds no lock made yet.

`WinThreadsProofs` proves, for every finite set of users, any number of threads, any
ids, any clock and any width of a DWORD that `MaxTimeoutMsec` fits in with room for
INFINITE (`WinThreadsAssumption`):

| theorem | statement |
|---|---|
| `InductiveInvariant` | `Spec => []IInv` |
| `WinTypes` | `Spec => []WinTypeOK`; in particular `get_milliseconds` never exceeds the timeout (`WaitIsBounded`), is INFINITE only where there is no deadline (`Infinite`, `NapInv`), and no two threads the system knows have one id |
| `Resources` | `Spec => []ResourcesAccounted` |
| `Joined` | `Spec => []JoinedHasEnded` |

Its invariant goes round the fact that an id may pass to another thread.  `IdInv`:
threads the system still knows differ by their ids.  `CallInv`: a join that waits for
another thread than its own is one whose thread had already been forgotten, so it has
ended; this is what `pthread_join` by id rests on, and the reason that it is right
although nothing in the code keeps the id from being given again.  `KeepInv` has what
users keep, `HandleInv` counts the handles of each thread as the cardinality of the
set of calls that hold it (`TakeUp`, `GiveBack`), `ParamInv` says who owns a
parameter.  That no ended thread lives again (`Progress`) is proved of all steps
first, as the parts of the invariant need it.

`AnyRwLockProofs` proves first, of the portable `my_rw_lock_t`, for every finite set of
threads:

| theorem | statement |
|---|---|
| `PortableInvariant` | `Spec => []IInv` |
| `PortableAsserts` | `Spec => []AssertsHold` |
| `PortableWakes` | `Spec => []NobodyStranded` |

`state` is the number of threads at the statements of a reader, or -1 with exactly one
thread at those of a writer (`ReadersInv`, `WriterInv`); `waiters` is the number of
writers from their `waiters++` until they have the lock (`WaitersInv`).  `LoopInv`: a
thread about to sleep still has the reason to that its loop found, as it has kept the
mutex; without it `NobodyStranded`, which is inductive with the rest, could be lost
between the test and the sleep.

It goes on with the slim lock and with `my_rw_lock_t` as whichever of
the two `have_srwlock` says:

| theorem | statement |
|---|---|
| `AnyInvariant` | `AnySpec => []AnyIInv` |
| `SlimReleases` | `AnySpec => []ReleasesHeldMode` |
| `AnyAsserts` | `AnySpec => []AssertsHold` |
| `AnyWakes` | `AnySpec => []NobodyStranded` |
| `AnyRefinement` | `AnySpec => ImplementsRWLock` |

For the slim lock the point is `FlagInv`: `have_exclusive_srwlock` is set exactly while
a writer is between setting and clearing it, both of which it does while it holds
the lock, so that a reader who unlocks never sees it set.  `AnyIInv` says beside
this that of the two locks the one not chosen stays as it was made.

`MyListProofs` proves, for every finite memory and every set of data, hence for lists
of any length:

| theorem | statement |
|---|---|
| `ListInvariant` | `MaxDepth <= 1 => (Spec => []IInv)` |
| `ListWellLinked` | `MaxDepth <= 1 => (Spec => []WellLinked)` |
| `ListCursorAlive` | `MaxDepth <= 1 => (Spec => []CursorAlive)` |
| `ListNothingSkipped` | `MaxDepth <= 1 => (Spec => []NothingSkipped)` |
| `ListOnlyAskedLeave` | `MaxDepth <= 1 => (Spec => OnlyAskedLeave)` |

`MaxDepth <= 1`, one traversal at a time, is not a convenience: with two of them TLC
finds a counterexample to each of the four properties, for the reason that
`MyListNested` shows (section 6).  The invariant speaks of the sequence of
items: `ListInv`, it has no item twice and is linked through `head`, `__next`, `tail` and
`__prev`; `MemoryInv`, what is in use is in it or was dropped by `my_list_clear`; `TravInv`,
the current item is in it, marked unless its deletion is put off, and what the
traversal still owes its function lies ahead.  That linking in or out the fields the
code writes gives the sequence with one item more or less is `LinkIn` and `LinkOut` in
`ProofLemmas`; that following the links finds the sequence again is `WalkAlong`.

`MyQueueProofs` proves, for all keys, sizes and extents:

| theorem | statement |
|---|---|
| `HeapOrdered` | `Spec => []HeapOrder` |
| `TopWhileUndisturbed` | `Spec => [](~disturbed => TopIsBest)` |
| `QueueRefinement` | `Spec => ImplementsPriorityQueue` |

`HeapOrder` is inductive as it stands; the work is in the algorithms.  `ClimbOrders`: the
loop of `queue_insert` keeps a heap a heap.  `DownheapOrders`: if position `idx` is the
only one that may be out of order in the part of the array from `lo` on, `_downheap`
puts that part in order; although it first runs all the way down and then climbs back,
it stops at a place where both neighbours are right.  With it, `HeapifyOrders`: one
call for each inner node, the last one first, makes a heap of any array.
`RemovedOrders` says of `queue_remove` what run `MyQueueTop` is about: the result is a
heap, or the last element belonged above the parent of the place it was put at.

The refinement needs, beside the order, that nothing is lost.  `ClimbKeeps` and
`DownheapKeeps` give, for each of the two loops, the map of positions by which it moves
the elements, and show it to be one-to-one; an array rearranged so has every key as often
as before (`SameCount`), which is the bag of keys (`KeyBagIs`).  What a call puts in,
takes out or drops is then a matter of one element, or of the end of the array
(`PutBag`, `TakeBag`, `ReplaceBag`, `ResizeBag`).  `queue_fix` changes all keys, and only
their number stays: that the bag sums up to the length of the array is `SumsUp`.  Top and
best come together by `TopBag`, which is `HeapOrder`; so the refinement is proved from it.

The way up, the way down and the array after each call in `queue_fix` are functions
defined by recursion.  That such a function exists is proved by hand: `Iterate` in
`ProofLemmas` makes it from the set of all its beginnings, and induction is the
argument that a set with a counterexample would have a least one (`Induction`,
`LeastNumber`).

`MyHashProofs` proves, for every finite memory, all keys, every hash span, default size,
load and growth (`MyHashAssumption`), hence for tables of any size:

| theorem | statement |
|---|---|
| `HashInvariant` | `Spec => []IInv` |
| `HashWellLinked` | `Spec => []WellLinked` |
| `HashCursorAlive` | `Spec => []CursorAlive` |
| `HashNothingSkipped` | `Spec => []NothingSkipped` |
| `HashIteratorsAgree` | `Spec => []IteratorsAgree` |
| `HashImplementsKeyValue` | `Spec => ImplementsKeyValue` |

Of the parts of the invariant, `TableInv` says that there is one sequence of items for
each bucket, which `iter`, `next` and `prev` link, and each item is in that of its
number (`Chains`).  It is not enough:

* `KeyInv`: the number of an item is that of its key, and keys differ.  Without it an
  item could be in the table and not be found.
* `CursorInv`: a mark and a deletion put off are at the item of the loop, and this is
  marked or dead, not both.  So the one item that is in the table without a key goes
  before the loop leaves it.
* `FreeInv`: memory that is not an item has no item before it: `my_hash_lookadd` never
  writes `pre` of the new item, and takes it to be NULL, as the allocation clears it.
* `TodoInv`: what the traversal still owes its function is in a later bucket, or behind
  the item it is at in this one's sequence.  Insertions go to the front and so never
  between, and taking an item out keeps the order of the others (`RemoveKeepsOrder`).

What an insertion and a deletion do to the sequences is `FrontChains` and `OutChains`.
`MovedChains` is about `rehash`: each new bucket is the sequence of the items with its
number, in the opposite order of the old table (`NewBucket`).  The iterators need the
items as one sequence: `ItemsPlaces` says at which place of it each bucket begins, and
`NextIs` that the step behind a bucket's last item lands where the next one that is not
empty begins.  The refinement has one lemma for each way the map changes: `AddItemMap`,
`ReplaceMap`, `DeleteItemMap`; that all else leaves it, the removal of an item whose
deletion was put off included, is `StillMap`.

Only model-checked are:

* liveness, here as everywhere: the prover does not treat fairness and `ENABLED`;
* `RbTree` and `DynHash`, whose definitions are RECURSIVE operators, which the prover
  does not take.

## 6. Where code and documents disagree

* `MyListDelete`.  `__foreach` of a new item is never initialised.  When it happens to
  be 1, `my_list_iter_delete` takes a traversal to be at the item, marks it, and
  `my_list_delete` returns 0 without deleting anything, although the header has it
  "remove an iterator from the list object".
* `MyListNested`.  A traversal in the callback of another one sets the marks of all
  elements back to 0; the outer one takes that for a deletion of its current element
  that was put off.
* `MyQueueTop`.  `queue_remove` of an inner element can leave an element below a
  parent it belongs above; later calls bring the wrong element to the top.

Noted while modelling, without a run: `my_list_add` makes a second item for data the
list already has, though the header says that the iterator there is returned;
`queue_reinit` returns 0 when its resize has failed; a callback that deletes its own
element twice frees it under the loop (the guard `MayDelete` keeps callers from it, and
without it `CursorAlive` fails; so does `my_hash_iter_delete`, where `IterDelete` has
the guard); after a callback has deleted its own element, a search through the same
bucket of a `my_hash` compares with its freed key, NULL (`Searchable`); `my_hash_clear`
returns at once for every table there is, its test being `if (__hash)`, and so
`my_hash_uninit` frees the buckets and none of the items; `my_hash_pre` does not come
to an end when the bucket before has two items or more, and never looks at
bucket 0; when the table itself cannot be allocated, `my_hash_init` frees `iter`, which
has no value yet (`HashInitFails` is the other case, where there is no memory for the
buckets); `my_hash_first` leaves `*current_record` as it was when there are no buckets;
`my_array_init` returns NULL when there is no memory, though its comment
calls the array usable then; `pthread_cancel` may end another thread that has got the
id, as `pthread_join` may wait for it (the header says it is unsafe); an update refused by `my_hash_update` leaves the
record under its old bucket with the new key until the caller puts the old key back.

## 7. What is not modelled

* `my_array.c` beyond what `my_dyn_hash.c` calls: insertion, `my_array_set`,
  `my_array_get`, `my_array_delete`, `my_array_free` and static buffers have no caller
  in the repository.
* The rest of `my_pthread.c`: wrappers of a system call each, thread attributes, error
  codes, calendar time.
* `my_malloc.c`: refused memory is an outcome in the modules that depend on it.
* `my_zk.c`, which has no behaviour yet, and headers of types and macros.
* Within modelled components: `my_list_clear` and `my_list_uninit` from inside a
  callback, and so `my_hash_uninit`; nested traversals of a `my_hash`, and a second
  deletion in a callback; what a rehash under a traversal makes it visit twice or not
  at all (`NothingSkipped` owes nothing from then on; that the loop stays on live
  memory and ends well linked is checked); the overflow of the `int` in `rehash`; an
  increment of 0, for which `my_array_init` takes another one; a deadline whose
  `max_timeout_msec` is negative; an index beyond the last element in `queue_remove`; the wrap of
  `max_elements + auto_extent`; a search position kept across a change of the tree or
  the hash table, which the callers are told not to use; how keys are stored behind
  an element; `tree_walk`.

## 8. Plan

1. Proofs: `DynHash` and `RbTree`, which first need their RECURSIVE operators as
   recursive functions.
2. `MyArray`: the operations without a caller, with a static buffer, as a run of its own.

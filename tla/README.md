# CaVer: a TLA+ model of the bad-casting detector

CaVer is a runtime detector of bad casts built into LLVM/Clang.  The compiler
emits a type hierarchy table (THTable) per class, tells the runtime about
every object that is created (`__cver_handle_new`, `__cver_handle_stack_enter`,
`__cver_handle_stack_exit`, `__cver_handle_global_var`) and asks it about every
`static_cast` from a base to a derived class (`__cver_handle_cast`).  The
runtime remembers which table belongs to which memory and answers whether the
object that the pointer points into has the type it is cast to.

Only CaVer's own code is considered.  The rest of the repository is the LLVM,
Clang and compiler-rt trees it was added to.

Below, `cver/` stands for `src/llvm/projects/compiler-rt/lib/cver/`, and
`CodeGen/` for `src/llvm/tools/clang/lib/CodeGen/`.

## Inventory

| Component | State it keeps | Operations | What is hard | What makes it correct |
|---|---|---|---|---|
| Cast cache (`cver/cver_cache.h`) | `FirstCache`, `SecondCache`: keys of matched casts | `IsInCache`, `UpdateCache` | all threads, no lock; a bucket picked before the check is written after it | a hit stands for a cast that was matched; stored keys can be found |
| Cast entry (`cver/cver_common.cc`, `__cver_handle_cast`) | none | locate the object (stack, heap, globals), ask the cache, check, report | many early returns; several sources of objects | valid casts are good; bad ones are not |
| Red-black trees (`cver/cver_rbtree.cc`) | one tree per `CverThread`, one of globals | insert, delete, range lookup | rebalancing over many steps; the tree of globals is searched while written | it is a map of intervals; a lookup ends and invents nothing |
| Type tables (`CodeGen/CGTHTables.cpp`) | map of the tables generated | hash vector, containment vector per class | recursion over bases and members | a member is described by a table that exists |
| Stack tracing (`CodeGen/CGDecl.cpp`, `cver_common.cc`) | the thread's tree | enter, exit | addresses reused by other frames; exceptions | the tree is the live objects |
| Stack pruning (`CverPruneStack.cpp`) | `Visited`, `InvokeStack` | erase the tracing of functions that reach no cast | cyclic call graphs, calls it cannot see | a cast sees the objects of its callers |
| Heap (`cver/cver_allocator.cc`, `sanitizer_allocator.h`) | caches, regions, block metadata | allocate, free, realloc, `__cver_handle_new`, drain | shared fallback cache, threads that exit | a block has one owner, who alone writes its metadata |
| Free list of a region (`sanitizer_lfstack.h`, `BlockingMutex`) | head word, links of batches, mutex word | pop, push, lock, unlock, carve | lock-free, memory reused while it is read; sleeping and waking | a batch is on the list once or with one cache; nobody sleeps forever |
| malloc, new (`cver_malloc.cc`, `cver_new_delete.cc`) | the pool of early `calloc` | forward to the heap | calls before initialisation | as the heap |
| Threads (`cver_thread.cc`, `cver_posix.cc`) | `CverThread`, context, registry, TSD | create, start, destroy | code that runs after `Destroy` | no use of a destroyed thread |
| Initialisation (`cver_init.cc`) | `cver_initialized` | `InitCverIfNecessary` | runs before all constructors, on one thread | nothing is used before it exists |
| Statistics (`cver_stats.cc`) | counters per thread, of the dead, of the unknown | count, flush, merge | flush against merge; wrap-around | no count lost or counted twice |
| Globals (`CodeGen/CodeGenModule.cpp`) | tree of globals | a constructor per global | libraries opened at run time | as the tree |
| Cast pruning pass (`CastVerifier.cpp`) | none | erase checks | without effect at this commit | no check of an unsafe cast is erased |
| Suppressions, flags, reports | parsed options | match, print | none (I/O) | - |

How they interact: instrumented code calls the handlers; the handlers read the
TSD to find the thread's tree or cache; `__cver_handle_cast` looks the pointer
up in the stack's tree, then the heap's metadata, then the tree of globals, and
hands the table and the displacement to cache and check.  Shared between
threads are the two cache levels, the tree of globals, the fallback cache of
the heap with its mutex, the free lists and regions, and the counters of
threads without a `CverThread`.  Only the main thread gets a `CverThread` in
this source (there is no interceptor of `pthread_create`); the others have no
stack tree and use the fallback cache.

## Modules

| Module | Models | State and actions |
|---|---|---|
| `CastMemo` | the promise of the cache | `known` keys; `Ask`, `Recall`, `Learn`, `Reject` |
| `CastCache` | `cver_cache.h` and its use | both levels as functions of slots; per thread the locals of `IsInCache`; one action per load or store |
| `IntervalMap` | the promise of a tree | a set of entries; `Register`, `Unregister` |
| `RbTree` | `cver_rbtree.cc` | the fields of nodes as functions; one action per case, a rotation split into its three stores; lookups of readers one node per step |
| `TypeTable` | `CGTHTables.cpp` and `CheckCastValidity` | operators on a sequence of classes; the layout they start from is that of clang's `RecordLayoutBuilder.cpp`, parts one after another (`Start`), the offsets of casts that of `CGClass.cpp` |
| `CastCheck` | array adjustment, check and verdict | a program is compiled (`Define`), an object created, a cast asked and answered |
| `StackTrace` | tracing, its pruning, its handlers | `RunOnFunction` of the pass; then `Call`, `Construct`, `Enter`, `Exit`, `Return`, `Unwind` over a stack of frames and the tree as an `IntervalMap` |
| `ObjectHeap` | the promise of the heap | owned blocks and the record of each; `Allocate`, `Release`, `Resize`, `Describe` |
| `CverHeap` | the heap and its metadata | per thread a place and locals; one action per access to a cache, free list, region or metadata |
| `BatchPool` | the promise of a free list | batches `free` and `out`; `Make`, `Take`, `Give` |
| `FreeList` | `LFStack`, `BlockingMutex`, `AllocateBatch`, `PopulateFreeList` | the head word, the links, the mutex word; one action per atomic access or system call |
| `CastLocate` | the handlers that record objects and the search of `__cver_handle_cast` | addresses as numbers; blocks with their sizes and tables, both trees, the program's objects; one action per way an object comes or goes |
| `CastCacheProofs`, `RbTreeProofs`, `CastCheckProofs`, `StackTraceProofs`, `CverHeapProofs`, `FreeListProofs`, `CastLocateProofs` | theorems about the module each is named after | |
| `NumberLemmas` | division, products and induction, for the proofs | |
| `MC...` | small instances | |

`CastCache` is shown to implement `CastMemo`, `RbTree` to implement
`IntervalMap`, `CverHeap` to implement `ObjectHeap` and `FreeList` to implement
`BatchPool`.  `StackTrace` and `CastLocate` are built on `IntervalMap`, the
promise that `RbTree` is shown to keep; `CastLocate` takes a call of the heap as
one step, as `ObjectHeap` promises, and `CverHeap` a pop or push of a free list
as one, as `BatchPool` promises; `CastCheck` is built on `TypeTable`.  Data is abstracted
to what the properties tell apart: keys are numbers with the structure of
`computeCacheKey` (only its shift is scaled to the small tables), sizes and offsets
are bytes, type tables are model values or indices of classes, a heap
cache is a set of blocks and a free list a set of batches.

Choices worth knowing:

* `CastCache`: the full check is an input (`Passes`), a function of table, hash
  and where in the object the pointer points.  The key has only the first two;
  that is the divergence of run `cache_member`.  Memory is sequentially
  consistent at the granularity of a slot (aligned words on x86-64).
* `RbTree`: mirror images in the source are one action with a direction.
  `Shared` switches between a thread's own tree and the tree of globals, which
  is inserted into and searched but never deleted from.
  `IntervalMap` leaves open which address a deletion removes, so
  `DeletesWhatWasAsked` says it: the one `rbtree_delete` was called with, and no
  other, though another node may leave the tree.
* `TypeTable`: a class has bases, then scalars of one size (`ScalarSize`), then
  members of class type; it has a member somewhere and is not polymorphic.  For
  such classes `RecordLayoutBuilder` rounds up nothing, chooses no primary base
  and lets no member into the tail of a base, so offsets are sums of sizes.
* `StackTrace`: a function has at most one local object, constructed after its
  frame exists and registered after its constructor ran, as the code emits it.
* `CverHeap`: the use of the fallback cache is split into lock, look and take,
  so that a missing lock would show.  The metadata words of a block are
  written in one step: only its owner reads them (casts of dangling pointers
  are the exception, and see each state in between as one of the two).
* `FreeList`: the counter in the head word is scaled from 2^17 to three values.
  What a link reads as once its batch is off the list is any pointer, as the
  memory is then the program's.  A compare-and-swap fails only if the word
  differs (x86-64).  `NobodyIsLapped` keeps the scheduler from letting the
  counter come full circle while a thread is in the middle of one `Pop`; in the
  code that takes 2^17 pushes, and nothing prevents it.
* `CastLocate`: the arithmetic of `SizeClassAllocator64` is the code's, on four
  regions of four addresses, of which two have blocks (of one address and of
  two).  A region is mapped in units (`MapSize`, two addresses in the run), always
  a block further than it is carved, so it has blocks that are mapped and never
  given to the program.  An address outside the primary space still maps to a
  block, which is what matters for new-expressions there; of those in the run, on
  the stack too, all but one do.  What is allocated in a
  block may be smaller than it (`Given`).  An object may come from operator new,
  from a class's own operator new (inside a block, outside the primary space or in
  a buffer on the stack), from placement new or new with `std::nothrow`, which
  nothing records, from the stack or from an image that is loaded.  Other threads'
  stacks are outside.
* `CverHeap` and `CastLocate`: `__cver_handle_new` has no guard, so a
  new-expression may name any block that the program holds, whatever its size.

## Runs

| Run | Question | Instance |
|---|---|---|
| `cache` | do unlocked accesses keep hits sound and keys findable; is it a memo | 2 threads, 4 keys that collide in the first probe, 2 + 5 slots, 2 probes |
| `cache_member` (violated) | is a cast answered from the cache one the check matches | 1 thread, one table, two places |
| `rbtree` | red-black rules, links, assertions, refinement of the map, deletion of the address asked for | 6 nodes, 6 addresses, every order |
| `rbtree_shared` | lookups during insertions | 4 nodes, 1 reader, objects that may overlap |
| `cast_check` | valid downcasts are good, in every element of a heap array and in members of members and of bases; what a good verdict means | every program of 3 classes with 2 parts each and arrays, and of 4 classes with plain members |
| `cast_in_element` (violated) | valid casts in elements of array members | programs of 4 classes |
| `cast_of_array` (violated) | the runtime's assertion on sizes | arrays of 1 to 3 of 4-byte scalars, with a cookie of 8 bytes or none |
| `stack_trace` | tree against stack, pruning against casts | every call graph of 3 functions, 4 frames deep |
| `stack_indirect` (violated) | pruning when a callee calls indirectly | the same, with indirect calls |
| `heap` | ownership of blocks, caches, progress; refinement of the promised heap | 2 threads, 2 size classes, 4 blocks |
| `free_list` | ABA, mutual exclusion, lost wakeups, return of every call; refinement of the pool | 3 threads, 3 batches, 5 calls, a counter of 3 |
| `locate` | which table a cast is checked against, and why it may be the wrong one | 2 threads, 2 types, 4 regions, 3 objects in a run |

Each run asks one question of one module: a single instance answers all the
questions that share its bounds.

### What the violated runs show

* `cache_member`: a cast matched through a member leaves a key that a cast of
  another pointer into an object of the same type then hits, although the
  check would reject it.
* `cast_in_element`: `CheckCastValidity` descends into an array member with
  the start of the member, never of the element, so a valid cast in element 1
  or later is answered as bad.
* `cast_of_array`: the requested size includes the array cookie and the count
  does not, so the `CHECK_EQ` of `__cver_handle_cast` stops the program.
* `stack_indirect`: the pass does not follow calls without a known callee.

The exit handler is no cleanup of the exceptional path (`CodeGen/CGDecl.cpp:882`),
and nothing removes the globals of an unloaded image.  No text of the
repository promises otherwise, so these are no findings: `WrongTableHasACause`
of run `locate` names what such stale entries, memory shared by several
objects, and new-expressions outside the primary allocator can do to a cast,
and shows that nothing else does.  Each exception is needed: without it TLC
finds a cast against the wrong table.

### Bounds, and why they are enough

* Cache: two keys share each first probe and the second level is smaller than
  the probe sequences of all keys, so eviction, foreign keys and a bucket that
  changes owner between search and update all occur.
* Tree: six nodes are the fewest at which every case of deletion fires,
  recursion to the parent included; all actions are covered.  Nodes are
  interchangeable, so the run uses symmetry; `FreeNode` picks among blank
  nodes only, which keeps that sound.  Lookups are in the run with four nodes
  (two rotations, left and right), without symmetry as it checks liveness.
* Types: three classes give a member of a base and a base of a member, four
  give both nested; parts are bounded by two so that two members, two bases and
  one of each occur.
* Stack: three functions give cycles, diamonds and a cast two calls away; four
  frames let one function be on the stack twice and let frames of different
  sizes reuse an address.
* Heap: a new-expression makes an array of two in any block that its thread holds,
  and the small blocks may move; with one block per batch a third free block overfills a cache; the
  traced thread's exit turns it into a second user of the fallback cache, and
  the regions run out, so refill, drain, carving and death all fire.

* Free list: three threads give a lock holder, a sleeper and a third that takes
  the mutex between unlock and wake; three batches and five calls let a batch
  be popped, pushed and popped again while another thread is in the middle of
  `Pop`, and a counter that stands still is then caught.
* Locate: three objects let one leave an entry or a table, a second live there,
  and a third overwrite it; regions of four small or two larger blocks let objects
  share a block and pointers lie in the middle of one, and mapping two addresses at
  a time leaves blocks mapped that are not carved.

### Fairness

`CastCache`: weak fairness of each thread's step, for a thread in the runtime
is scheduled eventually and waits for nobody.  `RbTree`: weak fairness of the
reader and of the writer's operation once begun.  `CverHeap`: weak fairness of
a thread's step inside the allocator and none of its requests; the spin lock
promises no order, so nothing is claimed for a thread that waits for
`fallback_mutex`, only that a thread with a cache of its own returns.  The
claim rests on regions being finite (`kRegionSize`).

`FreeList`: weak fairness of each thread's step in a call, none of signals
(`Interrupted`) and of new calls.  Calls are bounded, for a thread may lose an
exchange to each of the others' calls; that every call returns is then that all
have returned in the end.

`CastCheck` runs stop when the cast is answered, so their cfgs switch the
deadlock check off.  When the heap is exhausted the process dies; `Dead` makes
that a state that stays.

## Proofs

The runs show these properties on small instances; the theorems show them for
every value of the constants that satisfies the named assumption of the module.

`CastCacheProofs` (for any number of threads, keys, slots and probes, from the
assumptions named in `CastCache`):

* `TypeCorrect`: needs that a probe stays in range: the step is at most
  `Mask`, one less than the slots, so one subtraction is enough.
* `HitsWereMatched`: inductive as `SoundInv`: every full slot of either level
  holds a known key, and so does the key of every thread that passed the
  check but has not stored it.
* `StoredKeysAreFound`: inductive as `SearchInv`: the slots a search left
  behind are full, and remain so because no slot is ever emptied, so the bucket
  it hands on is on the key's path when it is written, whatever happened since.
* `CacheImplementsMemo`: initial states and steps of `CastCache` are those of
  `CastMemo` or stutter, under the invariants above.

`RbTreeProofs` (for any finite set of nodes, any addresses, sizes and objects, any
number of lookups; that nodes are finitely many is assumed, as memory is, so that
black heights are numbers):

* `TypeIsCorrect`, `RedBlackRulesHold`, `TreeIsWellLinked` and `AssertsNeverFail`
  follow from one inductive invariant, `RbInv`.  The rules hold between
  operations only, so it says which may be broken where: `PlaceInv` names, for each
  place of the writer, the one node that may be red under a red parent or whose
  paths may be one black node short, and `Midway` what is still to be stored of a
  rotation.  It speaks of the nodes `T` in the tree, the sets `B[n]` of those at or
  below each, and the black heights `h` as values that exist, so each case of the
  rebalancing is a lemma (`Fits...`) about a tree given as a value, and no recursion
  comes in.  The recursive functions of the model are met at the end only:
  `UnderIsLeast` and `BlackHeightIs` show that they are those sets and heights.
* `TreeImplementsMap`: an operation changes the contents in one step, and no
  rotation or recolouring does.  The node that leaves the tree may be another than
  the one whose entry was deleted; then its own entry has been copied over that one
  (`LeavingInv`).
* `DeletesAreAsAsked`: the walk has left no node with the address behind
  (`NotPassed`, from the order of the tree), so it ends at that node or there is
  none; from then on the node that leaves has that address, or its own entry has
  been copied to the one that had it (`AskedInv`).
* `LookupsNeverInvent` and `LookupsFindCovering` are action properties, from
  `LookInv`: in the tree that is searched while it is written no node is ever
  removed, so the node a lookup stands on stays in the tree whatever is rotated
  around it; and as long as no insertion has overlapped it, the covering object has
  not been left behind.

`CastCheckProofs` (for any program: any number of classes, any bases and fields):

* The heart is `ClassInv`, what is true of every compiled class: no subobject
  sticks out of it (`PartsFit`); wherever an entry of its containment vector
  covers, there is an object of the entry's class (`EntriesAreThere`); what the
  tables mean to describe is a base or is led to by an entry (`PartsAreListed`);
  its hashes are those of its bases, marked as of the same layout when they are
  (`HashesAreRight`); the tables it needs lead to no others (`NeedsAreClosed`).
  `NextClass` shows that a new class has all this if the smaller ones have, and
  `ClassIsLaidOut` that its bases and fields lie one after another in it.
* `CheckCastValidity` recurs over the tables.  `MatchExists` and `MatchedRec`
  show that the recursion ends and obeys its equation, as a table contains
  smaller classes; `MatchFinds` (it finds what is there) and `MatchIsThere` (what
  it finds is there) follow by induction over classes.
* `ElementIsFound`: the remainder by the element size gives the start of the
  element.  It needs that the object has no array cookie (`NoCookie`); the run
  `cast_of_array` shows that the code is wrong with one, so the theorems about
  verdicts are about the other objects: single ones, on the stack, global or in
  the heap, and arrays of classes that need no cookie.
* `CookieFailsTheCheck` says for which objects the run's counterexample comes
  back, whatever the classes: the assertion on sizes fails exactly for the arrays
  whose cookie is no multiple of their number of elements.
* `TypeCorrect`, and for objects without a cookie `NoFalseReports`,
  `EmptyInheritance` and `GoodVerdicts`.

`StackTraceProofs` (for every program, frame size and depth):

* `TypeCorrect`.
* `MirrorCorrect`: inductive as `StackInv`: functions are compiled before the
  program runs and frames do not overlap, so the entry an exit removes is the
  one its own enter added.
* `PruningCorrect`: inductive as `StackInv` with `PruningInv`: a pruned
  function reaches no cast, the frames above one run functions it reaches, and
  only functions with a local have an object.  The search of the pass is stated
  as reachability (`Reachable`), which the proofs treat as the least closed set.
* `ShownCorrect`: exceptions included.  The tree may then hold entries of frames
  that are gone, so it is no mirror; but registering replaces the table of a
  stale entry at the same address, and live frames do not overlap, so no exit
  removes the entry of another live object.

`CverHeapProofs` (for any threads, with or without a `CverThread`, any size
classes, blocks and batch sizes; `HeapAssumption` says that regions are made of
disjoint batches no larger than a transfer batch, and that every size asked for
fits a class):

* `TypeCorrect`: with `CallInv`, what the locals of a call are at each point and
  that carving stays in its region.
* `BlocksAreInOnePlace`: inductive as `PlaceInv`, with witnesses: two functions
  that tell of each block whether it is the program's, a call's, in a cache, in a
  batch or not carved, and whose.  Every step moves the blocks of one place.  It
  needs `HandsInv`: the two blocks of a `realloc` differ, and the block about
  to be taken is still in the cache, which only `fallback_mutex` ensures.
* `FreeIsUntyped`: inductive as `RecordInv`: a typed block is the program's or in
  the hands of a call, and past the store that clears it, untyped.
* `HeapImplementsRecords`: the steps of `CverHeap` are those of `ObjectHeap` or
  stutter: `take` allocates, `clear` releases, and only the owner writes a
  record.
* `CachesAlwaysFit`: inductive as `FitInv`: a refill happens on an empty cache
  and brings at most a batch.

`FreeListProofs` (for any number of threads and batches, any width of the
counter and any order of carving):

* `TypeCorrect`: with `LocalsInv`, what a thread's locals are at each point of
  a call, so that no null batch is read, linked or handed on.
* `OneThreadCarves`: inductive as `MutexInv`: the word is locked exactly while
  one thread is inside, whoever is woken.
* `SleepersAreWoken`: inductive as it stands; the thread that overwrites the
  sleeper's mark is about to mark the word again.
* `ListImplementsPool`: the list is the pool of batches, as long as
  `NobodyIsLapped`.  Inductive as `ListInv`: the list has an end (`Acyclic`, by
  ranks that go down along it), a batch is listed, held or in one thread's
  hands (`OwnerInv`), and while the counter is what a thread saw, the link it
  read is still right (`SwapInv`): the ABA argument.

`CastLocateProofs` (for any layout of the primary allocator, any types, any
number of threads and objects):

* The arithmetic first: `RegionOf` and `BlockOfCell` show that the address
  computations of `SizeClassAllocator64` find the block of every address in one,
  from the uniqueness of quotient and remainder.
* `TypeCorrect`, `WrongTablesHaveCauses`, `RecordedObjectsAreFound` and
  `DanglingPointersAreUnknown` all follow from `LocateInv`: live objects do not
  overlap (`ObjectsApart`), they are where their kind lives (`PlacesInv`), those
  of stack and images have their entry (`TreesInv`), those of new-expressions a
  block with their table (`HomesInv`), and a free block has no table unless one
  strayed there (`BlocksInv`).

Induction: the library's induction theorems take an operator, which the installed
provers cannot instantiate.  `NumberLemmas` derives induction over a set of
numbers from the least element of a set instead; `CastCheckProofs` uses it
for the sums of the layout and the recursion over tables, `RbTreeProofs` for
black heights.

Only model-checked: liveness (`EveryLookupReturns` and the other temporal
properties under fairness), which is outside the prover's reach, like `ENABLED`.
No module declares a `RECURSIVE` operator; where a definition
recurs it is a recursive function.


## Not modelled

* Reports, suppressions, flags, dumps: input and output.
* Virtual bases, unions, classes without members: layout rules of their own;
  members of virtual bases and unions are in no table anyway.
* The stack map (`CVER_USE_STACK_MAP`): compiled out in favour of the tree.
* `PruneWithSCCCallGraph` and `rbtree_lookup`: never called.
* The secondary allocator (`mmap`, no type table) and the size classes whose
  transfer batches are blocks of their own.
* The pool of early `calloc`: one counter and its check, on one thread.
* Initialisation: it runs from `.preinit_array`, on one thread and before any
  constructor; what it builds is the initial state of the modules.
* Statistics: counted when the flag `stats` is set and printed at exit; no
  decision depends on them.
* `CastVerifier.cpp`: without effect at this commit.  The metadata
  `cver_nullify` it looks for is no longer emitted (the block is commented out,
  `CodeGen/CGExprScalar.cpp:1346`), and `isSafeCast` always answers no.
* The registry of threads: one thread is ever registered.
* In `CastLocate`: the flags `no_stack`, `no_global` and `no_check`.
* Padding, polymorphic classes and bit-fields, so every layout is without gaps.
* LLVM, Clang and compiler-rt themselves, nearly all of the repository's lines:
  the modules cover CaVer's own code, a few thousand of them.

## Plan

Written in this order, most important behaviour first: `CastCache`/`CastMemo`
and their proofs; `RbTree`/`IntervalMap`; `TypeTable`/`CastCheck`;
`StackTrace` and its proofs; `CverHeap`/`ObjectHeap`; `FreeList`/`BatchPool`;
`CastLocate`; the proofs about these four and about `CastCheck`; the proofs about
`RbTree`, its types and links first, then the red-black rules, the map and the
lookups.  Every safety property of a passing run is now the subject of a theorem;
what they leave out is stated: `NoCookie` in the theorems, `NobodyIsLapped` in the model.  Next would be theorems about
compositions (`CverHeap` over the free list itself, `StackTrace` over the tree
itself) instead of over the promises those are shown to keep.

New questions join the run whose bounds they share, or replace a shallower one.

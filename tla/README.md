# A TLA+ model of Cluster-STM

Cluster-STM is a software transactional memory for clusters: each processor
(GASNet node) owns part of a shared address space, and transactions running on
one processor read and write words of any node through active messages. This
directory holds TLA+ modules translated from its C code, TLC configurations
that check them, and TLAPS proofs.

## 1. The system

| component | source | state | operations |
|---|---|---|---|
| distributed STM | `src/Implementation/stm/stm-distrib.c`, `.h` | per node: a metadata word per block of `STM_SHARE_SIZE` words, guarded by `meta_lock`; a transaction descriptor `tx_dors[p]` per processor `p` (data set with undo or write buffers, nesting depth, transaction processor, remote processors, allocations) | `stm_start`, `stm_get`, `stm_put`, `stm_on`, `stm_commit`, abort; `stm_alloc`, `stm_free` |
| older STM | `stm_base.c`, `stm.h` | per processor: cache of values and versions, read, write and acquired lists; per word: version and owned bit | open for read, read, write, commit (acquire, validate, write), abort |
| GRT queued lock | `src/Implementation/grt/grt.c`, `.h` | per lock `num_holders`, `type`, `waiters` under `lock_lock`; per processor the variable it spins on | `grt_lock`, `grt_unlock` |
| GRT "new" lock | `grt.c` | per lock two GASNet locks (`read_hsl`, `write_hsl`), `type`, the number of readers | `grt_new_lock`, `grt_new_unlock` |
| GRT remote calls | `grt.c`; a copy of the code in `stm-distrib.c` | a pool of threads with a list of those that are free, under a mutex, a condition variable each; the caller's `done` flag | `grt_on`, `stm_on` |
| GRT memory | `grt.c` | `grt_heap`, `alloc_lock`, `grt_last_alloc`; word read, write and compare-and-swap | `grt_alloc`, `grt_all_alloc`, `grt_free`, `grt_read/write/cas` |
| umalloc | `src/Implementation/grt/umalloc/*` | a heap of blocks and clusters, fragments of blocks, a table `heapinfo` that lives in the heap | `umalloc`, `ucalloc`, `ufree`, `umalloc_makeheap` |
| GRT helpers | `grt_list.c`, `grt_map.c`, `grt_random.c`, `grt_debug.c` | sequential data structures | |
| benchmarks | `src/Benchmarks/*` | hash set, hash map with swaps, hash tables, SSCA2 graph clustering, timings | clients of the STM and of the locks |
| external | GASNet, libmba | | active messages, HSLs, barriers, hash maps |

How they interact: a processor runs one thread of client code, which blocks on
each request it sends (`GASNET_BLOCKUNTIL`). A request runs a handler on the
node it is sent to, on the thread that `grt_init` starts there to poll
(`grt.c:95`) or on the node's own while that waits; a handler replies. `stm_on` and `grt_on` run a client
function on another node, in the handler itself or on a thread of a pool, on
behalf of the calling processor (`src_proc`). `stm-distrib` is built in four
ways by its Makefile: default (early acquire, read locks, undo log),
`READ_VERSIONING`, `WRITE_BUFFERING`, and `LATE_ACQUIRE` with
`WRITE_BUFFERING`; the header rejects other combinations with `LATE_ACQUIRE`.

What is hard about it:

* opens, word-by-word copies and the entry-by-entry commit or abort of several
  transactions interleave; only single metadata updates are atomic;
* a metadata word is a writer's id, a reader count or a version, according to
  its low bit and the build, and is released by plain stores and decrements
  that are right only if it says exactly what the data sets say;
* the descriptor of one transaction is spread over all nodes it touches, and
  the finish must find all of them, with nesting and `stm_on` in play;
* a failure at one block or node of several must undo the others and no more;
* a queued lock is passed on by its releaser with a write that arrives late;
* a handler may not block, so that a lock or a call it cannot serve at once is handed to a
  pool thread, which sleeps and is woken by signals that are not counted;
* allocation returns its result in a variable that the next allocation overwrites.

`PROJECT.json` lists these under "hazards", each at its line.

## 2. The modules

| module | what it is |
|---|---|
| `StmDistrib` | `stm-distrib.c`: state, one action per operation or critical section, for all four builds |
| `StmDistribProps` | its invariants, action properties and refinement mapping |
| `AtomicTM` | abstract specification: what a transactional memory promises |
| `StmHistory` | `StmDistrib` with a history of committed transactions, for serializability |
| `StmDistribProofs` | theorems about `StmDistrib`: types, metadata words, exclusion |
| `StmControlProofs` | theorems about where a transaction has been and what it must still undo |
| `StmAtomicProofs` | theorems about what transactions read and write: `StmDistrib` implements `AtomicTM`, and its histories are serializable |
| `Serializability` | what it means that a history of transactions is (strictly) serializable |
| `StmBase` | the older STM, `stm_base.c` and `stm.h`, with its properties |
| `StmBaseProofs` | theorems about `StmBase`: types, versions, ownership, strict serializability |
| `RWLock` | abstract specification: what a reader/writer lock promises |
| `GrtLock` | the queued lock of `grt.c`, with its properties |
| `GrtLockProofs` | theorems about `GrtLock` |
| `GrtOn` | `grt_on`, the handlers of a node and its thread pool, without what a call runs |
| `GrtNewLock` | the "new" lock of `grt.c` on top of `GrtOn`, with its properties |
| `GrtNewLockProofs` | theorems about `GrtNewLock` and `GrtOn` |
| `Umalloc` | the heap as functions from heap to heap, with what makes its books right |
| `GrtAlloc` | allocation in `grt.c` and in `stm-distrib.c` on top of `Umalloc`, with its properties |
| `UmallocProofs` | theorems about the heap: its books stay right, and a heap with right books serves every call |
| `GrtAllocProofs` | theorems about `GrtAlloc` on top of them |
| `Ssca2` | the parallel clustering benchmark in its build with locks, with its properties |
| `MC*` | definitions for TLC's instances, one module per family of `.cfg` files |

### StmDistrib and the code

*Metadata.* `meta[b]` is the word of block `b`, manipulated by the operators
`set_write_bit`, `inc_readers`, ... named after the macros, modulo `WordMod`
(2^w). The macros' arithmetic is kept: a decrement of 0 wraps.

*Descriptors.* `tx_depth[n][p]`, `tx_proc[n][p]` and `remote_procs[n][p]` are the
fields of `tx_dors[p]` on node `n`. A block is on one node, so the data sets of
all nodes are one function: `dataset[p][b]` is the entry for `b` in `tx_dors[p]`
of `b`'s node, and `saved[p][w]` the word in its `wb_data` or `undo_data`.

*Control.* `pc[p]` says where the thread of `p` is and `site[p]` on which node its
client code runs (`stm_on` moves it). Since the thread blocks on every request,
a request in flight and a handler that has not run are the same state; the
requests of acquire, validate and finish that go to several nodes at once are
a set of entries (`todo`, or the data set itself) that the nodes work on in any
order. A conflict ends the loop of its own node only, as in
`stm_acquire_local`; the other nodes' loops go on and their results are
collected after.

*Steps.* A step is one critical section of `meta_lock` (an open of one block, one
entry of an acquire, validate or finish loop), one word of a copy, or control
between them. `hashmap_clear` at the end of the finish loop is folded into the
iteration that releases the entry: nobody looks at the entry in between.
Copies are word by word because the code's `memcpy` is outside `meta_lock`.

*Clients.* `ClientStep` lets client code call anything the interface allows in any
order: start and nest transactions (`MaxDepth`), move to the nodes `OnNode` and
back, read and write the ranges `Extent` (at most `MaxOps` accesses per attempt),
commit what it started on the node it is on. `rset` and `wset` record what a transaction
has read and written: they are what client code has seen, no state of the STM.
`NestedRemote = FALSE` keeps `stm_on` code to its own node and the transaction's
processor; `TRUE` lets it go further (see the finding `nested_leak`).

*Assumptions on ranges.* A range is contiguous and on one node, and under
`WRITE_BUFFERING` a range of several blocks starts at a block boundary, because
`memcpy_wb` moves others wrongly (line 399; listed as a hazard).

### AtomicTM and the refinement

`AtomicTM` has one store. It changes only when a transaction commits, by all the
transaction's writes at once; a read returns the committed value; a commit
requires everything read to be still committed. `StmDistribProps` maps
`StmDistrib` to it: a transaction commits in the step that starts
`stm_finish_local` with `COMMIT`, and the abstract store (`Store`) is memory
corrected by what is pending - with an undo log, a transaction that is not
committing still owes memory its undo data; with write buffering, a committing
transaction's buffer already counts. The steps by which a commit reaches memory and an
abort leaves it are stutters. `ReadsCurrent` is the invariant that makes the
commit legal, for live transactions too (opacity, not only serializability).

The `READ_VERSIONING` build and, with blocks of several words, the
`LATE_ACQUIRE` build do not implement `AtomicTM`; for these `StmHistory` asks the
weaker question whether the committed transactions are serializable in any
order. They are not (section 4).

### StmBase and the code

`version[b]` is the version word of a block with its ownership bit; `cache[p][w]` is
`p`'s `cache_entry_t` for a word, with the lists as sets of words. Here requests are
asynchronous: an entry that is not `DONE` names the request it waits for, and
the node of the word serves pending requests in any order. The order of the lists decides
only which request goes first, so that sets stand for them; which word stands for its block
on `read_list` (the first opened) does matter and is kept. Calls on the
processor's own node return before it goes on (`Busy`). Commit writes and releases
are messages in a bag, `net`, which nobody waits for.

*Threads and steps.* A node has two threads, its processor's and the one that polls, and
`acquire_lock` is the only lock of this STM. So every access of a request to a word or a version
is a step: an open reads the version (`open_looks`) and then the word (`open_for_read`); an
acquire looks at the version (`acquire_looks`) before its critical section (`acquire_local`),
where it decides by what it has seen; a write stores the word (`commit_value`), reads the version
(`version_looks`) and sets it (`version_set`), and a release does the last two. `Serves` lets a node
have two requests half served (`Halfway`), of which one at most is its own processor's. Memory is
sequentially consistent: accesses take effect in the order of the code.

*What goes wrong.* An acquire whose block gets another version between the look and the lock
sets the version all the same. The variable `overtaken` records the blocks to which that has
happened; no step depends on it. So what the lock is there for (`OwnershipExact`) is not true, and
run `acquire_race` shows it; what is true is claimed of blocks that are not in `overtaken`, or until
the first one is.

An entry validates at a moment of its own, so that the code does not
implement `AtomicTM` step by step with commits at a point known when it is passed; what it
promises is stated on the history of committed transactions instead:
`StrictlySerializable`, an order that also respects which transactions had committed before
another began.

### GrtLock and the code

`num_holders`, `type` and `waiters` are the fields of `grt_lock_t`; `state[p]` is the
variable `p` spins on; `pc` and `call` are `p`'s call; `receiving[p]` is what
`unlock_local` told the releaser; `replies` are `LOCK_REPLY` messages in flight.
`lock_local` and `unlock_local` are one critical section of `lock_lock` each;
`grt_lock_returns` is the end of the spin; `grt_unlock_grants` the write of `HELD`.
The wait of the releaser for that write's reply is not a state of its own: it
delays the releaser, which may be delayed anyway. Clients take locks in address
order, at most `MaxHeld` at a time, and never one they hold.

Both locks are shown to implement `RWLock`: a client owns the lock, in the abstract, from the
step that grants it - a count in `lock_local`, the hand-over in `unlock_local`, an HSL taken -
until it asks for the release, and every other step is a stutter. That is more than mutual exclusion in
client code: a grant on its way already excludes the others.

### GrtOn, GrtNewLock and the code

One node (`Home`) is modelled in detail, with three kinds of agents: the processor at home,
which may run code inline; the threads that poll there and run handlers (`Handler`; how many is up
to GASNet's conduit), and the pool (`Thread`). Other processors send requests and block. `GrtOn` has one step per
stretch of code between two operations on shared state: a handler takes a free thread off the
list and gives it the call, or creates a thread with it if there is none; sets the thread's `proceed`, signals, and
tests `proceed` until the thread has cleared it. `thread_work` tests `proceed`, goes to sleep, is woken (also
unasked), runs its call, replies and puts itself on the list. A signal to a thread that is not asleep yet is
lost, as POSIX has it, and no mutex is held between the test and the sleep; `NoLostWakeup` says that
repeating the signal is enough.

`GrtNewLock` adds what a call may be: `new_lock_local` (blocking, on the node itself or in a pool thread),
`new_trylock_local` (in a handler, which may not block and hands the request over when it
fails), `new_unlock_local` (in a handler, where it *does* wait for `read_hsl`), or code that has nothing to do with the lock. A reader takes
`read_hsl`, counts itself, takes `write_hsl` if it is the first, and lets `read_hsl` go: one step per HSL
operation. `read_hsl[l]` is the agent that has it, `write_hsl[l]` whether it is locked (who unlocks it need not be
who locked it); `HslsExact` relates them to how the processors hold the lock. `HandlerNeverStuck` says that the agent a
handler waits for in an unlock is not itself waiting for `write_hsl`: that one could need a release which only a
handler can bring.

### Umalloc and the code

A heap is a record: the break, the table `heapinfo` (for the first block of each cluster whether it is free, a large
allocation or broken into fragments) with the circular free list through it, the index `heapindex` the search starts from,
where the table itself is, and the list of free fragments of each size. `umalloc`, `ufree` and `morecore` are functions from such a
heap to the next one, in the order of the code: the next-fit search around the list, the split of a cluster, the
extension at the break, the reallocation of the table (which frees the old table inside the heap and may join it to
its neighbours), the join with the predecessor *or* the successor, and the return to the system above
`FINAL_FREE_BLOCKS`. Addresses are block numbers and fragment indices.
`BooksSound` says that clusters, as the table tells them, tile the heap without overlap (`Partition`), that the list goes
through exactly the free clusters in address order, both ways (`ListSound`), and that the free
fragments of a block are together in the list of their size, with the right first and count (`FragsSound`). `HeapServes` is what callers count on: that
the heap, as it is, would serve any request with memory that is not in use, or none, and any free with the release of just that memory.

### GrtAlloc and the code

`heap` is the node's heap, `grt_last_alloc` the variable of that name. A handler or a processor allocates in one
step (under `alloc_lock`) and looks at `grt_last_alloc` in another; a collective allocation does the same between two
barriers, whose phases are modelled. In `stm_all_alloc` the processor that has the memory has looked before the first
barrier (`stm_all_alloc_keeps`) and waits through both with what it has got (`kept`). `grt_free` of another node's block is a message in flight that is not waited for.
A transaction's allocations go on a list; its abort frees them one by one, its commit forgets
them. `Interleaved` says whether another allocation of the node may come in between an allocation and the look
at its result. The code lets it, and run `alloc_race` (`TRUE`) shows what comes of it. Run `alloc` has `FALSE`, and what it
shows of leaks, of new blocks and of the heap is conditional on that: two clients that have one block free it twice,
which the heap is not made for.

### Ssca2 and the code

`src/Benchmarks/ssca2/parallel` cuts a graph, whose vertices are spread over the processors, into clusters. Each
processor takes its own vertices in order (`cut_clusters`); it locks one, then all its neighbours, and grows a
candidate set (`compute_cluster`, `find_next_v`), locking the neighbours of what it adds, wherever they
live; it then claims the best prefix of the set as a cluster and takes the links to it out of the lists of what is
around it (`claim_vertices`). A lock that fails makes it unlock everything and go on to its next vertex.

`vertex_states` and `remaining_adj_lists` are the shared arrays, whole; `vertex_cache[p]` is `p`'s copy of the lists of what
it has locked, `results[p]` the answers of a node that `lock_all` has still to look at, `buf[p]` and `buf_idx[p]`
the buffer of `update_adj_list_local` and its place in it. A step is a round of one of the handlers' loops or of the code
between them. The node's own processor runs this code directly and the node's polling thread
(`grt.c:36`) runs it for others, beside it; so the rounds of different processors interleave on every node, and a processor's
thread and the handler it waits for are one `pc`. Which vertex is taken next and where the cut is made are the code's,
including that links to vertex 0 are not counted (`cut_clusters.cpp:922`).

What is read behind the end of a buffer is chosen from `Uninit`. The cut links counted, the build with transactions and
`NB_ON` (which the Makefile gives to `ssca2.o` only, so that it changes nothing here) are left out.

## 3. The runs

| run | what is instantiated | what it shows |
|---|---|---|
| `base` | default build, 2 processors, 2 blocks (3 words) on node 1, ranges {0}, {2}, {1,2}, values 0/1, `stm_on` to node 1 | the STM implements `AtomicTM`: `AtomicSpec`, with `TypeOK`, `LockExact`, `ReadsCurrent`, `OnlyConflictsAbort` |
| `la` | late acquire, 3 nodes, clients 0 and 1, one-word blocks on nodes 1 and 2, with fairness | `LockInv`, `ReadYourWrites`, `AtomicSpec`; a finish reaches both nodes: `NothingLeftBehind`; `CallsReturn` |
| `rv` | read versioning, 3-bit metadata words so that versions wrap, two blocks on node 1 opened as one range, nesting depth 2, `stm_on` to node 1 | `LockExact`: the write bit still names the one writer; `NothingLeftBehind`, `HeldToTheEnd` |
| `stm_base` | older STM, 2 nodes with 2 threads and a word each, at most 3 operations per attempt, 2 commits, until an acquire is overtaken; deadlock is checked | `TypeOK`, `OwnedBySomebody`, `ExactUnlessOvertaken`, `VersionNamesValue`, `SerializableUnlessOvertaken` |
| `grt_lock` | 3 processors, 2 locks on 2 nodes, with fairness | `TypeOK`, `HoldersExact`, `NoLostWakeup`, `NoStrayGrant`, `ReaderWriterLock`, `WritersQueue`, `EveryRequestGranted` |
| `new_lock` | 1 lock, a client on its node and 2 elsewhere, 2 polling threads, 2 pool threads; deadlock is checked | `TypeOK`, `HslsExact`, `TypeNamesMode`, `HandlerNeverStuck`, `ReaderWriterLock`; of the pool: `JobsExact`, `ListedIdle`, `NoLostWakeup` |
| `alloc` | 2 processors, a heap of up to 8 blocks, fragments and allocations of 1 to 3 blocks, at most 2 in use | of allocation: `TypeOK`, `NoLeak`, `ReadersAgree`, `DistinctAllocations`; of the heap: `BooksSound`, `HeapServes` |
| `la_history`, `nested_leak`, `acquire_race`, `alloc_race`, `vertex_reclaimed` | expected violations | see section 4 |

*Bounds.* Two transactions are enough for every conflict of the protocol: all
conditions compare one transaction's entry with the metadata word, which is the
rest of the world, and the word counts (`LockExact` is proved for any number). Two
accesses per attempt give read-then-write upgrades, write skew and two-block
commits; in `rv` one access opens two blocks and may fail at the second, so that one per attempt
gives aborts that hold a lock. Values only have to tell written from unwritten, so two suffice, and
`rv`, which looks at locks alone, has one. Three nodes appear where a finish must reach
two remote nodes at once. Three processors on a lock give a holder with two
waiters, and two readers with a waiting writer. `WordMod` is above
`2 * NumProcs + 2`, as a 32- or 64-bit word is for any real machine, except that
versions wrap early in `rv`. `MaxOps` and `MaxDepth` only stop clients;
aborted attempts are retried without bound. In `new_lock`, a pool of two with two polling threads and two clients elsewhere
makes a pool that runs dry, a reader that joins while another is being counted, and a writer that a
pool thread waits for. In `alloc`, `InfoPerBlock` entries of the table fit in a block, so that growing to `Top` moves the
table; fragments (`PerBlock` 4) and three sizes of blocks with two in use give up to four free clusters at a time, splits, joins
on either side, clusters at the break and returns to the system (`FINAL_FREE_BLOCKS` is 2 instead of 8, so
that this happens in a small heap). Two processors are enough for who is given
which block: `grt_last_alloc` is overwritten by one other allocation.
In `vertex_reclaimed` a graph of six vertices (`TwoClusters`) is the smallest kind in which a vertex is next to
a cluster of one processor and then to one of the other, which the finding needs. `MaxInUse` bounds what clients have at a time, `MaxInTx` what a
transaction has allocated; both only stop clients.

In `stm_base` two commits are two transactions that overlap or follow each other, with any number of
aborted attempts between; written values differ from initial ones and need not differ from each
other. Three operations are a read-modify-write, or an open and a read of one word and a write of
the other, as write skew needs. `MaxSent` says how many of its writes and releases a processor may
have under way when it starts a transaction: one is enough for messages of two transactions, and the
next one's opens, to meet at a node. Nesting is a count that its own processor alone looks at, so
that one of the two nests (`OneNests`). A behaviour is followed until an acquire is overtaken
(`UntilOvertaken`), because that is where the claims stop; only `OwnedBySomebody` has no such condition, and is
proved without one. `acquire_race` goes on.

*Fairness.* `FairSpec` of `StmDistrib` is weak fairness of the library and handler
steps of each client's current call: a thread blocked in `GASNET_BLOCKUNTIL` polls
the network, and GASNet delivers requests. Client code may stop at any point.
`FairSpec` of `GrtLock` adds that a client holding a lock releases one, as every
client in the repository does; with several locks held (`MaxHeld`) that would not say that it
releases each, so that the run has clients hold one at a time. `lock_local` lets readers
join readers past a waiting writer, who may wait for ever if they overlap without a break:
`EveryRequestGranted` claims that this is the only way to starve. `StmDistrib` claims that calls return, not that transactions
commit: two processors that upgrade the same block abort each other until
their timing differs (`BACKOFF` is not modelled). `CallsReturn` is in run `la` because a commit has most rounds there;
TLC has confirmed it also of the default build with nesting and `stm_on`.
`StmBase`, `GrtNewLock`, `GrtAlloc` and `Ssca2` claim safety only, the first three also absence of deadlock; `Ssca2` waits for
nobody, and its program ends.

Every property has a mutant in `PROJECT.json`: a definition of the model changed
as a plausible bug would change the code (the operators commented "mutated
form"), under which TLC finds the property violated.

## 4. Findings

With a run that shows them:

* `la_history` - with `LATE_ACQUIRE` and blocks of several words a commit writes
  back whole blocks copied without any lock (`stm-distrib.c:312`, `671`): another
  transaction's committed write to a neighbouring word is lost. With one word
  per block this cannot happen, and run `la` shows the build atomic.
* `nested_leak` - nodes that `stm_on` code accesses from its own node are not told to
  finish: their locks and data-set entries stay after the outcome (`stm-distrib.c:937`). On
  such a node an aborted write is never undone, and the block stays locked.
* `acquire_race` - `acquire_local` of `stm_base.c` reads the version before it takes the lock "for
  ensuring that check-and-acquire operation is atomic" (lines 340, 33): each of the two threads of a
  node may see an unowned version, and both acquires succeed.
* `alloc_race` - `alloc_handler` and `grt_memalign_local` give `alloc_lock` back before they read
  `grt_last_alloc` (`grt.c:274`, `257`): with another allocation of the node in between, two callers get
  one block and the other is lost.
* `vertex_reclaimed` - `update_adj_list_local` (`ssca2_handler.c:154`) steps over a list it has put back by the length it finds in the
  vertex, which it has just made available. Another processor may have locked the vertex and claimed a neighbour by then, its
  list is shorter, and the handler goes on in the middle of its buffer: it takes a neighbour for the next vertex, overwrites that one's list
  and makes it available. So a vertex that a cluster has becomes available again, against "permanently unavailable"
  (`cut_clusters.cpp:34`). The build with transactions takes the length from the buffer (line 179).

Seen while modelling, confirmed by TLC on instances that are not among the runs (they need another
build or constant of the same modules):

* With `READ_VERSIONING` the finish of a READ entry still decrements
  the metadata word (`stm-distrib.c:662`), which reading never incremented: every
  read-only entry moves the version back, so it can return to one that was
  valid before. And an abort restores the version it found
  (line 687) although writes were visible in place meanwhile: a reader that saw
  an uncommitted value validates and commits. `rv` therefore only claims `LockExact`.
* With `STM_SHARE_POWER` above 0 a commit of the older STM makes a block unowned with the first word it writes
  (`stm_base.c:431`). Another transaction opens the next word before that is written, finds the block unowned, and
  commits on half of what the first has written: with two words in a block `SerializableUnlessOvertaken` is violated, by
  a trace of 23 states. Run `stm_base` has blocks of one word, the default.
* `stm_all_alloc` takes the result before the first barrier on the processor that has the memory and after it on the
  others (`stm-distrib.c:618`, `622`). If one of those allocates there before it comes to the call, they return
  its block and the first returns another, where `grt.h:288` promises "the same pointer" and `stm-distrib.h:270` says "Same as
  grt_alloc and grt_all_alloc". With `Interleaved` TLC finds the results different. It is the window of
  `alloc_race`, in a collective call. Those who read between the barriers agree all the same (`ReadersAgree`, proved for both values
  of `Interleaved`): with `grt_all_alloc` these are all, though the late one's own block is then what all get.
* The step of `vertex_reclaimed` also breaks the assertion of `cut_clusters.cpp:325`: a processor asks for a vertex that it
  has locked itself. Up to the first such step, in this graph, those one link away from it and all graphs on four vertices, TLC finds no
  vertex claimed twice, no lock undone by another and no link that should be cut.
* `lock_all` unlocks everything at the first answer that is not AVAILABLE, looks on through the answers of the
  same node, and returns FAIL with the locks those brought (`cut_clusters.cpp:347`, `370`), where `algorithm.tex:125-126`
  says that the processor "unlocks everything and tries again". The next attempt finds them in `vertex_cache`; after
  the last one vertices stay locked when the program is done.

Seen by reading only, and kept out of the models' inputs:

* `ufree.c:121`: a cluster that has joined its predecessor never joins its successor, because `block`
  has moved on and `blocks` has not. It costs memory and breaks no book; the model does the same.
* `stm-distrib.c:631`: `stm_free` inside a transaction frees at once, so that an abort cannot undo it, and
  frees the block a second time if the transaction had allocated it.
* `stm-distrib.c:399`: `memcpy_wb` moves ranges of several blocks wrongly unless they start at a block
  boundary.
* `hashmap-locks.c:200`: `lock()` orders the two locks of a swap by key and not by bucket.
* The parallel `ssca2` benchmark with locks goes on to the next vertex when it cannot lock one (`NO_RETRY` is 1),
  where `algorithm.tex` keeps trying; the model does as the code does.

## 5. Proofs

### The distributed STM

`StmDistribProofs` proves, for every build and all values of the constants
allowed by `BuildAssumption`, `SystemAssumption` and `ExtentAssumption`:

* `TypeInvariant`: `Spec => []TypeOK`;
* `LockInvariant`: `Spec => []LockInv`;
* `Exclusion` and `MetaExact`: `WriteExclusion` and `LockExact` follow.

The argument: `LockExact` and `WriteExclusion` say what a metadata word means and
support each other (an open is granted only by looking at the word, so the word
must be exact; the word stays exact because a release undoes the releaser's own
lock, which needs exclusion). They are not inductive by themselves for late acquire: an entry
must be in the data set while it is marked promoted or acquired, and an acquire
round must work on write entries only, else a release would subtract a read
lock nobody has. `LockInv` adds that. Most actions change no entry and no word (one lemma); for the
others, a lemma says how the set of readers or writers of the block changes and
the arithmetic of the word follows from cardinalities of finite sets. That
`2 * NumProcs + 2 < WordMod` is what keeps the reader count from wrapping.

`StmControlProofs` follows a transaction over the nodes:

* `HeldUntilOutcome`: `Spec => HeldToTheEnd`, in every build;
* `FinishReachesAll`: `Spec => []NothingLeftBehind`, in every build, if `~NestedRemote`.

The second has a hypothesis because the code needs it: run `nested_leak` shows what happens
without it. The invariant has layers. `PlaceInv` says that the descriptor where the code runs
names the node of the outermost transaction, and that this node has recorded where the code
was taken. `EntriesInv`, which needs it, says that every entry of the transaction is on a node
that its finish visits, and while the finish goes on, on one it still has to visit. `AcquireInv`
says that what a commit has not yet acquired is on a node or in a set of blocks that its rounds
still have before them, so that at the decision nothing is left to acquire, and `AccessInv`
that an access copies only words whose block it has opened. A step that changes no entry is
either a `Move` or the one step, `Decide`, by which the transaction gets its outcome.

`StmAtomicProofs` is about values, in the builds of `ReadLockBuild`: without `READ_VERSIONING`, which
takes no lock to read and loses snapshots (section 4), without nested remote accesses, and under
`LATE_ACQUIRE` with one word in each block, since with several it loses updates (run `la_history`). It covers
the default build, `WRITE_BUFFERING` alone, and late acquire.

* `SnapshotsCurrent`: `Spec => []ReadsCurrent`, and `OwnWritesSeen`: `Spec => []ReadYourWrites`;
* `StmAtomic`: `Spec => AtomicSpec`, every step is a step of `AtomicTM` or a stutter;
* `CommitsSerializable`: `HSpec => []Serializable`, for histories of any length;
* `FailsOnConflict`: `Spec => OnlyConflictsAbort`, without `READ_VERSIONING` and nested remote accesses.

`ReadsCurrent` alone is not inductive: it speaks of the abstract store, which the refinement
mapping computes from memory, the writers' entries and the saved values. So the actions are first reduced
to what they do to one word on behalf of one transaction (`Effect`: six kinds). From the effects follows how the store
changes: only by a decision to commit, and then exactly by what this transaction has written (`StoreStep`); writes in place, their
undo and the write-back do not show. `ValueInv` has four parts for each transaction and word: without
an entry it has no view of the word; what it has read is in the store; what it has written is
where its reads look; and where it writes a block without having written this word, what is saved is what the store
has. The third and the fourth are what the commit and the undo put into memory. That no other transaction can change a word in
somebody's view is the exclusion of `LockInv`; that a commit holds every block it writes back
is `AcquireInv`. These invariants too were model-checked first, on the instances of the runs `base`, `la` and `rv`, on one of the default build with nesting, and on one with late acquire,
`stm_on` and ranges of two words.

`CommitsSerializable` is about the specification with the history, `HSpec`, whose steps are steps of `Spec` with one transaction
recorded at its `Decide`. Run `la_history` checks the same property in a build that the hypothesis excludes, and finds it violated:
together they say where the border is. `HistoryInv` says that the store has, word by word, what the last of `history`
to write the word has written, and that each transaction read what the last one before it wrote; so `history` is its own serial order.
A commit keeps it because of `ValueInv`: all it has read is in the store when it decides. (The invariant was model-checked for the
default build with two words and two commits.)

### The older STM

`StmBaseProofs` proves, under `StmBaseAssumption`:

* `OldStmTypes`: `Spec => []TypeOK`, whatever the nodes and the share size;
* `NoBlockStaysOwned`: `Spec => []OwnedBySomebody`, without any condition;
* `OwnershipIsExact`: `Spec => []ExactUnlessOvertaken`, `VersionsNameValues`: `Spec => []VersionNamesValue`,
  `OldStmLosesNoUpdate`: `Spec => NoLostUpdate`, and `OldStmSerializable`:
  `Spec => []SerializableUnlessOvertaken` for histories of any length, if
  no two words share a block (`OneWordBlocks`, the default).

Nothing is assumed of how the two threads of a node interleave. The one hypothesis is what the code needs: with more words to a
block the first written word releases it (section 4). And the claims leave out what run `acquire_race` shows: they are about blocks
that no acquire was overtaken on, and serializability about the time until one is. The invariant has
layers here too. `EntriesInv` says what an entry looks like by where its transaction is: what is
being acquired is on the list and written, what has been read was opened, and a commit has one word on its list for each
block it writes. `OwnedInv` follows an ownership bit that is set: to an acquire that has been answered, to one whose
transaction waits for the answer before it aborts, or to a message; it holds after overtaken acquires too, because whoever sets
a bit sends a message that unsets it. `OwnersInv` follows a block from the acquire to the message that a commit or an abort
sends for it, which arrives once: the actions either leave the owners alone, acquire, hand all of a transaction's blocks over
to messages, or serve half a message or the rest of one. It also says that a message which has seen the version is about to
change the version that is still there: nobody else sets it, since an acquire that would is overtaken. So versions never
go back while no acquire is (`VersionGrows`), and a word changes only while its write is half done. `VersionOK` is then
inductive: a version opened unowned is at most the block's, and while it is the block's and no write is half done the word has
not changed, because every write makes the version grow before another can begin; an open with a write between its two
reads gets a version that is gone as soon as that write is done. Last, `CheckedInv`:
the version that a commit has read once more, of a block it owns, is still the block's. A transaction that writes what it has read compares just this
version with the one it opened, and `VersionOK` turns the comparison of versions into one of values: this
is `NoLostUpdate`, an action property of `StmBaseProofs` that no run lists, since `SerializableUnlessOvertaken` says more.
These invariants were model-checked on the instance of run `stm_base` before they were proved.

Transactions do not take effect in the order in which they reach the end of their commit, which is the order of `history`:
one can have its last read validated early and its last acquire late, or the other way round. What works is the moment at which a
commit has the answer to its last acquire. It owns then all it writes, and its reads are validated later, so
that a version it finds unchanged was unchanged at that moment. The proof carries this order along: `OrderInv` says that there are numbers `r[a]`
for the transactions of `history` and `t[p]` for the commits that validate, all different and below a number `top` (`Ranks`), such that

* each transaction of `history` has read what the last before it to write the word, in the order `r`, has written (`HasRead`), and a
  word has what the last of all has written, if not in memory then in a message on its way (`Latest`);
* a commit that validates comes after all of `history` that have read or written what it writes (`After`). This needs that who has
  asked for the version of a word after its writer, and before that writer is done, has been told that it is owned and
  will not pass (`SeesOwner`);
* a commit that validates has read what it would read at its place, if what it has learned of the versions, or would learn
  now, lets it pass (`WillHaveRead`);
* each comes after the transactions that had committed when it began (`Strict`).

The answer to the last acquire gives `p` the rank `top`, passing the validation moves `t[p]` to `r`, and every other step keeps both
functions. That `history` sorted by `r` is an order in the sense of `Serializability` is a lemma on finite sets (`Sorting`): the number of
transactions up to the `a`-th is its place, and an injection of a finite set into itself has an inverse.
`r`, `t` and `top` were first added to the model as auxiliary variables and `OrderInv` model-checked with them; the proof needs none, because the invariant
only says that they exist.

### Allocation

`UmallocProofs` and `GrtAllocProofs` prove, for any number of processors and requests and any heap allowed by `UmallocAssumption`,
`TableFits` (the segment has room for the first table) and `AllocAssumption`, if `~Interleaved`:

* of the heap, `BooksStaySound`: `Spec => []BooksSound`, and `HeapAlwaysServes`: `Spec => []HeapServes`;
* of its callers, `AllocTypes` (`TypeOK`), `NothingLeaks` (`NoLeak`) and `EachAllocationNew` (`DistinctAllocations`);

and whatever `Interleaved` is,

* `ReadersAlwaysAgree`: `Spec => []ReadersAgree`.

For the others `~Interleaved` is needed: with another allocation between one and the look at its result the claims are false, as run
`alloc_race` shows. `ReadersAlwaysAgree` needs only that whoever has read between the barriers has read what `grt_last_alloc`
still is, since all processors are in the call until the second one (`Gathered`). Heap and callers need each other. The heap's books stay right if only what is in use is freed, and the
callers keep to that because an allocation gives them what nobody has; so the inductive invariant is the conjunction of both halves.

*The heap* (`UmallocProofs`). The invariant `Books` is stated for one heap, and `UmallocIs` and `UfreeIs` say that `umalloc` and `ufree` keep it and
do what `Serves` asks. `BooksSound` alone is not inductive: what `heapinfo` and the lists hold must have a shape
(`Heap`); the links must go both ways from every member of the list; clusters must be in the order of their addresses, also with
the table (`Sound`); and a list of fragments must hold fragments of its own size only, each once (`FragsOK`). The
hardest step is `morecore` with a move of the table: the heap is then between two states, its break and `heaplimit` ahead of its clusters, and
the old table is freed in the middle of it, which searches the list, may join or, at the end of memory, return what it has
just got. `HeapAt` is `Books` for such a heap, with the place that the clusters reach as a parameter. What changes in a step is said once per kind of
change - a cluster merges with its neighbour, is split, comes, goes, grows (`Spans...`), a member of the list comes,
goes or is replaced (`Links...`), a fragment gets in or out of a list (`Kept...`) - and the operations are compositions of these.
The searches of the list are recursive functions. That such a function exists is shown by exhibiting one: the search ends
at the greatest free cluster before the block, or at the first in the circle that is large enough; the least and the greatest element of a set of
numbers (`Least`, `Greatest`) stand for the induction. When the last fragment of a block is freed the code counts only: `AllOthersFree`, on
cardinalities, says that the others are then all in the list.
`Books` was model-checked on the heap of run `alloc`, under any sequence of calls, before it was proved.

*The callers* (`GrtAllocProofs`). Their half has three parts. `Phases`, which needs nothing of the heap, says which calls can be under way together: at most one allocation is
made and not yet given to who asked for it, and from the first barrier of a collective call to the second nobody changes
`grt_last_alloc`. `Lists` says that the list of a transaction names each address once, and what its client has got until the
transaction aborts. `Whole` says that the memory in use is what somebody has - a client, a list, a message that frees it - or
what is still to be given, and that nobody has what somebody else has. This last is what `NoLeak` lacks: a free would
otherwise take away memory from a second holder.

### The queued lock

`GrtLockProofs` proves, for any number of processors and locks, with any number of locks held at a time, under
`LockAssumption`:

* `QueuedLockTypes` (`TypeOK`), `QueuedLockHolders` (`HoldersExact`), `QueuedLockWakeup` (`NoLostWakeup`),
  `QueuedLockNoStray` (`NoStrayGrant`);
* `QueuedLockImplements`: `Spec => ReaderWriterLock`, and `QueuedLockOrder`: `WritersQueue`.

A lock has two kinds of people around it, owners and waiters, and the invariant says that each is accounted for once. Of every
lock, `HoldersOK`: `num_holders` is the number of its owners, all of them own it by `type`, and a writer is
alone; and `QueueOK`: the entries of the queue are distinct processors that spin for this lock and have not been told, and a queue that is not
empty has an owner ahead of it. Of every message that ends a wait, a reply or the write of a releaser, `MessagesOK`:
its receiver still spins, and it is the only one to him. Of every processor, `CallOK`: whoever spins is in the queue or has such a message on
its way. There is one lemma per action; lemmas about the cardinality of the owners after one more, one less or one
exchanged for another carry the count. A grant is then a step of `RWLock` because `HoldersOK` holds before it, and all
other steps are stutters. `EveryRequestGranted` is liveness and stays with TLC.

### The new lock and the thread pool

`GrtNewLockProofs` proves, for any finite set of processors and any handlers, threads and locks allowed by
`AgentAssumption` and `LockAssumption`:

* `NewLockTypes`: `Spec => []TypeOK`;
* of the pool, `CallsExact` (`JobsExact`: a call is in exactly one place), `PoolIdle` (`ListedIdle`) and
  `PoolWakeup` (`NoLostWakeup`);
* of the lock, `NewLockHsls` (`HslsExact`), `NewLockMode` (`TypeNamesMode`) and `UnlockNotStuck`
  (`HandlerNeverStuck`);
* `NewLockImplements`: `Spec => ReaderWriterLock`, every step of the code is a step of `RWLock` or a stutter.

The inductive invariant is built in layers, each of which uses those before it. `Pool` says
that an idle thread is listed once or has one handler to wake it, and carries `NoLostWakeup`. `InFlight` says that a
processor's call is in one request or at one agent, and only while the processor waits for it; so no two agents ever
work for one processor. `CallsOK` says that a call finds its lock as the caller has left it, and `Errands` that the place of an
agent in the code fits its call. On these rests `LocksOK`, which relates the number of readers, `write_hsl` and `type` to
how the processors hold the lock, with a writer alone: a step that counts a reader in or out changes one processor's
hold, and the number follows from the cardinality of a finite set. The properties of the lock are its
conjuncts, and a step that grants the lock is compatible with what the others hold because of them.

### What is only model-checked

All liveness: fairness and ENABLED are out of the prover's reach. And `Ssca2`:
what goes out with a message is a concatenation of buffers, whose value needs induction over data, which is out of reach too; and its
promises are broken where `update_adj_list_local` steps over its buffer wrongly (section 4).

## 6. Not modelled, and the plan

Not modelled: the copy of the pool's code in `stm_on` (`GrtOn` models that code once) and `grt_on_nb`, which is `grt_on`
without the wait; `grt_read`, `grt_write` and `grt_cas`, one message each; allocation in
`stm_base.c`; the build with `WRITE_BUFFERING` alone, which `StmDistrib` models and the theorems cover but no run
instantiates; `BACKOFF`. Of `umalloc`: heaps that grow down (grt's grows up), `urealloc`, aligned
blocks, statistics and checks. Of `ssca2`: the build with transactions, and the sequential build. Left out for good: debugging, argument packing, GASNet set-up, the
sequential list and map (modelled as sequences and functions), the serial and
timing programs.

What is left of the plan, in this order:

1. `HashmapLocks` - the swap benchmark on `GrtLock`'s actions: deadlock of `lock()`'s key
   order against bucket order.
2. `Ssca2` in its build with transactions, over `AtomicTM`.
3. `memcpy_wb` as a function, against a reference copy, over all small ranges.
4. Proofs: what `StmBase` still ensures with blocks of several words; theorems about compositions, such as the queued lock over its allocation.

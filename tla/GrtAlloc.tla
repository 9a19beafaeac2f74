------------------------------ MODULE GrtAlloc ------------------------------
(***************************************************************************)
(* Shared memory on one node, Home: grt_alloc, grt_all_alloc and grt_free  *)
(* of src/Implementation/grt/grt.c, and stm_alloc, stm_all_alloc and       *)
(* stm_free of src/Implementation/stm/stm-distrib.c over them.  Umalloc    *)
(* says what happens to the heap under alloc_lock.                         *)
(*                                                                         *)
(* A processor waits for the answer to all its requests but grt_free's, so *)
(* a request and its handler are steps of the processor that makes it.     *)
(* What is apart: an allocation, and the look at grt_last_alloc for its    *)
(* result, which grt_memalign_local and alloc_handler take when they have  *)
(* already released alloc_lock; the phases of a collective allocation; the *)
(* delivery of frees; and what an aborted transaction frees, one by one.   *)
(***************************************************************************)
EXTENDS Umalloc, FiniteSets, Functions

CONSTANTS
  Proc,         \* the processors, ...
  Home,         \* ... of which this one has the heap
  Collective,   \* the requests made by all together
  MaxInUse,     \* bound on the allocations in use at a time
  MaxInTx,      \* bound on the allocations of one transaction
  Interleaved   \* whether another allocation may come in between an
                \* allocation on Home and the look at its result

ASSUME AllocAssumption ==
  /\ Home \in Proc
  /\ Collective \subseteq Request
  /\ {MaxInUse, MaxInTx} \subseteq Nat
  /\ Interleaved \in BOOLEAN

VARIABLES
  heap,            \* grt_heap
  grt_last_alloc,  \* the last allocation made on Home
  pc,              \* where the thread of each processor is
  in_tx,           \* whether it is in a transaction
  allocations,     \* the list of that name in its descriptor on Home
  freeing,         \* grt_free requests on their way
  known,           \* the allocations clients have, ...
  mine,            \* ... and those a transaction under way has made
  result           \* what a collective call is about to return

vars == <<heap, grt_last_alloc, pc, in_tx, allocations, freeing, known, mine,
          result>>

(* result: its allocation is made, and own: so is Home's in stm_all_alloc; *)
(* all: its collective call waits in the first BARRIER; got: it has read   *)
(* grt_last_alloc there and waits in the second; kept: Home waits in both, *)
(* with the result stm_alloc_local has returned; abort: in stm_finish.     *)
PC == {"run", "result", "own", "all", "got", "kept", "abort"}

(* The shape of the state; a transaction's list on Home names what its     *)
(* client has got in it, in order (stm_alloc_local, stm_finish_local).     *)
TypeOK ==
  /\ grt_last_alloc \in Addr \cup {NULL}
  /\ pc \in [Proc -> PC]
  /\ in_tx \in [Proc -> BOOLEAN]
  /\ freeing \cup known \subseteq Addr
  /\ result \in [Proc -> Addr \cup {NULL}]
  /\ \A p \in Proc :
       pc[p] # "abort" => mine[p] = { allocations[p][k] : k \in DOMAIN allocations[p] }

Init ==
  /\ heap = initialize
  /\ grt_last_alloc = NULL
  /\ pc = [p \in Proc |-> "run"]
  /\ in_tx = [p \in Proc |-> FALSE]
  /\ allocations = [p \in Proc |-> <<>>]
  /\ freeing = {}
  /\ known = {}
  /\ mine = [p \in Proc |-> {}]
  /\ result = [p \in Proc |-> NULL]

-----------------------------------------------------------------------------
Goes(p, at) == pc' = [pc EXCEPT ![p] = at]

(* Nobody is between an allocation on Home and the look at its result.     *)
Settled == pc[Home] \notin {"own", "all", "kept"} /\ \A p \in Proc : pc[p] # "result"

Clients == known \cup UNION { mine[p] : p \in Proc }

(* Processor p may ask for memory on Home.                                 *)
MayAllocate(p) ==
  /\ pc[p] = "run"
  /\ Interleaved \/ Settled
  /\ Cardinality(InUse(heap)) < MaxInUse

(* ucalloc or umemalign, under alloc_lock.                                 *)
Allocates(req) ==
  \E r \in {umalloc(heap, req)} : heap' = r.heap /\ grt_last_alloc' = r.ptr

(* A client comes to have the allocation x, or finds there is none.        *)
Known(x) == known' = known \cup ({x} \ {NULL})

(* grt_alloc on Home, whose result is read under the lock.                 *)
grt_alloc_home(req) ==
  /\ MayAllocate(Home) /\ ~in_tx[Home]
  /\ Allocates(req)
  /\ Known(grt_last_alloc')
  /\ UNCHANGED <<pc, in_tx, allocations, freeing, mine, result>>

(* alloc_handler, for grt_alloc from elsewhere.                            *)
alloc_handler(p, req) ==
  /\ MayAllocate(p) /\ ~in_tx[p] /\ p # Home
  /\ Allocates(req)
  /\ Goes(p, "result")
  /\ UNCHANGED <<in_tx, allocations, freeing, known, mine, result>>

(* grt_memalign_local in stm_alloc_local, on Home or by stm_alloc_handler: *)
(* without memory it would clear what is at NULL.                          *)
stm_alloc(p, req) ==
  /\ MayAllocate(p) /\ in_tx[p] /\ Len(allocations[p]) < MaxInTx
  /\ Allocates(req)
  /\ grt_last_alloc' # NULL
  /\ Goes(p, "result")
  /\ UNCHANGED <<in_tx, allocations, freeing, known, mine, result>>

(* Mutated form of Listed: the block is not put into the list.             *)
Listed_not(p, x) == UNCHANGED allocations

(* A block allocated in a transaction goes into its list.                  *)
Listed(p, x) == allocations' = [allocations EXCEPT ![p] = Append(@, x)]

(* return grt_last_alloc, to grt_alloc or stm_alloc.                       *)
Result(p) ==
  /\ pc[p] = "result"
  /\ IF in_tx[p]
     THEN /\ Listed(p, grt_last_alloc)
          /\ mine' = [mine EXCEPT ![p] = @ \cup {grt_last_alloc}]
          /\ UNCHANGED known
     ELSE Known(grt_last_alloc) /\ UNCHANGED <<allocations, mine>>
  /\ Goes(p, "run")
  /\ UNCHANGED <<heap, grt_last_alloc, in_tx, freeing, result>>

-----------------------------------------------------------------------------
(* grt_all_alloc and stm_all_alloc: Home allocates and everybody waits in  *)
(* a BARRIER; then each reads grt_last_alloc, before another BARRIER.  In  *)
(* stm_all_alloc Home does not: it keeps what stm_alloc_local returned,    *)
(* which read it before the first, by grt_memalign_local.                  *)

all_alloc_elsewhere(p) ==
  /\ pc[p] = "run" /\ ~in_tx[p] /\ p # Home
  /\ Goes(p, "all")
  /\ UNCHANGED <<heap, grt_last_alloc, in_tx, allocations, freeing, known, mine,
                 result>>

grt_all_alloc_home(req) ==
  /\ MayAllocate(Home) /\ ~in_tx[Home]
  /\ Allocates(req)
  /\ Goes(Home, "all")
  /\ UNCHANGED <<in_tx, allocations, freeing, known, mine, result>>

stm_all_alloc_home(req) ==
  /\ MayAllocate(Home) /\ ~in_tx[Home]
  /\ Allocates(req)
  /\ grt_last_alloc' # NULL
  /\ Goes(Home, "own")
  /\ UNCHANGED <<in_tx, allocations, freeing, known, mine, result>>

(* return grt_last_alloc, to stm_all_alloc on Home.                        *)
stm_all_alloc_keeps ==
  /\ pc[Home] = "own"
  /\ result' = [result EXCEPT ![Home] = grt_last_alloc]
  /\ Goes(Home, "kept")
  /\ UNCHANGED <<heap, grt_last_alloc, in_tx, allocations, freeing, known, mine>>

(* Mutated form of FirstBarrier: nobody waits there.                       *)
FirstBarrier_open == TRUE

FirstBarrier == \A p \in Proc : pc[p] \in {"all", "got", "kept"}

grt_get_last_allocation(p) ==
  /\ pc[p] = "all" /\ FirstBarrier
  /\ result' = [result EXCEPT ![p] = grt_last_alloc]
  /\ Known(grt_last_alloc)
  /\ Goes(p, "got")
  /\ UNCHANGED <<heap, grt_last_alloc, in_tx, allocations, freeing, mine>>

SecondBarrier ==
  /\ \A p \in Proc : pc[p] \in {"got", "kept"}
  /\ Known(result[Home])
  /\ pc' = [p \in Proc |-> "run"]
  /\ result' = [p \in Proc |-> NULL]
  /\ UNCHANGED <<heap, grt_last_alloc, in_tx, allocations, freeing, mine>>

-----------------------------------------------------------------------------
(* grt_free, of an allocation of no transaction under way: on Home at once, *)
(* from elsewhere by a request nobody waits for.                           *)
grt_free(p, x) ==
  /\ pc[p] = "run" /\ x \in known
  /\ known' = known \ {x}
  /\ IF p = Home
     THEN heap' = ufree(heap, x) /\ UNCHANGED freeing
     ELSE freeing' = freeing \cup {x} /\ UNCHANGED heap
  /\ UNCHANGED <<grt_last_alloc, pc, in_tx, allocations, mine, result>>

free_handler(x) ==
  /\ x \in freeing
  /\ heap' = ufree(heap, x)
  /\ freeing' = freeing \ {x}
  /\ UNCHANGED <<grt_last_alloc, pc, in_tx, allocations, known, mine, result>>

-----------------------------------------------------------------------------
(* Transactions                                                            *)

stm_start(p) ==
  /\ pc[p] = "run" /\ ~in_tx[p]
  /\ in_tx' = [in_tx EXCEPT ![p] = TRUE]
  /\ UNCHANGED <<heap, grt_last_alloc, pc, allocations, freeing, known, mine,
                 result>>

(* Mutated form of Cleared: the list is kept for the next transaction.     *)
Cleared_not(p) == UNCHANGED allocations

(* linkedlist_clear in stm_finish_local.                                   *)
Cleared(p) == allocations' = [allocations EXCEPT ![p] = <<>>]

stm_commit(p) ==
  /\ pc[p] = "run" /\ in_tx[p]
  /\ in_tx' = [in_tx EXCEPT ![p] = FALSE]
  /\ Cleared(p)
  /\ known' = known \cup mine[p]
  /\ mine' = [mine EXCEPT ![p] = {}]
  /\ UNCHANGED <<heap, grt_last_alloc, pc, freeing, result>>

(* A conflict, or stm_abort: the client forgets what it has got.           *)
stm_abort(p) ==
  /\ pc[p] = "run" /\ in_tx[p]
  /\ mine' = [mine EXCEPT ![p] = {}]
  /\ Goes(p, "abort")
  /\ UNCHANGED <<heap, grt_last_alloc, in_tx, allocations, freeing, known, result>>

(* stm_finish_local frees the list, a block at a time, and clears it; the  *)
(* longjmp starts the transaction anew.                                    *)
stm_finish_frees(p) ==
  /\ pc[p] = "abort" /\ allocations[p] # <<>>
  /\ heap' = ufree(heap, Head(allocations[p]))
  /\ allocations' = [allocations EXCEPT ![p] = Tail(@)]
  /\ UNCHANGED <<grt_last_alloc, pc, in_tx, freeing, known, mine, result>>

stm_restart(p) ==
  /\ pc[p] = "abort" /\ allocations[p] = <<>>
  /\ Goes(p, "run")
  /\ UNCHANGED <<heap, grt_last_alloc, in_tx, allocations, freeing, known, mine,
                 result>>

-----------------------------------------------------------------------------
Requests ==
  \E req \in Request :
    \/ grt_alloc_home(req)
    \/ \E p \in Proc : alloc_handler(p, req) \/ stm_alloc(p, req)

CollectiveCalls ==
  \/ \E req \in Collective : grt_all_alloc_home(req) \/ stm_all_alloc_home(req)
  \/ stm_all_alloc_keeps
  \/ \E p \in Proc : all_alloc_elsewhere(p) \/ grt_get_last_allocation(p)
  \/ SecondBarrier

Frees ==
  \/ \E p \in Proc, x \in known : grt_free(p, x)
  \/ \E x \in freeing : free_handler(x)

Transactions ==
  \E p \in Proc :
    \/ stm_start(p)
    \/ stm_commit(p)
    \/ stm_abort(p)
    \/ stm_finish_frees(p)
    \/ stm_restart(p)

Next ==
  \/ Requests
  \/ \E p \in Proc : Result(p)
  \/ CollectiveCalls
  \/ Frees
  \/ Transactions

Spec == Init /\ [][Next]_vars

-----------------------------------------------------------------------------
(* The heap's own books stay right: its blocks are cut up without overlap  *)
(* or loss, also when the heapinfo table moves (morecore) and when memory  *)
(* goes back to the system (__umalloc_free).  The list of free clusters    *)
(* can be searched from heapindex, both ways, whatever the splits, joins   *)
(* and returns; and a block's first free fragment and their number name a  *)
(* run of the list of fragments (umalloc takes first off the next fragment *)
(* in the list, and __umalloc_free takes nfree fragments from first on).   *)
BooksSound == Partition(heap) /\ ListSound(heap) /\ FragsSound(heap)

(* In every state the heap would serve any request, and any free of what   *)
(* is in use, rightly (umalloc, __umalloc_free): what NoLeak relies on.    *)
HeapServes == Serves(heap)

(* What is between the heap and the clients: just allocated, or about to   *)
(* be freed.                                                               *)
UnderWay ==
  freeing
  \cup (IF Settled THEN {} ELSE {grt_last_alloc})
  \cup UNION { Range(allocations[p]) : p \in { q \in Proc : pc[q] = "abort" } }

(* What the heap takes to be in use is what clients have, are about to be  *)
(* given, or have asked to free: nothing leaks and nothing is freed under  *)
(* a client, through collective calls, aborts and frees on their way       *)
(* (stm_alloc_local, stm_finish_local, grt_free).                          *)
NoLeak == InUse(heap) = (Clients \cup UnderWay) \ {NULL}

(* "each call does a new allocation" (grt.h:284): no client is given, by   *)
(* grt_alloc or stm_alloc, what another has (grt_last_alloc).              *)
DistinctAllocations ==
  [][\A p \in Proc :
       /\ pc[p] = "result" /\ pc'[p] = "run"
       /\ grt_last_alloc # NULL
       => grt_last_alloc \notin Clients]_vars

(* "return the same pointer to the allocation to all callers" (grt.h:288): *)
(* all who read grt_last_alloc between the barriers do, the callers of     *)
(* grt_all_alloc and all but Home of stm_all_alloc. What others allocate   *)
(* before they have come to the first barrier, or after the second, does   *)
(* not come between two reads. Home keeps what stm_alloc_local returned,   *)
(* which such an allocation makes another address than the rest read.      *)
ReadersAgree ==
  \A p, q \in Proc : pc[p] = "got" /\ pc[q] = "got" => result[p] = result[q]
=============================================================================

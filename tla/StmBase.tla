------------------------------ MODULE StmBase ------------------------------
(***************************************************************************)
(* The older STM of src/Implementation/stm (stm.h, stm_base.c): late       *)
(* acquire with versions.  A transaction opens words into a private cache, *)
(* each with the version of its block; its commit acquires the blocks it   *)
(* writes, reads the versions of the blocks it has read once more, and     *)
(* sends its writes, each of which also releases its block.                *)
(*                                                                         *)
(* Requests are asynchronous: a processor sends all requests of a round    *)
(* and then waits for each entry of its cache to be DONE.  The state of a  *)
(* PENDING entry says which request it waits for; the last step of its     *)
(* handler includes the reply.  A processor's requests to its own node are *)
(* function calls: it does nothing else before they return (Busy).  The    *)
(* writes and releases of a finished transaction are not waited for (net). *)
(*                                                                         *)
(* A node has two threads, its processor's and the one that grt_init       *)
(* starts to poll (grt.c:95), and no lock but acquire_lock: so each access *)
(* of a request to a word or a version is a step of its own.  overtaken is *)
(* no state of the STM: it records the blocks whose version acquire_local  *)
(* has set although it had changed since acquire_local looked at it.       *)
(***************************************************************************)
EXTENDS Integers, Sequences, FiniteSets, Bags

CONSTANTS
  NumProcs,    \* grt_num_procs
  Word,        \* shared words, by address
  ShareSize,   \* 2^STM_SHARE_POWER
  NodeOf,      \* the node each block lives on
  InitVal,     \* the value words have at first
  Val,         \* the values transactions write
  NoVal,       \* no value
  MaxDepth,    \* bound on the nesting of transactions
  MaxOps,      \* bound on the opens, reads and first writes of a transaction
  MaxCommits,  \* bound on the transactions that commit
  MaxSent      \* bound on the messages of a processor under way when it starts

Proc == 0 .. NumProcs - 1

BlockOf(w) == w \div ShareSize     \* version_addr
Block == { BlockOf(w) : w \in Word }
Home(w) == NodeOf[BlockOf(w)]

ASSUME StmBaseAssumption ==
  /\ NumProcs \in Nat \ {0}
  /\ Word \subseteq Nat
  /\ ShareSize \in Nat \ {0}
  /\ NodeOf \in [Block -> Proc]
  /\ NoVal \notin Val \cup {InitVal}
  /\ MaxDepth \in Nat \ {0} /\ MaxOps \in Nat /\ MaxCommits \in Nat /\ MaxSent \in Nat

is_owned(v) == v % 2 = 1
make_unowned(v) == v - (v % 2)
make_owned(v) == make_unowned(v) + 1

VARIABLES
  mem,            \* the words ...
  version,        \* ... and the version of each block, with its ownership bit
  cache,          \* each processor's cache_entry_t for each word
  read_list,      \* the words of its read_list ...
  acquired_list,  \* ... and of its acquired_list
  todo,           \* entries whose version its commit has still to ask for
  pc,             \* where its thread is
  nesting_count,
  net,            \* bag of writes and releases that are not done yet
  rset,           \* what client code has read, NoVal for the words it has not
  began,          \* the length of history when the transaction began
  history,        \* the committed transactions: [reads, writes, began]
  overtaken       \* the blocks an acquire was overtaken on

shared == <<mem, version>>
lists == <<read_list, acquired_list, todo>>
ghosts == <<rset, began, history>>
vars == <<shared, cache, lists, pc, nesting_count, net, ghosts, overtaken>>

Value == Val \cup {InitVal}

(* DONE, or PENDING: an open, of the version and then of the word; an      *)
(* acquire, that has to look at the version, then to lock and set it; a    *)
(* read of the version by the commit.                                      *)
EntryState == {"DONE", "open", "open_value", "acquire", "acquire_set", "version"}

Entry == [read : BOOLEAN, written : BOOLEAN, value : Value \cup {NoVal},
          version : Nat, new_version : Nat, old_version : Nat,
          state : EntryState, status : {"SUCCEED", "FAIL"}]

NoEntry == [read |-> FALSE, written |-> FALSE, value |-> NoVal,
            version |-> 0, new_version |-> 0, old_version |-> 0,
            state |-> "DONE", status |-> "SUCCEED"]

(* On its way; or its node has stored the value; or has seen the version   *)
(* it is about to change.                                                  *)
Message == [type : {"WRITE"}, proc : Proc, word : Word, val : Val,
            at : {"sent", "stored", "seen"}, seen : Nat]
           \cup [type : {"RELEASE"}, proc : Proc, word : Word, val : {NoVal},
                 at : {"sent", "seen"}, seen : Nat]

PC == {"idle", "run", "acquire", "validate", "abort", "cleanup"}

InCache(p, w) == cache[p][w].read \/ cache[p][w].written

(* What the variables hold (history is a log that steps only append to).   *)
Typed ==
  /\ mem \in [Word -> Value]
  /\ version \in [Block -> Nat]
  /\ cache \in [Proc -> [Word -> Entry]]
  /\ read_list \in [Proc -> SUBSET Word]
  /\ acquired_list \in [Proc -> SUBSET Word]
  /\ todo \in [Proc -> SUBSET Word]
  /\ pc \in [Proc -> PC]
  /\ nesting_count \in [Proc -> 0 .. MaxDepth]
  /\ IsABag(net) /\ BagToSet(net) \subseteq Message
  /\ rset \in [Proc -> [Word -> Value \cup {NoVal}]]
  /\ overtaken \subseteq Block

(* Types; and an entry that is DONE has a value for client code to read.   *)
TypeOK ==
  /\ Typed
  /\ \A p \in Proc, w \in Word :
       InCache(p, w) /\ cache[p][w].state = "DONE" => cache[p][w].value \in Value

Untouched == [w \in Word |-> NoVal]

Init ==
  /\ mem = [w \in Word |-> InitVal]
  /\ version = [b \in Block |-> 0]
  /\ cache = [p \in Proc |-> [w \in Word |-> NoEntry]]
  /\ read_list = [p \in Proc |-> {}]
  /\ acquired_list = [p \in Proc |-> {}]
  /\ todo = [p \in Proc |-> {}]
  /\ pc = [p \in Proc |-> "idle"]
  /\ nesting_count = [p \in Proc |-> 0]
  /\ net = EmptyBag
  /\ rset = [p \in Proc |-> Untouched]
  /\ began = [p \in Proc |-> 0]
  /\ history = <<>>
  /\ overtaken = {}

-----------------------------------------------------------------------------
(* The thread is in a call on its own node: a request it serves itself, or *)
(* a write or release to a word of its own.                                *)
Busy(p) ==
  \/ \E w \in Word : Home(w) = p /\ cache[p][w].state # "DONE"
  \/ \E m \in BagToSet(net) : m.proc = p /\ Home(m.word) = p

(* The requests of the processors ps that node n has begun to serve.       *)
Halfway(n, ps) ==
  Cardinality({ e \in ps \X Word :
                  /\ Home(e[2]) = n
                  /\ cache[e[1]][e[2]].state \in {"open_value", "acquire_set"} })
  + BagCardinality([m \in { x \in BagToSet(net) : /\ x.proc \in ps /\ Home(x.word) = n
                                                   /\ x.at # "sent" } |-> net[m]])

(* One of the two threads of node n can begin a request of p; what p asks  *)
(* its own node is served by its own thread, one call after the other.     *)
Serves(n, p) == Halfway(n, Proc) < 2 /\ (p = n => Halfway(n, {n}) = 0)

Running(p) == pc[p] = "run" /\ ~Busy(p)

BlocksOf(ws) == { BlockOf(w) : w \in ws }
Written(p) == { w \in Word : cache[p][w].written }

-----------------------------------------------------------------------------
(* What client code calls                                                  *)

Sent(p) == BagCardinality([m \in { x \in BagToSet(net) : x.proc = p } |-> net[m]])

stm_start(p) ==
  /\ \/ /\ pc[p] = "idle" /\ nesting_count[p] = 0
        /\ Len(history) + Cardinality({ q \in Proc : pc[q] # "idle" }) < MaxCommits
        /\ Sent(p) <= MaxSent
        /\ pc' = [pc EXCEPT ![p] = "run"]
        /\ began' = [began EXCEPT ![p] = Len(history)]
     \/ /\ Running(p) /\ nesting_count[p] \in 1 .. MaxDepth - 1
        /\ UNCHANGED <<pc, began>>
  /\ nesting_count' = [nesting_count EXCEPT ![p] = @ + 1]
  /\ UNCHANGED <<shared, cache, lists, net, rset, history, overtaken>>

(* Only the first word opened of a block goes on the read list.            *)
stm_open_for_read(p, w) ==
  /\ Running(p) /\ ~InCache(p, w)
  /\ cache' = [cache EXCEPT ![p][w] = [NoEntry EXCEPT !.read = TRUE, !.state = "open"]]
  /\ read_list' = [read_list EXCEPT ![p] =
                     IF BlockOf(w) \in BlocksOf(@) THEN @ ELSE @ \cup {w}]
  /\ UNCHANGED <<shared, acquired_list, todo, pc, nesting_count, net, ghosts, overtaken>>

(* __stm_read fails if the word was owned when it was opened.              *)
stm_read(p, w) ==
  /\ Running(p) /\ InCache(p, w) /\ cache[p][w].state = "DONE"
  /\ IF cache[p][w].read /\ is_owned(cache[p][w].version)
     THEN pc' = [pc EXCEPT ![p] = "abort"] /\ UNCHANGED rset
     ELSE /\ ~cache[p][w].written
          /\ rset' = [rset EXCEPT ![p][w] = cache[p][w].value]
          /\ UNCHANGED pc
  /\ UNCHANGED <<shared, cache, lists, nesting_count, net, began, history, overtaken>>

stm_write(p, w, v) ==
  /\ Running(p) /\ cache[p][w].state = "DONE"
  /\ cache' = [cache EXCEPT ![p][w].value = v, ![p][w].written = TRUE]
  /\ UNCHANGED <<shared, lists, pc, nesting_count, net, ghosts, overtaken>>

(* The outermost commit sends an acquire for one word of each block it has *)
(* written (acquired_set).                                                 *)
stm_commit(p) ==
  /\ Running(p)
  /\ nesting_count' = [nesting_count EXCEPT ![p] = @ - 1]
  /\ \/ /\ nesting_count[p] > 1
        /\ UNCHANGED <<cache, acquired_list, pc>>
     \/ /\ nesting_count[p] = 1
        /\ \E ws \in SUBSET Written(p) :
             /\ BlocksOf(ws) = BlocksOf(Written(p))
             /\ \A w, x \in ws : w # x => BlockOf(w) # BlockOf(x)
             /\ acquired_list' = [acquired_list EXCEPT ![p] = ws]
             /\ cache' = [cache EXCEPT ![p] =
                  [w \in Word |-> IF w \in ws THEN [@[w] EXCEPT !.state = "acquire"]
                                  ELSE @[w]]]
        /\ pc' = [pc EXCEPT ![p] = "acquire"]
  /\ UNCHANGED <<shared, read_list, todo, net, ghosts, overtaken>>

-----------------------------------------------------------------------------
(* The requests, at the node of the word                                   *)

(* The version is read first ...                                           *)
open_looks(p, w) ==
  /\ cache[p][w].state = "open" /\ Serves(Home(w), p)
  /\ cache' = [cache EXCEPT ![p][w].version = version[BlockOf(w)],
                            ![p][w].state = "open_value"]
  /\ UNCHANGED <<shared, lists, pc, nesting_count, net, ghosts, overtaken>>

(* Mutated form of open_for_read: the word is not read.                    *)
open_for_read_version(p, w) ==
  /\ cache[p][w].state = "open_value"
  /\ cache' = [cache EXCEPT ![p][w].state = "DONE"]
  /\ UNCHANGED <<shared, lists, pc, nesting_count, net, ghosts, overtaken>>

(* ... and then the word.                                                  *)
open_for_read(p, w) ==
  /\ cache[p][w].state = "open_value"
  /\ cache' = [cache EXCEPT ![p][w].value = mem[w], ![p][w].state = "DONE"]
  /\ UNCHANGED <<shared, lists, pc, nesting_count, net, ghosts, overtaken>>

(* acquire_local looks at the version before it takes acquire_lock ...     *)
acquire_looks(p, w) ==
  /\ cache[p][w].state = "acquire" /\ Serves(Home(w), p)
  /\ cache' = [cache EXCEPT ![p][w].old_version = version[BlockOf(w)],
                            ![p][w].state = "acquire_set"]
  /\ UNCHANGED <<shared, lists, pc, nesting_count, net, ghosts, overtaken>>

(* ... and decides by what it has seen.                                    *)
acquire_local(p, w) ==
  LET old == cache[p][w].old_version
      b == BlockOf(w) IN
  /\ cache[p][w].state = "acquire_set"
  /\ \/ /\ is_owned(old)
        /\ UNCHANGED <<version, overtaken>>
     \/ /\ ~is_owned(old)
        /\ version' = [version EXCEPT ![b] = make_owned(old)]
        /\ overtaken' = overtaken \cup (IF version[b] # old THEN {b} ELSE {})
  /\ cache' = [cache EXCEPT ![p][w].state = "DONE", ![p][w].old_version = 0,
                            ![p][w].status = IF is_owned(old) THEN "FAIL" ELSE "SUCCEED"]
  /\ UNCHANGED <<mem, lists, pc, nesting_count, net, ghosts>>

(* grt_read_nb of the version                                              *)
read_version(p, w) ==
  /\ cache[p][w].state = "version" /\ Serves(Home(w), p)
  /\ cache' = [cache EXCEPT ![p][w].new_version = version[BlockOf(w)],
                            ![p][w].state = "DONE"]
  /\ UNCHANGED <<shared, lists, pc, nesting_count, net, ghosts, overtaken>>

(* Message m becomes x.                                                    *)
Becomes(m, x) == net' = (net (-) SetToBag({m})) (+) SetToBag({x})

(* A write stores the value first.                                         *)
commit_value(m) ==
  /\ m.type = "WRITE" /\ m.at = "sent" /\ Serves(Home(m.word), m.proc)
  /\ mem' = [mem EXCEPT ![m.word] = m.val]
  /\ Becomes(m, [m EXCEPT !.at = "stored"])
  /\ UNCHANGED <<version, cache, lists, pc, nesting_count, ghosts, overtaken>>

(* Writes and releases read the version ...                                *)
version_looks(m) ==
  /\ \/ m.type = "WRITE" /\ m.at = "stored"
     \/ m.type = "RELEASE" /\ m.at = "sent" /\ Serves(Home(m.word), m.proc)
  /\ Becomes(m, [m EXCEPT !.at = "seen", !.seen = version[BlockOf(m.word)]])
  /\ UNCHANGED <<shared, cache, lists, pc, nesting_count, ghosts, overtaken>>

(* Mutated form of NextVersion: the block is only released.                *)
NextVersion_same(v) == make_unowned(v)

NextVersion(v) == make_unowned(v + 2)

(* ... and then set it, both so that the block is owned no more.           *)
version_set(m) ==
  /\ m.at = "seen"
  /\ version' = [version EXCEPT ![BlockOf(m.word)] =
                    IF m.type = "WRITE" THEN NextVersion(m.seen) ELSE make_unowned(m.seen)]
  /\ net' = net (-) SetToBag({m})
  /\ UNCHANGED <<mem, cache, lists, pc, nesting_count, ghosts, overtaken>>

-----------------------------------------------------------------------------
(* The rest of a commit, and abort                                         *)

Failed(p, w) == cache[p][w].state = "DONE" /\ cache[p][w].status = "FAIL"

(* Every acquire has been answered: validate; one has failed: abort.       *)
acquired(p) ==
  /\ pc[p] = "acquire" /\ ~Busy(p)
  /\ \/ /\ \E w \in acquired_list[p] : Failed(p, w)
        /\ pc' = [pc EXCEPT ![p] = "abort"]
        /\ UNCHANGED todo
     \/ /\ \A w \in acquired_list[p] : cache[p][w].state = "DONE" /\ ~Failed(p, w)
        /\ pc' = [pc EXCEPT ![p] = "validate"]
        /\ todo' = [todo EXCEPT ![p] = read_list[p]]
  /\ UNCHANGED <<shared, cache, read_list, acquired_list, nesting_count, net, ghosts, overtaken>>

(* A version is asked for when the open of its entry is complete.          *)
ask_version(p, w) ==
  /\ pc[p] = "validate" /\ ~Busy(p)
  /\ w \in todo[p] /\ cache[p][w].state = "DONE"
  /\ cache' = [cache EXCEPT ![p][w].state = "version"]
  /\ todo' = [todo EXCEPT ![p] = @ \ {w}]
  /\ UNCHANGED <<shared, read_list, acquired_list, pc, nesting_count, net, ghosts, overtaken>>

(* Mutated form of Inconsistent: a block another transaction owns is taken *)
(* for unchanged.                                                          *)
Inconsistent_owned(p, w) == make_unowned(cache[p][w].new_version) # cache[p][w].version

(* The block of w is owned by another transaction, or has been written.    *)
Inconsistent(p, w) ==
  \/ /\ BlockOf(w) \notin BlocksOf(acquired_list[p])
     /\ is_owned(cache[p][w].new_version)
  \/ make_unowned(cache[p][w].new_version) # cache[p][w].version

Writes(p) == { [type |-> "WRITE", proc |-> p, word |-> w, val |-> cache[p][w].value,
                 at |-> "sent", seen |-> 0] : w \in Written(p) }

(* The lists go at once, entries when the requests for them are answered.  *)
Forget(p) ==
  /\ pc' = [pc EXCEPT ![p] = "cleanup"]
  /\ cache' = [cache EXCEPT ![p] =
       [w \in Word |-> [NoEntry EXCEPT !.state = cache[p][w].state]]]
  /\ read_list' = [read_list EXCEPT ![p] = {}]
  /\ acquired_list' = [acquired_list EXCEPT ![p] = {}]
  /\ todo' = [todo EXCEPT ![p] = {}]
  /\ rset' = [rset EXCEPT ![p] = Untouched]
  /\ began' = [began EXCEPT ![p] = 0]

(* Every version has been answered and is the one opened: commit.          *)
validated(p) ==
  /\ pc[p] = "validate" /\ todo[p] = {} /\ ~Busy(p)
  /\ \/ /\ \E w \in read_list[p] : cache[p][w].state = "DONE" /\ Inconsistent(p, w)
        /\ pc' = [pc EXCEPT ![p] = "abort"]
        /\ UNCHANGED <<cache, lists, net, ghosts>>
     \/ /\ \A w \in read_list[p] : cache[p][w].state = "DONE" /\ ~Inconsistent(p, w)
        /\ Forget(p)
        /\ net' = net (+) SetToBag(Writes(p))
        /\ history' = Append(history,
             [reads |-> rset[p], began |-> began[p],
              writes |-> [w \in Word |-> IF w \in Written(p) THEN cache[p][w].value
                                         ELSE NoVal]])
  /\ UNCHANGED <<shared, nesting_count, overtaken>>

(* Mutated form of Releases: of all it has tried to acquire.               *)
Releases_all(p) == { [type |-> "RELEASE", proc |-> p, word |-> w, val |-> NoVal,
                        at |-> "sent", seen |-> 0] : w \in acquired_list[p] }

(* What an abort releases: all it has acquired.                            *)
Releases(p) == { [type |-> "RELEASE", proc |-> p, word |-> w, val |-> NoVal,
                    at |-> "sent", seen |-> 0] :
                   w \in { x \in acquired_list[p] : cache[p][x].status = "SUCCEED" } }

(* Mutated form of stm_abort: acquires that have not been answered are not *)
(* waited for.                                                             *)
stm_abort_early(p) ==
  /\ pc[p] = "abort"
  /\ Forget(p)
  /\ net' = net (+) SetToBag(Releases(p))
  /\ UNCHANGED <<shared, nesting_count, history, overtaken>>

(* A commit that one acquire has failed waits for the others before it     *)
(* knows what to release.                                                  *)
stm_abort(p) ==
  /\ pc[p] = "abort"
  /\ \A w \in acquired_list[p] : cache[p][w].state = "DONE"
  /\ Forget(p)
  /\ net' = net (+) SetToBag(Releases(p))
  /\ UNCHANGED <<shared, nesting_count, history, overtaken>>

(* When all requests are answered, an aborted transaction begins anew      *)
(* (longjmp to stm_start), and a committed one has returned.               *)
stm_cleanup(p) ==
  /\ pc[p] = "cleanup" /\ ~Busy(p)
  /\ \A w \in Word : cache[p][w].state = "DONE"
  /\ cache' = [cache EXCEPT ![p] = [w \in Word |-> NoEntry]]
  /\ nesting_count' = [nesting_count EXCEPT ![p] = 0]
  /\ pc' = [pc EXCEPT ![p] = "idle"]
  /\ UNCHANGED <<shared, lists, net, ghosts, overtaken>>

-----------------------------------------------------------------------------
Ops(p) == Cardinality({ w \in Word : cache[p][w].read })
          + Cardinality({ w \in Word : rset[p][w] # NoVal })
          + Cardinality(Written(p))

ClientStep(p) ==
  \/ stm_start(p)
  \/ stm_commit(p)
  \/ /\ Ops(p) < MaxOps
     /\ \E w \in Word :
          \/ stm_open_for_read(p, w)
          \/ stm_read(p, w)
          \/ \E v \in Val : stm_write(p, w, v)

Handler(p, w) ==
  \/ open_looks(p, w)
  \/ open_for_read(p, w)
  \/ acquire_looks(p, w)
  \/ acquire_local(p, w)
  \/ read_version(p, w)

Deliver(m) == commit_value(m) \/ version_looks(m) \/ version_set(m)

StmStep(p) ==
  \/ acquired(p)
  \/ \E w \in Word : ask_version(p, w)
  \/ validated(p)
  \/ stm_abort(p)
  \/ stm_cleanup(p)

Next ==
  \/ \E p \in Proc : ClientStep(p) \/ StmStep(p)
  \/ \E p \in Proc, w \in Word : Handler(p, w)
  \/ \E m \in BagToSet(net) : Deliver(m)

Spec == Init /\ [][Next]_vars

-----------------------------------------------------------------------------
S == INSTANCE Serializability

(* Whose is a block: a commit's that has acquired it, or that of a write   *)
(* or release on its way to it.                                            *)
Acquired(p, b) ==
  /\ pc[p] \in {"acquire", "validate", "abort"}
  /\ \E w \in acquired_list[p] :
       /\ BlockOf(w) = b
       /\ cache[p][w].state \notin {"acquire", "acquire_set"}
       /\ cache[p][w].status = "SUCCEED"

Departing(b) == { m \in BagToSet(net) : BlockOf(m.word) = b }

(* No block stays owned for good: who has set its ownership bit will unset *)
(* it by a message, also if the acquire was answered when its transaction  *)
(* had to abort already, and however the threads of a node interleave.     *)
OwnedBySomebody ==
  \A b \in Block :
    is_owned(version[b]) => (\E p \in Proc : Acquired(p, b)) \/ Departing(b) # {}

(* One transaction at most owns b, and the ownership bit is set exactly    *)
(* while one does, until its message has arrived: check-and-acquire is     *)
(* atomic, and nobody releases what is not his.                            *)
Exact(b) ==
  /\ is_owned(version[b]) <=> (\E p \in Proc : Acquired(p, b)) \/ Departing(b) # {}
  /\ \A p, q \in Proc : Acquired(p, b) /\ Acquired(q, b) => p = q
  /\ \A m \in Departing(b) :
       /\ Departing(b) = {m} /\ net[m] = 1
       /\ \A p \in Proc : ~Acquired(p, b)

(* So of every block, as acquire_lock is meant to ensure; but the code     *)
(* looks at the version before it has the lock.                            *)
OwnershipExact == \A b \in Block : Exact(b)

(* That is all that goes wrong: ownership is exact of every block whose    *)
(* version no acquire has set after it had changed, although requests and  *)
(* messages to a node are served by two threads, access by access.         *)
ExactUnlessOvertaken == \A b \in Block \ overtaken : Exact(b)

(* A write of w has stored its value and is yet to set the version.        *)
HalfWritten(w) == \E m \in BagToSet(net) :
                    m.word = w /\ m.type = "WRITE" /\ m.at # "sent"

(* A version names a value: while the block of a word that was opened      *)
(* unowned still has that version, the word has the value it had then, in  *)
(* the cache or as client code has read it before it wrote; but for the    *)
(* writes between their two stores, which the commit can see are owned.    *)
VersionNamesValue ==
  \A p \in Proc, w \in Word :
    LET e == cache[p][w] IN
    /\ e.read /\ e.state \notin {"open", "open_value"}
    /\ e.version = make_unowned(version[BlockOf(w)])
    /\ BlockOf(w) \notin overtaken /\ ~HalfWritten(w)
    => /\ ~e.written => e.value = mem[w]
       /\ rset[p][w] \in {NoVal, mem[w]}

(* Committed transactions could have run one after the other, each after   *)
(* those that had committed when it began ...                              *)
StrictlySerializable == S!StrictlySerializableHistory(history)

(* ... although a commit acquires, validates and writes word by word and   *)
(* returns before its writes arrive, and opens and writes store and load   *)
(* value and version one after the other: as long as no acquire has been   *)
(* overtaken.                                                              *)
SerializableUnlessOvertaken == overtaken = {} => StrictlySerializable
=============================================================================

----------------------------- MODULE StmDistrib -----------------------------
(***************************************************************************)
(* The distributed STM of src/Implementation/stm/stm-distrib.c.            *)
(*                                                                         *)
(* Every processor p runs one thread of client code on whose behalf (as    *)
(* src_proc) transactions execute.  The code of p runs on node site[p]:    *)
(* its own node, or the node an stm_on call has taken it to.  Data words   *)
(* are grouped into blocks of ShareSize words; each block lives on one     *)
(* node, which guards its metadata word with meta_lock.  One step below is *)
(* one critical section of meta_lock, one word moved by a memcpy, or one   *)
(* piece of client code or protocol control between them.                  *)
(*                                                                         *)
(* A source processor blocks on every request it sends (GASNET_BLOCKUNTIL) *)
(* so "request in flight" and "handler not yet run" are the same state and *)
(* no message queue is kept: pc[src] says which handler is due, and the    *)
(* finish, acquire and validate requests that go to several nodes at once  *)
(* are a set of entries the nodes process in any order.                    *)
(*                                                                         *)
(* The three BOOLEAN constants are the -D flags of the stm Makefile.       *)
(***************************************************************************)
EXTENDS Integers, FiniteSets

CONSTANTS
  READ_VERSIONING,  \* reads are validated by version, not locked
  WRITE_BUFFERING,  \* writes go to wb_data and reach memory at commit
  LATE_ACQUIRE,     \* write locks are taken at commit
  NumProcs,         \* grt_num_procs
  Client,           \* the processors that run transactions
  Word,             \* the shared data words, as word addresses
  ShareSize,        \* STM_SHARE_SIZE, words per metadata word
  NodeOf,           \* the node each block of words lives on
  Extent,           \* the address ranges one stm_get or stm_put covers
  Val, InitVal,     \* values of a data word, and the value at the start
  NoVal,            \* marks a word that a transaction has not touched
  WordMod,          \* 2^w for the w-bit metadata word
  OnNode,           \* the nodes client code moves to with stm_on
  NestedRemote,     \* may stm_on code touch a third node (see Reachable)
  MaxDepth,         \* bound on transaction nesting
  MaxOps            \* bound on stm_get/stm_put per attempt of a transaction

Proc  == 0 .. NumProcs - 1
BlockOf(w) == w \div ShareSize
Block == { BlockOf(w) : w \in Word }

ASSUME BuildAssumption ==
  /\ READ_VERSIONING \in BOOLEAN
  /\ WRITE_BUFFERING \in BOOLEAN
  /\ LATE_ACQUIRE \in BOOLEAN
  /\ LATE_ACQUIRE => WRITE_BUFFERING /\ ~READ_VERSIONING

ASSUME SystemAssumption ==
  /\ NumProcs \in Nat \ {0}
  /\ Client \subseteq Proc
  /\ ShareSize \in Nat \ {0}
  /\ Word \subseteq Nat
  /\ NodeOf \in [Block -> Proc]
  /\ Extent \subseteq SUBSET Word
  /\ InitVal \in Val
  /\ NoVal \notin Val
  /\ WordMod \in Nat
  /\ WordMod % 2 = 0
  /\ WordMod > 2 * NumProcs + 2
  /\ OnNode \subseteq Proc
  /\ NestedRemote \in BOOLEAN
  /\ MaxDepth \in Nat \ {0}
  /\ MaxOps \in Nat

(* A range is contiguous and on one node.  With write buffering a range of *)
(* several blocks starts at a block boundary, the only case in which       *)
(* memcpy_wb moves each word to its own place.                             *)
ASSUME ExtentAssumption ==
  \A x \in Extent :
    /\ x # {}
    /\ \A v, w \in x : /\ NodeOf[BlockOf(v)] = NodeOf[BlockOf(w)]
                       /\ v .. w \subseteq x
    /\ \/ ~WRITE_BUFFERING
       \/ \A v, w \in x : BlockOf(v) = BlockOf(w)
       \/ \E v \in x : v % ShareSize = 0 /\ \A w \in x : v <= w

-----------------------------------------------------------------------------
(* Metadata words.  The low-order bit is the write bit; the rest is the id *)
(* of the writer, the number of readers, or (READ_VERSIONING) a version.   *)

test_write_bit(m)  == m % 2 = 1
set_write_bit(m)   == IF test_write_bit(m) THEN m ELSE m + 1
clear_write_bit(m) == IF test_write_bit(m) THEN m - 1 ELSE m
inc_readers(m)     == IF m + 2 >= WordMod THEN m + 2 - WordMod ELSE m + 2
dec_readers(m)     == IF m < 2 THEN m + WordMod - 2 ELSE m - 2

MetaWord  == 0 .. WordMod - 1

-----------------------------------------------------------------------------
VARIABLES
  meta,          \* the metadata word of each block
  mem,           \* the data words
  tx_depth,      \* tx_depth[n][p]: field of tx_dors[p] on node n
  tx_proc,       \* tx_proc[n][p]: the node that started the transaction
  remote_procs,  \* remote_procs[n][p]: nodes to finish on
  dataset,       \* dataset[p][b]: the entry for b in tx_dors[p] on b's node
  saved,         \* saved[p][w]: word w of that entry's wb_data or undo_data
  pc,            \* where the thread of p is
  site,          \* the node the client code of p is running on
  op,            \* the stm_get or stm_put p has under way
  status,        \* COMMIT or ABORT, during stm_finish
  todo,          \* entries the acquire or validate loops have still to visit
  rset,          \* client's view: the values its transaction has read ...
  wset,          \* ... and the values it has written
  nops           \* accesses made by this attempt (bounded by MaxOps)

shared   == <<meta, mem>>
dorVars  == <<tx_depth, tx_proc, remote_procs>>
logVars  == <<dataset, saved>>
viewVars == <<rset, wset>>
vars == <<meta, mem, tx_depth, tx_proc, remote_procs, dataset, saved,
          pc, site, op, status, todo, rset, wset, nops>>

Entry == [type : {"NONE", "READ", "WRITE"}, old_version : MetaWord,
          promoted : BOOLEAN, acquired : BOOLEAN]
NoEntry == [type |-> "NONE", old_version |-> 0,
            promoted |-> FALSE, acquired |-> FALSE]

Op == [kind : {"NONE", "GET"}, opening : SUBSET Block,
       copying : SUBSET Word, val : {NoVal}]
      \cup [kind : {"PUT"}, opening : SUBSET Block,
            copying : SUBSET Word, val : Val]
NoOp == [kind |-> "NONE", opening |-> {}, copying |-> {}, val |-> NoVal]

PC == {"run", "open", "copy", "failed", "acquire_local", "acquire_remote",
       "validate_local", "validate_remote", "finish_local", "finish_remote"}

TypeOK ==
  /\ meta \in [Block -> MetaWord]
  /\ mem \in [Word -> Val]
  /\ tx_depth \in [Proc -> [Proc -> 0 .. MaxDepth]]
  /\ tx_proc \in [Proc -> [Proc -> Proc]]
  /\ remote_procs \in [Proc -> [Proc -> SUBSET Proc]]
  /\ dataset \in [Proc -> [Block -> Entry]]
  /\ saved \in [Proc -> [Word -> Val]]
  /\ pc \in [Proc -> PC]
  /\ site \in [Proc -> Proc]
  /\ op \in [Proc -> Op]
  /\ status \in [Proc -> {"COMMIT", "ABORT"}]
  /\ todo \in [Proc -> SUBSET Block]
  /\ rset \in [Proc -> [Word -> Val \cup {NoVal}]]
  /\ wset \in [Proc -> [Word -> Val \cup {NoVal}]]
  /\ nops \in [Proc -> 0 .. MaxOps]

Untouched == [w \in Word |-> NoVal]

Init ==
  /\ meta = [b \in Block |-> 0]
  /\ mem = [w \in Word |-> InitVal]
  /\ tx_depth = [n \in Proc |-> [p \in Proc |-> 0]]
  /\ tx_proc = [n \in Proc |-> [p \in Proc |-> 0]]
  /\ remote_procs = [n \in Proc |-> [p \in Proc |-> {}]]
  /\ dataset = [p \in Proc |-> [b \in Block |-> NoEntry]]
  /\ saved = [p \in Proc |-> [w \in Word |-> InitVal]]
  /\ pc = [p \in Proc |-> "run"]
  /\ site = [p \in Proc |-> p]
  /\ op = [p \in Proc |-> NoOp]
  /\ status = [p \in Proc |-> "COMMIT"]
  /\ todo = [p \in Proc |-> {}]
  /\ rset = [p \in Proc |-> Untouched]
  /\ wset = [p \in Proc |-> Untouched]
  /\ nops = [p \in Proc |-> 0]

-----------------------------------------------------------------------------
(* Client code: starting, nesting and moving a transaction.                *)

Depth(p) == tx_depth[site[p]][p]
TxProc(p) == tx_proc[site[p]][p]
RemoteProcs(p) == remote_procs[site[p]][p]

stm_start(p) ==
  /\ pc[p] = "run"
  /\ Depth(p) < MaxDepth
  /\ tx_depth' = [tx_depth EXCEPT ![site[p]][p] = @ + 1]
  /\ tx_proc' = IF Depth(p) = 0
                THEN [tx_proc EXCEPT ![site[p]][p] = site[p]]
                ELSE tx_proc
  /\ nops' = IF Depth(p) = 0 THEN [nops EXCEPT ![p] = 0] ELSE nops
  /\ UNCHANGED <<shared, remote_procs, logVars, pc, site, op, status, todo,
                 viewVars>>

(* Mutated form of stm_on: the node called is not recorded for the finish. *)
stm_on_unrecorded(p, q) ==
  /\ pc[p] = "run" /\ site[p] = p /\ q # p
  /\ tx_depth' = [tx_depth EXCEPT ![q][p] = tx_depth[p][p]]
  /\ tx_proc' = [tx_proc EXCEPT ![q][p] = tx_proc[p][p]]
  /\ site' = [site EXCEPT ![p] = q]
  /\ UNCHANGED <<shared, remote_procs, logVars, pc, op, status, todo, viewVars, nops>>

(* The call takes p's code to node q; q's descriptor for p is given the    *)
(* caller's depth and transaction processor.                               *)
stm_on(p, q) ==
  /\ pc[p] = "run" /\ site[p] = p /\ q # p
  /\ tx_depth' = [tx_depth EXCEPT ![q][p] = tx_depth[p][p]]
  /\ tx_proc' = [tx_proc EXCEPT ![q][p] = tx_proc[p][p]]
  /\ remote_procs' = IF tx_depth[p][p] > 0
                     THEN [remote_procs EXCEPT ![p][p] = @ \cup {q}]
                     ELSE remote_procs
  /\ site' = [site EXCEPT ![p] = q]
  /\ UNCHANGED <<shared, logVars, pc, op, status, todo, viewVars, nops>>

(* local_fn has returned (every transaction it started is closed) and the  *)
(* SUCCEED reply resumes the caller.                                       *)
stm_on_reply(p) ==
  /\ pc[p] = "run" /\ site[p] # p
  /\ Depth(p) = tx_depth[p][p]
  /\ site' = [site EXCEPT ![p] = p]
  /\ UNCHANGED <<shared, dorVars, logVars, pc, op, status, todo, viewVars, nops>>

(* The nodes client code may access from where it runs.  A node reached    *)
(* from stm_on code inside a transaction is recorded only in the           *)
(* descriptor on that stm_on's node; NestedRemote admits those accesses.   *)
Reachable(p) ==
  IF NestedRemote \/ TxProc(p) = site[p] THEN Proc ELSE {site[p], TxProc(p)}

(* Mutated form of Access: only the first node is recorded.                *)
Access_one(p, x, kind, v) ==
  LET n == NodeOf[BlockOf(CHOOSE w \in x : TRUE)] IN
  /\ pc[p] = "run" /\ Depth(p) > 0 /\ nops[p] < MaxOps
  /\ n \in Reachable(p)
  /\ remote_procs' = IF n # site[p] /\ remote_procs[site[p]][p] = {}
                     THEN [remote_procs EXCEPT ![site[p]][p] = {n}]
                     ELSE remote_procs
  /\ op' = [op EXCEPT ![p] = [kind |-> kind, copying |-> x, val |-> v,
                              opening |-> { BlockOf(w) : w \in x }]]
  /\ pc' = [pc EXCEPT ![p] = "open"]
  /\ nops' = [nops EXCEPT ![p] = @ + 1]
  /\ UNCHANGED <<shared, tx_depth, tx_proc, logVars, site, status, todo, viewVars>>

Access(p, x, kind, v) ==
  LET n == NodeOf[BlockOf(CHOOSE w \in x : TRUE)] IN
  /\ pc[p] = "run" /\ Depth(p) > 0 /\ nops[p] < MaxOps
  /\ n \in Reachable(p)
  /\ remote_procs' = IF n # site[p]
                     THEN [remote_procs EXCEPT ![site[p]][p] = @ \cup {n}]
                     ELSE remote_procs
  /\ op' = [op EXCEPT ![p] = [kind |-> kind, copying |-> x, val |-> v,
                              opening |-> { BlockOf(w) : w \in x }]]
  /\ pc' = [pc EXCEPT ![p] = "open"]
  /\ nops' = [nops EXCEPT ![p] = @ + 1]
  /\ UNCHANGED <<shared, tx_depth, tx_proc, logVars, site, status, todo, viewVars>>

stm_get(p, x)    == Access(p, x, "GET", NoVal)
stm_put(p, x, v) == Access(p, x, "PUT", v)

-----------------------------------------------------------------------------
(* open_local: the blocks of the range are opened in address order, each   *)
(* in one critical section of meta_lock, until one FAILs.                  *)

Opening(p, b) ==
  /\ pc[p] = "open"
  /\ b \in op[p].opening
  /\ \A c \in op[p].opening : b <= c

(* Mutated form of Opened: only the first block of a range is opened, as   *)
(* if open_local stopped at nbytes and not at nbytes + difference.         *)
Opened_first(p, b) ==
  /\ op' = [op EXCEPT ![p].opening = {}]
  /\ pc' = [pc EXCEPT ![p] = "copy"]

Opened(p, b) ==
  LET rest == op[p].opening \ {b} IN
  /\ op' = [op EXCEPT ![p].opening = rest]
  /\ pc' = [pc EXCEPT ![p] = IF rest = {} THEN "copy" ELSE "open"]

FailOpen(p) ==
  /\ op' = [op EXCEPT ![p] = NoOp]
  /\ pc' = [pc EXCEPT ![p] = "failed"]

(* Already in the data set, for writing if this is a write.                *)
Held(p, b) ==
  \/ dataset[p][b].type = "WRITE"
  \/ dataset[p][b].type = "READ" /\ op[p].kind = "GET"

open_held(p, b) ==
  /\ Opening(p, b) /\ Held(p, b)
  /\ Opened(p, b)
  /\ UNCHANGED <<shared, dorVars, logVars, site, status, todo, viewVars, nops>>

open_read(p, b) ==
  /\ Opening(p, b) /\ ~Held(p, b) /\ op[p].kind = "GET"
  /\ \/ /\ ~test_write_bit(meta[b])
        /\ dataset' = [dataset EXCEPT ![p][b] =
             [NoEntry EXCEPT !.type = "READ",
                 !.old_version = IF READ_VERSIONING THEN meta[b] ELSE 0]]
        /\ meta' = IF READ_VERSIONING THEN meta
                   ELSE [meta EXCEPT ![b] = inc_readers(@)]
        /\ Opened(p, b)
     \/ /\ test_write_bit(meta[b])
        /\ FailOpen(p)
        /\ UNCHANGED <<meta, dataset>>
  /\ UNCHANGED <<mem, dorVars, saved, site, status, todo, viewVars, nops>>

(* Mutated form of WriteGrantable: a reader may never become the writer.   *)
WriteGrantable_noUpgrade(p, b) == meta[b] = 0

WriteGrantable(p, b) ==
  LET m == meta[b]
      reading == dataset[p][b].type = "READ" IN
  IF LATE_ACQUIRE THEN ~test_write_bit(m)
  ELSE IF READ_VERSIONING
       THEN ~test_write_bit(m) /\ (reading => m = dataset[p][b].old_version)
       ELSE m = 0 \/ (m = 2 /\ reading)

open_write(p, b) ==
  LET e == IF LATE_ACQUIRE /\ dataset[p][b].type = "READ"
           THEN [dataset[p][b] EXCEPT !.promoted = TRUE] ELSE dataset[p][b] IN
  /\ Opening(p, b) /\ ~Held(p, b) /\ op[p].kind = "PUT"
  /\ \/ /\ WriteGrantable(p, b)
        /\ dataset' = [dataset EXCEPT ![p][b] = [e EXCEPT !.type = "WRITE"]]
        /\ saved' = [saved EXCEPT ![p] =
             [w \in Word |-> IF BlockOf(w) = b THEN mem[w] ELSE @[w]]]
        /\ meta' = IF LATE_ACQUIRE THEN meta
                   ELSE [meta EXCEPT ![b] = IF READ_VERSIONING
                                            THEN set_write_bit(@)
                                            ELSE set_write_bit(2 * p)]
        /\ Opened(p, b)
     \/ /\ ~WriteGrantable(p, b)
        /\ dataset' = [dataset EXCEPT ![p][b] = e]
        /\ FailOpen(p)
        /\ UNCHANGED <<meta, saved>>
  /\ UNCHANGED <<mem, dorVars, site, status, todo, viewVars, nops>>

-----------------------------------------------------------------------------
(* The copy between the client's buffer and the transactional store, word  *)
(* by word and outside meta_lock.                                          *)

(* Mutated form of Visible: reads go to memory, past wb_data.              *)
Visible_memory(p, w) == mem[w]

(* What a read of w on behalf of p finds: its own buffered write, or memory. *)
Visible(p, w) ==
  IF WRITE_BUFFERING /\ dataset[p][BlockOf(w)].type = "WRITE"
  THEN saved[p][w] ELSE mem[w]

Copied(p, w) ==
  LET rest == op[p].copying \ {w} IN
  /\ op' = [op EXCEPT ![p] = IF rest = {} THEN NoOp ELSE [@ EXCEPT !.copying = rest]]
  /\ pc' = [pc EXCEPT ![p] = IF rest = {} THEN "run" ELSE "copy"]

copy_get(p, w) ==
  /\ pc[p] = "copy" /\ op[p].kind = "GET" /\ w \in op[p].copying
  /\ rset' = IF wset[p][w] = NoVal
             THEN [rset EXCEPT ![p][w] = Visible(p, w)] ELSE rset
  /\ Copied(p, w)
  /\ UNCHANGED <<shared, dorVars, logVars, site, status, todo, wset, nops>>

copy_put(p, w) ==
  /\ pc[p] = "copy" /\ op[p].kind = "PUT" /\ w \in op[p].copying
  /\ IF WRITE_BUFFERING
     THEN saved' = [saved EXCEPT ![p][w] = op[p].val] /\ UNCHANGED mem
     ELSE mem' = [mem EXCEPT ![w] = op[p].val] /\ UNCHANGED saved
  /\ wset' = [wset EXCEPT ![p][w] = op[p].val]
  /\ Copied(p, w)
  /\ UNCHANGED <<meta, dorVars, dataset, site, status, todo, rset, nops>>

-----------------------------------------------------------------------------
(* Ending a transaction: stm_commit, stm_finish and the rounds of          *)
(* stm_finish_home.  Nodes works on their own entries; Here is the node    *)
(* stm_finish_home runs on and Remotes the nodes it sends requests to.     *)

EntriesAt(p, types, nodes) ==
  { b \in Block : dataset[p][b].type \in types /\ NodeOf[b] \in nodes }

BeginFinish(p, s) ==
  /\ pc' = [pc EXCEPT ![p] = "finish_local"]
  /\ status' = [status EXCEPT ![p] = s]
  /\ todo' = [todo EXCEPT ![p] = {}]
  /\ rset' = [rset EXCEPT ![p] = Untouched]
  /\ wset' = [wset EXCEPT ![p] = Untouched]

BeginRound(p, round, types, nodes) ==
  /\ pc' = [pc EXCEPT ![p] = round]
  /\ todo' = [todo EXCEPT ![p] = EntriesAt(p, types, nodes)]
  /\ UNCHANGED <<status, viewVars>>

(* Mutated form of stm_commit: an inner commit finishes the transaction.   *)
stm_commit_inner(p) ==
  /\ pc[p] = "run"
  /\ Depth(p) > IF site[p] = p THEN 0 ELSE tx_depth[p][p]
  /\ tx_depth' = [tx_depth EXCEPT ![site[p]][p] = @ - 1]
  /\ BeginFinish(p, "COMMIT")
  /\ UNCHANGED <<shared, tx_proc, remote_procs, logVars, site, op, nops>>

(* Client code closes only the transactions it opened on this node.        *)
stm_commit(p) ==
  /\ pc[p] = "run"
  /\ Depth(p) > IF site[p] = p THEN 0 ELSE tx_depth[p][p]
  /\ tx_depth' = [tx_depth EXCEPT ![site[p]][p] = @ - 1]
  /\ IF Depth(p) > 1
     THEN UNCHANGED <<pc, status, todo, viewVars>>
     ELSE CASE LATE_ACQUIRE    -> BeginRound(p, "acquire_local", {"WRITE"}, {site[p]})
            [] READ_VERSIONING -> BeginRound(p, "validate_local", {"READ"}, {site[p]})
            [] OTHER           -> BeginFinish(p, "COMMIT")
  /\ UNCHANGED <<shared, tx_proc, remote_procs, logVars, site, op, nops>>

(* stm_finish(ABORT) after a FAILed open.  Off the transaction's processor *)
(* it only jumps back into the stm_on handler, whose FAIL reply makes the  *)
(* caller abort in its turn.                                               *)
stm_abort(p) ==
  /\ pc[p] = "failed"
  /\ IF TxProc(p) = site[p]
     THEN BeginFinish(p, "ABORT") /\ UNCHANGED site
     ELSE /\ site' = [site EXCEPT ![p] = p]
          /\ UNCHANGED <<pc, status, todo, viewVars>>
  /\ UNCHANGED <<shared, dorVars, logVars, op, nops>>

(* A conflict ends the loop of the node that met it.                       *)
Conflict(p, b) ==
  /\ status' = [status EXCEPT ![p] = "ABORT"]
  /\ todo' = [todo EXCEPT ![p] = { c \in @ : NodeOf[c] # NodeOf[b] }]

(* Mutated form of Acquirable: readers are not looked at.                  *)
Acquirable_readers(p, b) == ~test_write_bit(meta[b])

Acquirable(p, b) == meta[b] = 0 \/ (meta[b] = 2 /\ dataset[p][b].promoted)

(* Mutated form of stm_acquire_entry: it waits until the block is free.    *)
stm_acquire_entry_spin(p, b) ==
  /\ pc[p] \in {"acquire_local", "acquire_remote"} /\ b \in todo[p]
  /\ Acquirable(p, b)
  /\ meta' = [meta EXCEPT ![b] = set_write_bit(@)]
  /\ dataset' = [dataset EXCEPT ![p][b].acquired = TRUE]
  /\ todo' = [todo EXCEPT ![p] = @ \ {b}]
  /\ UNCHANGED <<mem, dorVars, saved, pc, site, op, status, viewVars, nops>>

stm_acquire_entry(p, b) ==
  /\ pc[p] \in {"acquire_local", "acquire_remote"} /\ b \in todo[p]
  /\ \/ /\ Acquirable(p, b)
        /\ meta' = [meta EXCEPT ![b] = set_write_bit(@)]
        /\ dataset' = [dataset EXCEPT ![p][b].acquired = TRUE]
        /\ todo' = [todo EXCEPT ![p] = @ \ {b}]
        /\ UNCHANGED status
     \/ /\ ~Acquirable(p, b)
        /\ Conflict(p, b)
        /\ UNCHANGED <<meta, dataset>>
  /\ UNCHANGED <<mem, dorVars, saved, pc, site, op, viewVars, nops>>

stm_validate_entry(p, b) ==
  /\ pc[p] \in {"validate_local", "validate_remote"} /\ b \in todo[p]
  /\ IF meta[b] = dataset[p][b].old_version
     THEN todo' = [todo EXCEPT ![p] = @ \ {b}] /\ UNCHANGED status
     ELSE Conflict(p, b)
  /\ UNCHANGED <<shared, dorVars, logVars, pc, site, op, viewVars, nops>>

(* The local loop is over: return on ABORT, else ask the remote nodes;     *)
(* when all of those have replied, finish with the status they left.       *)
stm_acquire(p) ==
  /\ pc[p] \in {"acquire_local", "acquire_remote"} /\ todo[p] = {}
  /\ IF pc[p] = "acquire_local" /\ status[p] = "COMMIT"
     THEN BeginRound(p, "acquire_remote", {"WRITE"}, RemoteProcs(p))
     ELSE BeginFinish(p, status[p])
  /\ UNCHANGED <<shared, dorVars, logVars, site, op, nops>>

stm_validate(p) ==
  /\ pc[p] \in {"validate_local", "validate_remote"} /\ todo[p] = {}
  /\ IF pc[p] = "validate_local" /\ status[p] = "COMMIT"
     THEN BeginRound(p, "validate_remote", {"READ"}, RemoteProcs(p))
     ELSE BeginFinish(p, status[p])
  /\ UNCHANGED <<shared, dorVars, logVars, site, op, nops>>

Finishing(p) ==
  CASE pc[p] = "finish_local"  -> {site[p]}
    [] pc[p] = "finish_remote" -> RemoteProcs(p)
    [] OTHER                   -> {}

(* Mutated forms of Released: a read lock, a read lock promoted but not    *)
(* acquired, or the write bit of an aborted writer stays behind.           *)
Released_keepRead(e, m, s) == IF e.type = "READ" THEN m ELSE 0
Released_keepPromoted(e, m, s) ==
  IF e.type = "READ" THEN dec_readers(m) ELSE IF e.acquired THEN 0 ELSE m
Released_keepBit(e, m, s) ==
  IF e.type = "READ" THEN dec_readers(m)
  ELSE IF s = "COMMIT" THEN inc_readers(clear_write_bit(m)) ELSE m

(* The metadata word stm_finish_local leaves for the entry e of a block.   *)
Released(e, m, s) ==
  IF e.type = "READ" THEN dec_readers(m)
  ELSE IF READ_VERSIONING
       THEN IF s = "COMMIT" THEN inc_readers(clear_write_bit(m))
                            ELSE clear_write_bit(m)
       ELSE IF LATE_ACQUIRE /\ ~e.acquired
            THEN IF e.promoted THEN dec_readers(m) ELSE m
            ELSE 0

(* Mutated form of stm_finish_entry: memory is not written back.           *)
stm_finish_entry_lost(p, b) ==
  /\ b \in EntriesAt(p, {"READ", "WRITE"}, Finishing(p))
  /\ meta' = [meta EXCEPT ![b] = Released(dataset[p][b], @, status[p])]
  /\ dataset' = [dataset EXCEPT ![p][b] = NoEntry]
  /\ UNCHANGED <<mem, saved, dorVars, pc, site, op, status, todo, viewVars, nops>>

(* One iteration of stm_finish_local, run directly or by                   *)
(* stm_finish_handler.  The entry leaves the data set here: nothing looks  *)
(* at it between this and the hashmap_clear at the end of the loop.        *)
stm_finish_entry(p, b) ==
  LET e == dataset[p][b]
      writeBack == e.type = "WRITE" /\ status[p] = (IF WRITE_BUFFERING
                                                    THEN "COMMIT" ELSE "ABORT") IN
  /\ b \in EntriesAt(p, {"READ", "WRITE"}, Finishing(p))
  /\ mem' = IF writeBack
            THEN [w \in Word |-> IF BlockOf(w) = b THEN saved[p][w] ELSE mem[w]]
            ELSE mem
  /\ meta' = [meta EXCEPT ![b] = Released(e, @, status[p])]
  /\ dataset' = [dataset EXCEPT ![p][b] = NoEntry]
  /\ saved' = [saved EXCEPT ![p] =
       [w \in Word |-> IF BlockOf(w) = b THEN InitVal ELSE @[w]]]
  /\ UNCHANGED <<dorVars, pc, site, op, status, todo, viewVars, nops>>

(* Mutated form of stm_finish_home: the longjmp counts the retried         *)
(* transaction once more.                                                  *)
stm_finish_home_depth(p) ==
  /\ pc[p] \in {"finish_local", "finish_remote"}
  /\ EntriesAt(p, {"READ", "WRITE"}, Finishing(p)) = {}
  /\ IF pc[p] = "finish_local"
     THEN /\ pc' = [pc EXCEPT ![p] = "finish_remote"]
          /\ UNCHANGED <<tx_depth, remote_procs, status, nops>>
     ELSE /\ pc' = [pc EXCEPT ![p] = "run"]
          /\ remote_procs' = [remote_procs EXCEPT ![site[p]][p] = {}]
          /\ tx_depth' = IF status[p] = "ABORT"
                         THEN [tx_depth EXCEPT ![site[p]][p] = @ + 1] ELSE tx_depth
          /\ nops' = [nops EXCEPT ![p] = 0]
          /\ status' = [status EXCEPT ![p] = "COMMIT"]
  /\ UNCHANGED <<shared, tx_proc, logVars, site, op, todo, viewVars>>

(* The finish requests go out after the local finish; once all are         *)
(* answered remote_procs is cleared and an ABORT jumps back to stm_start.  *)
stm_finish_home(p) ==
  /\ pc[p] \in {"finish_local", "finish_remote"}
  /\ EntriesAt(p, {"READ", "WRITE"}, Finishing(p)) = {}
  /\ IF pc[p] = "finish_local"
     THEN /\ pc' = [pc EXCEPT ![p] = "finish_remote"]
          /\ UNCHANGED <<tx_depth, remote_procs, status, nops>>
     ELSE /\ pc' = [pc EXCEPT ![p] = "run"]
          /\ remote_procs' = [remote_procs EXCEPT ![site[p]][p] = {}]
          /\ tx_depth' = IF status[p] = "ABORT"
                         THEN [tx_depth EXCEPT ![site[p]][p] = 1] ELSE tx_depth
          /\ nops' = [nops EXCEPT ![p] = 0]
          /\ status' = [status EXCEPT ![p] = "COMMIT"]
  /\ UNCHANGED <<shared, tx_proc, logVars, site, op, todo, viewVars>>

-----------------------------------------------------------------------------
ClientStep(p) ==
  \/ stm_start(p)
  \/ \E q \in OnNode : stm_on(p, q)
  \/ stm_on_reply(p)
  \/ \E x \in Extent : stm_get(p, x)
  \/ \E x \in Extent, v \in Val : stm_put(p, x, v)
  \/ stm_commit(p)

StmStep(p) ==
  \/ \E b \in Block : open_held(p, b) \/ open_read(p, b) \/ open_write(p, b)
  \/ \E w \in Word : copy_get(p, w) \/ copy_put(p, w)
  \/ stm_abort(p)
  \/ \E b \in Block : \/ stm_acquire_entry(p, b)
                      \/ stm_validate_entry(p, b)
                      \/ stm_finish_entry(p, b)
  \/ stm_acquire(p) \/ stm_validate(p)
  \/ stm_finish_home(p)

Next == \E p \in Client : ClientStep(p) \/ StmStep(p)

Spec == Init /\ [][Next]_vars

(* Library code and handlers keep running; client code may stop anywhere.  *)
FairSpec == Spec /\ \A p \in Client : WF_vars(StmStep(p))
=============================================================================

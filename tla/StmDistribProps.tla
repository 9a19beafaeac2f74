-------------------------- MODULE StmDistribProps --------------------------
(***************************************************************************)
(* What the distributed STM must guarantee, stated over StmDistrib.        *)
(***************************************************************************)
EXTENDS StmDistrib

(* The entry e means that its owner is counted as a reader in the metadata *)
(* word of the block; that its owner has the write bit.                    *)
ReadLocks(e) ==
  /\ ~READ_VERSIONING
  /\ \/ e.type = "READ"
     \/ LATE_ACQUIRE /\ e.type = "WRITE" /\ e.promoted /\ ~e.acquired

WriteLocks(e) == e.type = "WRITE" /\ (LATE_ACQUIRE => e.acquired)

Readers(b) == { p \in Proc : ReadLocks(dataset[p][b]) }
Writers(b) == { p \in Proc : WriteLocks(dataset[p][b]) }

(* At most one transaction has the write bit of a block, and no reader is  *)
(* counted while it does (open_read, open_write, stm_acquire_local).       *)
Exclusive(R, W) ==
  /\ \A p, q \in W : p = q
  /\ W # {} => R = {}

WriteExclusion == \A b \in Block : Exclusive(Readers(b), Writers(b))

(* The metadata word m says exactly what the data sets of all transactions *)
(* say: twice the number of readers, or the write bit (with the writer's   *)
(* id, except where a late acquire sets the bit on 0 or on its own read    *)
(* lock; with READ_VERSIONING the rest of the word is the version).        *)
Describes(m, R, W) ==
  /\ test_write_bit(m) <=> W # {}
  /\ ~READ_VERSIONING /\ W = {} => m = 2 * Cardinality(R)
  /\ ~READ_VERSIONING /\ ~LATE_ACQUIRE => \A p \in W : m = 2 * p + 1
  /\ LATE_ACQUIRE => \A p \in W : m \in {1, 3}

(* Every metadata word describes the locks of its block.  This is what     *)
(* makes the unconditional stores and decrements of stm_finish_local       *)
(* release p's own locks and nobody else's.                                *)
LockExact == \A b \in Block : Describes(meta[b], Readers(b), Writers(b))

(* What keeps them so: a late acquire works only on write entries, and an  *)
(* entry is marked acquired or promoted only while it is in the data set,  *)
(* so that no mark is left for the next transaction to release a lock by.  *)
LockInv ==
  /\ LockExact /\ WriteExclusion
  /\ \A p \in Proc, b \in Block :
       /\ dataset[p][b].acquired => dataset[p][b].type = "WRITE"
       /\ dataset[p][b].promoted => dataset[p][b].type # "NONE"
  /\ \A p \in Proc : pc[p] \in {"acquire_local", "acquire_remote"} =>
       LATE_ACQUIRE /\ \A b \in todo[p] : dataset[p][b].type = "WRITE"

-----------------------------------------------------------------------------
(* The transaction of p is live from stm_start until its outcome is        *)
(* decided, that is until stm_finish_local starts.                         *)
Live(p) ==
  /\ pc[p] \notin {"finish_local", "finish_remote"}
  /\ \/ Depth(p) > 0
     \/ pc[p] \notin {"run", "open", "copy", "failed"}

Committing(p) ==
  pc[p] \in {"finish_local", "finish_remote"} /\ status[p] = "COMMIT"

(* The committed value of each word: memory, except that a committing      *)
(* transaction's write buffer counts already (WRITE_BUFFERING), and a      *)
(* transaction that is not committing still owes memory its undo data.     *)
Pending(w) ==
  { p \in Proc : /\ dataset[p][BlockOf(w)].type = "WRITE"
                 /\ Committing(p) <=> WRITE_BUFFERING }

Store == [w \in Word |-> IF Pending(w) = {} THEN mem[w]
                         ELSE saved[CHOOSE p \in Pending(w) : TRUE][w]]

LiveSet == { p \in Proc : Live(p) }

(* Whatever a live transaction has read is still the committed value: no   *)
(* transaction ever computes on an inconsistent snapshot, and one that     *)
(* reaches its commit point may commit.                                    *)
ReadsCurrent ==
  \A p \in LiveSet, w \in Word : rset[p][w] \in {NoVal, Store[w]}

(* A transaction sees its own writes, whichever of memory and wb_data they *)
(* are in, on whichever node.                                              *)
ReadYourWrites ==
  \A p \in LiveSet, w \in Word : wset[p][w] \in {NoVal, Visible(p, w)}

(* A processor outside transactions has no entry left on any node: the     *)
(* finish requests have reached every node the transaction touched.        *)
NothingLeftBehind ==
  \A p \in Proc : ~Live(p) /\ pc[p] = "run" =>
    \A b \in Block : dataset[p][b] = NoEntry

(* A lock is held until the outcome of the outermost transaction is known, *)
(* on whichever node it was taken and however deep: an inner stm_commit    *)
(* releases nothing.                                                       *)
HeldToTheEnd ==
  [][\A p \in Proc, b \in Block :
       dataset[p][b].type # "NONE" /\ dataset'[p][b].type = "NONE" =>
         Depth(p) = 0 \/ status[p] = "ABORT"]_vars

(* An access or a late acquire fails only if another transaction has one   *)
(* of the blocks it still asks for in its data set: the STM never aborts a *)
(* transaction on its own, a reader that writes in particular.             *)
OnlyConflictsAbort ==
  [][\A p \in Proc :
       LET Contended(b) == \E q \in Proc \ {p} : dataset[q][b].type # "NONE" IN
       /\ pc[p] = "open" /\ pc'[p] = "failed" => \E b \in op[p].opening : Contended(b)
       /\ status[p] = "COMMIT" /\ status'[p] = "ABORT" /\ pc'[p] # "finish_local"
            => \E b \in todo[p] : Contended(b)]_vars

(* Committed transactions take effect one at a time and all at once, and   *)
(* aborted ones not at all: StmDistrib implements AtomicTM, with the       *)
(* commit point at the start of stm_finish_local.                          *)
Atomic == INSTANCE AtomicTM WITH store <- Store, live <- LiveSet
AtomicSpec == Atomic!Spec

(* Every call into the library returns: opens, copies, acquire, validate   *)
(* and finish rounds end, whatever the other processors do.                *)
CallsReturn == \A p \in Client : pc[p] # "run" ~> pc[p] = "run"
=============================================================================

--------------------------- MODULE GrtLockProofs ---------------------------
(***************************************************************************)
(* Theorems about GrtLock, for any number of processors and locks, and any *)
(* number of locks held at a time: the lock is a reader/writer lock, its   *)
(* books are exact, and nobody who waits is forgotten or told twice.       *)
(*                                                                         *)
(* The inductive invariant says of each lock what is in its queue (QueueOK) *)
(* and who holds it (HoldersOK), of each message that its receiver still   *)
(* waits for it (MessagesOK), and of each processor that one of these is   *)
(* about it while it waits (CallOK).                                       *)
(***************************************************************************)
EXTENDS GrtLock, FiniteSetTheorems, SequenceTheorems, TLAPS

Spins(p) == pc[p] = "waiting" /\ state[p] = "WAITING"
Granting(g, q) == pc[g] = "granting" /\ receiving[g] = q

(* An entry of the queue of l is of a processor that waits for l and has   *)
(* not been told anything.                                                 *)
EntryOK(w, l) ==
  /\ Spins(w.proc) /\ w.proc \notin replies
  /\ call[w.proc].lock = l /\ call[w.proc].type = w.type
  /\ \A g \in Proc : ~Granting(g, w.proc)

QueueOK(l) ==
  /\ \A i \in 1 .. Len(waiters[l]) : EntryOK(waiters[l][i], l)
  /\ \A i, j \in 1 .. Len(waiters[l]) :
       waiters[l][i].proc = waiters[l][j].proc => i = j
  /\ waiters[l] # <<>> => num_holders[l] # 0

HoldersOK(l) ==
  /\ num_holders[l] = Cardinality(Owners(l))
  /\ \A p \in Proc : Owns(p, l) => Mode(p, l) = type[l]
  /\ type[l] = "WRITE" => \A p, q \in Proc : Owns(p, l) /\ Owns(q, l) => p = q

MessagesOK ==
  /\ \A q \in replies : Spins(q) /\ \A g \in Proc : ~Granting(g, q)
  /\ \A g, q \in Proc : Granting(g, q) => Spins(q)
  /\ \A g, h, q \in Proc : Granting(g, q) /\ Granting(h, q) => g = h

CallOK(p) ==
  /\ pc[p] = "locking" => state[p] = "WAITING"
  /\ pc[p] \in {"locking", "waiting", "unlocking"} => holds[p][call[p].lock] = "NONE"
  /\ Spins(p) => \/ Queued(p, call[p].lock)
                 \/ p \in replies
                 \/ \E g \in Proc : Granting(g, p)

LocksOK == \A l \in Lock : QueueOK(l) /\ HoldersOK(l)
CallsOK == \A p \in Proc : CallOK(p)

IInv == TypeOK /\ LocksOK /\ MessagesOK /\ CallsOK

RWSteps == \A l \in Lock : UNCHANGED Holding(l) \/ RW(l)!Next

QueueSteps ==
  \A p \in Proc, l \in Lock :
    Owns(p, l)' /\ ~Owns(p, l) /\ call'[p].type = "WRITE" =>
      waiters[l] = <<>> \/ Head(waiters[l]).proc = p

(* What a step from a state where IInv holds has to show.                  *)
Kept == IInv' /\ RWSteps /\ QueueSteps

-----------------------------------------------------------------------------
(* Sets of processors                                                      *)

(* A set of owners is finite, and has as many elements as num_holders may  *)
(* say.                                                                    *)
LEMMA ProcSets ==
  ASSUME NEW S \in SUBSET Proc
  PROVE  IsFiniteSet(S) /\ Cardinality(S) \in 0 .. NumProcs
  <1>1. NumProcs \in Nat \ {0}
    BY LockAssumption
  <1>2. IsFiniteSet(Proc) /\ Cardinality(Proc) = NumProcs
    BY <1>1, FS_Interval DEF Proc
  <1>3. IsFiniteSet(S) /\ Cardinality(S) <= Cardinality(Proc)
    BY <1>2, FS_Subset
  <1>4. Cardinality(S) \in Nat
    BY <1>3, FS_CardinalityType
  <1> QED
    BY <1>1, <1>2, <1>3, <1>4

(* lock_local: one more holder.                                            *)
LEMMA OneMore ==
  ASSUME NEW S \in SUBSET Proc, NEW p \in Proc, p \notin S
  PROVE  Cardinality(S \cup {p}) = Cardinality(S) + 1
  BY ProcSets, FS_AddElement

(* unlock_local: one holder less.                                          *)
LEMMA OneLess ==
  ASSUME NEW S \in SUBSET Proc, NEW p \in S
  PROVE  Cardinality(S \ {p}) = Cardinality(S) - 1
  BY ProcSets, FS_RemoveElement

(* unlock_local: a holder replaced by a waiter.                            *)
LEMMA Swapped ==
  ASSUME NEW S \in SUBSET Proc, NEW p \in S, NEW q \in Proc, q \notin S
  PROVE  Cardinality((S \ {p}) \cup {q}) = Cardinality(S)
  <1>1. Cardinality((S \ {p}) \cup {q}) = Cardinality(S \ {p}) + 1
    BY OneMore
  <1>2. Cardinality(S \ {p}) = Cardinality(S) - 1
    BY OneLess
  <1> QED
    BY <1>1, <1>2, ProcSets

(* num_holders is 0 when nobody owns the lock.                             *)
LEMMA NoneLeft ==
  ASSUME NEW S \in SUBSET Proc
  PROVE  Cardinality(S) = 0 <=> S = {}
  BY ProcSets, FS_EmptySet

(* num_holders is 1 when one owns it.                                      *)
LEMMA OneLeft ==
  ASSUME NEW S \in SUBSET Proc, NEW p \in S, NEW q \in S, Cardinality(S) = 1
  PROVE  p = q
  <1>1. Cardinality(S \ {p}) = 0
    BY OneLess
  <1>2. S \ {p} = {}
    BY <1>1, NoneLeft
  <1> QED
    BY <1>2

-----------------------------------------------------------------------------
(* Steps that leave the owners of a lock as they are                       *)

SameOwners(l) ==
  \A p \in Proc :
    /\ Owns(p, l)' <=> Owns(p, l)
    /\ Owns(p, l) => Mode(p, l)' = Mode(p, l)

(* The books of a lock stay right when neither they nor the owners change. *)
LEMMA HoldersKept ==
  ASSUME NEW l \in Lock, HoldersOK(l), SameOwners(l),
         num_holders'[l] = num_holders[l], type'[l] = type[l]
  PROVE  HoldersOK(l)'
  <1>1. Owners(l)' = Owners(l)
    BY DEF Owners, SameOwners
  <1> QED
    BY <1>1 DEF HoldersOK, SameOwners

(* A step that changes no owner is a step of the abstract lock too, if it  *)
(* starts no release, and jumps no queue.                                  *)
LEMMA NobodyMoves ==
  ASSUME \A l \in Lock : SameOwners(l),
         \A p \in Proc, l \in Lock : Releases(p, l)' <=> Releases(p, l)
  PROVE  RWSteps /\ QueueSteps
  <1>1. ASSUME NEW l \in Lock PROVE UNCHANGED Holding(l)
    <2>1. \A p \in Proc : Held(l, p)' = Held(l, p)
      BY DEF Held, SameOwners
    <2> QED
      BY <2>1 DEF Holding
  <1>2. RWSteps
    BY <1>1 DEF RWSteps
  <1>3. QueueSteps
    BY DEF QueueSteps, SameOwners
  <1> QED
    BY <1>2, <1>3

(* Nothing is done about q, who spins.                                     *)
Undisturbed(q) ==
  /\ pc'[q] = pc[q] /\ state'[q] = state[q] /\ call'[q] = call[q]
  /\ q \in replies' => q \in replies
  /\ \A g \in Proc : Granting(g, q)' => Granting(g, q)

(* An entry stays right when nothing is done about its processor.          *)
LEMMA EntryKept ==
  ASSUME NEW l, NEW v, EntryOK(v, l), Undisturbed(v.proc)
  PROVE  EntryOK(v, l)'
  BY DEF EntryOK, Undisturbed, Spins

(* What there is to show of a queue that has changed.                      *)
LEMMA QueueBuilt ==
  ASSUME NEW l \in Lock,
         \A i \in 1 .. Len(waiters'[l]) : \A v : v = waiters'[l][i] => EntryOK(v, l)',
         \A i, j \in 1 .. Len(waiters'[l]) :
           waiters'[l][i].proc = waiters'[l][j].proc => i = j,
         waiters'[l] # <<>> => num_holders'[l] # 0
  PROVE  QueueOK(l)'
  <1>1. ASSUME NEW i \in 1 .. Len(waiters'[l])
        PROVE  EntryOK(waiters[l][i], l)'
    <2>1. PICK v : v = waiters'[l][i]
      OBVIOUS
    <2>2. EntryOK(v, l)'
      BY <2>1
    <2> QED
      BY <2>1, <2>2 DEF EntryOK, Spins, Granting
  <1> QED
    BY <1>1 DEF QueueOK

(* The queue of a lock stays right when it does not change and nothing is  *)
(* done about those who are in it.                                         *)
LEMMA QueueKept ==
  ASSUME NEW l \in Lock, QueueOK(l), waiters'[l] = waiters[l],
         num_holders'[l] = num_holders[l],
         \A i \in 1 .. Len(waiters[l]) : Undisturbed(waiters[l][i].proc)
  PROVE  QueueOK(l)'
  <1>1. \A i \in 1 .. Len(waiters[l]) : EntryOK(waiters[l][i], l)'
    BY DEF QueueOK, EntryOK, Undisturbed, Spins
  <1> QED
    BY <1>1 DEF QueueOK

(* Who owns a lock is not in its queue, and who is queued for one lock is  *)
(* in the queue of no other.                                               *)
LEMMA QueuedWaits ==
  ASSUME IInv, NEW p \in Proc, NEW l \in Lock, Queued(p, l)
  PROVE  /\ Spins(p) /\ p \notin replies /\ call[p].lock = l
         /\ \A g \in Proc : ~Granting(g, p)
         /\ holds[p][l] = "NONE" /\ ~Owns(p, l)
  <1>1. PICK i \in 1 .. Len(waiters[l]) : waiters[l][i].proc = p
    BY DEF Queued
  <1>2. EntryOK(waiters[l][i], l)
    BY DEF IInv, LocksOK, QueueOK
  <1>3. Spins(p) /\ p \notin replies /\ call[p].lock = l
        /\ \A g \in Proc : ~Granting(g, p)
    BY <1>1, <1>2 DEF EntryOK
  <1>4. holds[p][l] = "NONE"
    BY <1>3 DEF IInv, CallsOK, CallOK, Spins
  <1> QED
    BY <1>3, <1>4 DEF Owns, Spins

(* The processor of an entry is queued.                                    *)
LEMMA EntryQueued ==
  ASSUME IInv, NEW l \in Lock, NEW i \in 1 .. Len(waiters[l])
  PROVE  /\ waiters[l][i].proc \in Proc /\ waiters[l][i].type \in LockType
         /\ Queued(waiters[l][i].proc, l)
  <1>1. waiters[l] \in Seq([proc : Proc, type : LockType])
    BY DEF IInv, TypeOK
  <1>2. waiters[l][i] \in [proc : Proc, type : LockType]
    BY <1>1, ElementOfSeq
  <1> QED
    BY <1>2 DEF Queued

(* Queues that do not change hold whom they held.                          *)
LEMMA QueuedSame ==
  ASSUME NEW l \in Lock, waiters'[l] = waiters[l], NEW p \in Proc
  PROVE  Queued(p, l)' <=> Queued(p, l)
  BY DEF Queued

(* What TypeOK says of one processor's call.                               *)
LEMMA CallTyped ==
  ASSUME IInv, NEW p \in Proc
  PROVE  /\ call[p].lock \in Lock /\ call[p].type \in LockType
         /\ call[p] = [lock |-> call[p].lock, type |-> call[p].type]
  BY DEF IInv, TypeOK

-----------------------------------------------------------------------------
(* grt_lock and its end                                                    *)

(* A processor that asks for a lock was in no queue and owns nothing new.  *)
LEMMA LockAsked ==
  ASSUME IInv, NEW p \in Proc, NEW k \in Lock, NEW t \in LockType, grt_lock(p, k, t)
  PROVE  Kept
  <1> USE DEF grt_lock, lockVars
  <1>1. TypeOK'
    BY DEF IInv, TypeOK, PC
  <1>2. ASSUME NEW l \in Lock, NEW q \in Proc
        PROVE  /\ Owns(q, l)' <=> Owns(q, l)
               /\ Owns(q, l) => Mode(q, l)' = Mode(q, l)
               /\ Releases(q, l)' <=> Releases(q, l)
    <2>1. CASE q = p
      BY <2>1 DEF IInv, TypeOK, Owns, Mode, Releases
    <2>2. CASE q # p
      BY <2>2, QueuedSame DEF IInv, TypeOK, Owns, Mode, Releases
    <2> QED
      BY <2>1, <2>2
  <1>3. \A l \in Lock : SameOwners(l)
    BY <1>2 DEF SameOwners
  <1>4. \A g, q \in Proc : Granting(g, q)' <=> Granting(g, q)
    BY DEF IInv, TypeOK, Granting
  <1>5. \A q \in Proc : q # p => Undisturbed(q)
    BY <1>4 DEF IInv, TypeOK, Undisturbed
  <1>6. \A q \in Proc : Spins(q) => q # p
    BY DEF Spins
  <1>7. LocksOK'
    <2> SUFFICES ASSUME NEW l \in Lock PROVE QueueOK(l)' /\ HoldersOK(l)'
      BY DEF LocksOK
    <2>1. QueueOK(l) /\ HoldersOK(l)
      BY DEF IInv, LocksOK
    <2>2. \A i \in 1 .. Len(waiters[l]) : Undisturbed(waiters[l][i].proc)
      BY <1>5, <1>6, EntryQueued, QueuedWaits
    <2> QED
      BY <2>1, <2>2, <1>3, QueueKept, HoldersKept
  <1>8. \A q \in Proc : Spins(q)' <=> Spins(q)
    BY DEF IInv, TypeOK, Spins
  <1>9. MessagesOK'
    BY <1>4, <1>8 DEF IInv, TypeOK, MessagesOK
  <1>10. CallsOK'
    <2> SUFFICES ASSUME NEW q \in Proc PROVE CallOK(q)'
      BY DEF CallsOK
    <2>1. CASE q = p
      BY <2>1, <1>6, <1>8 DEF IInv, TypeOK, CallOK
    <2>2. CASE q # p
      BY <2>2, <1>4, <1>8, QueuedSame, CallTyped DEF IInv, TypeOK, CallsOK, CallOK
    <2> QED
      BY <2>1, <2>2
  <1> QED
    BY <1>1, <1>2, <1>3, <1>7, <1>9, <1>10, NobodyMoves DEF Kept, IInv

(* A processor that has seen HELD owned the lock before it saw it.         *)
LEMMA LockReturns ==
  ASSUME IInv, NEW p \in Proc, grt_lock_returns(p)
  PROVE  Kept
  <1> USE DEF grt_lock_returns, lockVars
  <1> DEFINE k == call[p].lock
  <1>0. k \in Lock /\ call[p].type \in LockType
    BY CallTyped
  <1>1. TypeOK'
    BY <1>0 DEF IInv, TypeOK, PC
  <1>2. ~Spins(p) /\ holds[p][k] = "NONE" /\ ~Queued(p, k)
    BY <1>0, QueuedWaits DEF Spins, IInv, CallsOK, CallOK
  <1>3. ASSUME NEW l \in Lock, NEW q \in Proc
        PROVE  /\ Owns(q, l)' <=> Owns(q, l)
               /\ Owns(q, l) => Mode(q, l)' = Mode(q, l)
               /\ Releases(q, l)' <=> Releases(q, l)
    <2>1. CASE q = p /\ l = k
      BY <1>0, <1>2, <2>1 DEF IInv, TypeOK, Owns, Mode, Releases, LockType
    <2>2. CASE q = p /\ l # k
      BY <1>0, <2>2 DEF IInv, TypeOK, Owns, Mode, Releases
    <2>3. CASE q # p
      BY <2>3, QueuedSame DEF IInv, TypeOK, Owns, Mode, Releases
    <2> QED
      BY <2>1, <2>2, <2>3
  <1>4. \A l \in Lock : SameOwners(l)
    BY <1>3 DEF SameOwners
  <1>5. \A g, q \in Proc : Granting(g, q)' <=> Granting(g, q)
    BY DEF IInv, TypeOK, Granting
  <1>6. \A q \in Proc : q # p => Undisturbed(q)
    BY <1>5 DEF IInv, TypeOK, Undisturbed
  <1>7. LocksOK'
    <2> SUFFICES ASSUME NEW l \in Lock PROVE QueueOK(l)' /\ HoldersOK(l)'
      BY DEF LocksOK
    <2>1. QueueOK(l) /\ HoldersOK(l)
      BY DEF IInv, LocksOK
    <2>2. \A i \in 1 .. Len(waiters[l]) : Undisturbed(waiters[l][i].proc)
      BY <1>2, <1>6, EntryQueued, QueuedWaits
    <2> QED
      BY <2>1, <2>2, <1>4, QueueKept, HoldersKept
  <1>8. \A q \in Proc : Spins(q)' <=> Spins(q)
    BY <1>2 DEF IInv, TypeOK, Spins
  <1>9. MessagesOK'
    BY <1>5, <1>8 DEF IInv, TypeOK, MessagesOK
  <1>10. CallsOK'
    <2> SUFFICES ASSUME NEW q \in Proc PROVE CallOK(q)'
      BY DEF CallsOK
    <2>1. CASE q = p
      BY <2>1, <1>2, <1>8 DEF IInv, TypeOK, CallOK
    <2>2. CASE q # p
      BY <2>2, <1>5, <1>8, QueuedSame, CallTyped DEF IInv, TypeOK, CallsOK, CallOK
    <2> QED
      BY <2>1, <2>2
  <1> QED
    BY <1>1, <1>3, <1>4, <1>7, <1>9, <1>10, NobodyMoves DEF Kept, IInv

-----------------------------------------------------------------------------
(* The two messages that end a wait                                        *)

(* A reply finds its receiver waiting, and is the only message to it.      *)
LEMMA ReplyArrives ==
  ASSUME IInv, NEW p \in Proc, lock_reply_handler(p)
  PROVE  Kept
  <1> USE DEF lock_reply_handler, lockVars
  <1>1. TypeOK'
    BY DEF IInv, TypeOK
  <1>2. Spins(p) /\ \A g \in Proc : ~Granting(g, p)
    BY DEF IInv, MessagesOK
  <1>3. ASSUME NEW l \in Lock, NEW q \in Proc
        PROVE  /\ Owns(q, l)' <=> Owns(q, l)
               /\ Owns(q, l) => Mode(q, l)' = Mode(q, l)
               /\ Releases(q, l)' <=> Releases(q, l)
    BY QueuedSame DEF Owns, Mode, Releases
  <1>4. \A l \in Lock : SameOwners(l)
    BY <1>3 DEF SameOwners
  <1>5. \A g, q \in Proc : Granting(g, q)' <=> Granting(g, q)
    BY DEF Granting
  <1>6. \A q \in Proc : q # p => Undisturbed(q)
    BY <1>5 DEF IInv, TypeOK, Undisturbed
  <1>7. LocksOK'
    <2> SUFFICES ASSUME NEW l \in Lock PROVE QueueOK(l)' /\ HoldersOK(l)'
      BY DEF LocksOK
    <2>1. QueueOK(l) /\ HoldersOK(l)
      BY DEF IInv, LocksOK
    <2>2. \A i \in 1 .. Len(waiters[l]) : Undisturbed(waiters[l][i].proc)
      BY <1>6, EntryQueued, QueuedWaits
    <2> QED
      BY <2>1, <2>2, <1>4, QueueKept, HoldersKept
  <1>8. \A q \in Proc : Spins(q)' <=> Spins(q) /\ q # p
    BY DEF IInv, TypeOK, Spins
  <1>9. MessagesOK'
    BY <1>2, <1>5, <1>8 DEF IInv, TypeOK, MessagesOK
  <1>10. CallsOK'
    <2> SUFFICES ASSUME NEW q \in Proc PROVE CallOK(q)'
      BY DEF CallsOK
    <2>1. CASE q = p
      BY <2>1, <1>2, <1>8 DEF IInv, TypeOK, CallsOK, CallOK, Spins
    <2>2. CASE q # p
      BY <2>2, <1>5, <1>8, QueuedSame, CallTyped DEF IInv, TypeOK, CallsOK, CallOK
    <2> QED
      BY <2>1, <2>2
  <1> QED
    BY <1>1, <1>3, <1>4, <1>7, <1>9, <1>10, NobodyMoves DEF Kept, IInv

(* So does the write of a releaser.                                        *)
LEMMA GrantArrives ==
  ASSUME IInv, NEW p \in Proc, grt_unlock_grants(p)
  PROVE  Kept
  <1> USE DEF grt_unlock_grants, lockVars
  <1> DEFINE q == receiving[p]
  <1>0. q \in Proc /\ Granting(p, q)
    BY DEF IInv, TypeOK, Granting
  <1>1. TypeOK'
    BY DEF IInv, TypeOK, PC
  <1>2. /\ Spins(q) /\ q \notin replies /\ q # p
        /\ \A g \in Proc : Granting(g, q) => g = p
    BY <1>0 DEF IInv, MessagesOK, Spins, Granting
  <1>3. ASSUME NEW l \in Lock, NEW r \in Proc
        PROVE  /\ Owns(r, l)' <=> Owns(r, l)
               /\ Owns(r, l) => Mode(r, l)' = Mode(r, l)
               /\ Releases(r, l)' <=> Releases(r, l)
    BY QueuedSame DEF IInv, TypeOK, Owns, Mode, Releases
  <1>4. \A l \in Lock : SameOwners(l)
    BY <1>3 DEF SameOwners
  <1>5. \A g, r \in Proc : Granting(g, r)' <=> Granting(g, r) /\ g # p
    BY DEF IInv, TypeOK, Granting
  <1>6. \A r \in Proc : Spins(r) /\ r # q => Undisturbed(r)
    BY <1>5 DEF IInv, TypeOK, Undisturbed, Spins
  <1>7. LocksOK'
    <2> SUFFICES ASSUME NEW l \in Lock PROVE QueueOK(l)' /\ HoldersOK(l)'
      BY DEF LocksOK
    <2>1. QueueOK(l) /\ HoldersOK(l)
      BY DEF IInv, LocksOK
    <2>2. \A i \in 1 .. Len(waiters[l]) : Undisturbed(waiters[l][i].proc)
      BY <1>0, <1>6, EntryQueued, QueuedWaits
    <2> QED
      BY <2>1, <2>2, <1>4, QueueKept, HoldersKept
  <1>8. \A r \in Proc : Spins(r)' <=> Spins(r) /\ r # q
    BY <1>2 DEF IInv, TypeOK, Spins
  <1>9. MessagesOK'
    BY <1>2, <1>5, <1>8 DEF IInv, TypeOK, MessagesOK
  <1>10. CallsOK'
    <2> SUFFICES ASSUME NEW r \in Proc PROVE CallOK(r)'
      BY DEF CallsOK
    <2>1. CASE r = q
      BY <2>1, <1>0, <1>2, <1>8 DEF IInv, TypeOK, CallsOK, CallOK, Spins
    <2>2. CASE r = p
      BY <2>2, <1>8 DEF IInv, TypeOK, CallOK, Spins
    <2>3. CASE r # q /\ r # p
      <3>1. CallOK(r)
        BY DEF IInv, CallsOK
      <3>2. Granting(p, r) => r = q
        BY DEF Granting
      <3> QED
        BY <2>3, <3>1, <3>2, <1>5, <1>8, QueuedSame, CallTyped
           DEF IInv, TypeOK, CallOK
    <2> QED
      BY <2>1, <2>2, <2>3
  <1> QED
    BY <1>1, <1>3, <1>4, <1>7, <1>9, <1>10, NobodyMoves DEF Kept, IInv

-----------------------------------------------------------------------------
(* Steps of the abstract lock                                              *)

(* How p holds l becomes t, and nobody else's hold changes.                *)
Moves(p, l, t) ==
  /\ Held(l, p)' = t
  /\ \A q \in Proc : q # p => Held(l, q)' = Held(l, q)

(* A step after which p no longer holds l is a release.                    *)
LEMMA AbstractRelease ==
  ASSUME NEW p \in Proc, NEW l \in Lock, Held(l, p) # "NONE", Moves(p, l, "NONE")
  PROVE  RW(l)!Next
  <1>1. Holding(l)' = [Holding(l) EXCEPT ![p] = "NONE"]
    BY DEF Holding, Moves
  <1>2. Holding(l)[p] # "NONE"
    BY DEF Holding
  <1> QED
    BY <1>1, <1>2 DEF RW!Next, RW!Release

(* A step after which p holds l is an acquire, if the others' holds allow. *)
LEMMA AbstractAcquire ==
  ASSUME NEW p \in Proc, NEW l \in Lock, NEW t \in LockType,
         Held(l, p) = "NONE", Moves(p, l, t),
         \A q \in Proc : Held(l, q) = "NONE" \/ (Held(l, q) = "READ" /\ t = "READ")
  PROVE  RW(l)!Next
  <1>1. Holding(l)' = [Holding(l) EXCEPT ![p] = t]
    BY DEF Holding, Moves
  <1>2. \A q \in Proc : Holding(l)[q] = Held(l, q)
    BY DEF Holding
  <1>3. RW(l)!Acquire(p, t)
    BY <1>1, <1>2 DEF RW!Acquire, RW!Compatible
  <1> QED
    BY <1>3 DEF RW!Next, LockType

(* Only one lock is concerned.                                             *)
LEMMA OneMoves ==
  ASSUME NEW k \in Lock, RW(k)!Next,
         \A l \in Lock, q \in Proc : l # k => Held(l, q)' = Held(l, q)
  PROVE  RWSteps
  <1>1. \A l \in Lock : l # k => UNCHANGED Holding(l)
    BY DEF Holding
  <1> QED
    BY <1>1 DEF RWSteps

-----------------------------------------------------------------------------
(* grt_unlock                                                              *)

(* A client that asks for the release owns the lock until it is served.    *)
LEMMA UnlockAsked ==
  ASSUME IInv, NEW p \in Proc, NEW k \in Lock, grt_unlock(p, k)
  PROVE  Kept
  <1> USE DEF grt_unlock, lockVars
  <1>0. holds[p][k] \in LockType /\ pc[p] = "run" /\ ~Spins(p)
    BY DEF IInv, TypeOK, Spins
  <1>1. TypeOK'
    BY <1>0 DEF IInv, TypeOK, PC
  <1>2. ASSUME NEW l \in Lock, NEW q \in Proc
        PROVE  /\ Owns(q, l)' <=> Owns(q, l)
               /\ Owns(q, l) => Mode(q, l)' = Mode(q, l)
               /\ Held(l, q)' = IF q = p /\ l = k THEN "NONE" ELSE Held(l, q)
    <2>1. CASE q = p /\ l = k
      BY <1>0, <2>1 DEF IInv, TypeOK, Owns, Mode, Held, Releases, LockType
    <2>2. CASE q = p /\ l # k
      BY <1>0, <2>2 DEF IInv, TypeOK, Owns, Mode, Held, Releases
    <2>3. CASE q # p
      BY <2>3, QueuedSame DEF IInv, TypeOK, Owns, Mode, Held, Releases
    <2> QED
      BY <2>1, <2>2, <2>3
  <1>4. \A l \in Lock : SameOwners(l)
    BY <1>2 DEF SameOwners
  <1>5. \A g, q \in Proc : Granting(g, q)' <=> Granting(g, q)
    BY DEF IInv, TypeOK, Granting
  <1>6. \A q \in Proc : q # p => Undisturbed(q)
    BY <1>5 DEF IInv, TypeOK, Undisturbed
  <1>7. LocksOK'
    <2> SUFFICES ASSUME NEW l \in Lock PROVE QueueOK(l)' /\ HoldersOK(l)'
      BY DEF LocksOK
    <2>1. QueueOK(l) /\ HoldersOK(l)
      BY DEF IInv, LocksOK
    <2>2. \A i \in 1 .. Len(waiters[l]) : Undisturbed(waiters[l][i].proc)
      BY <1>0, <1>6, EntryQueued, QueuedWaits
    <2> QED
      BY <2>1, <2>2, <1>4, QueueKept, HoldersKept
  <1>8. \A q \in Proc : Spins(q)' <=> Spins(q)
    BY DEF IInv, TypeOK, Spins
  <1>9. MessagesOK'
    BY <1>5, <1>8 DEF IInv, TypeOK, MessagesOK
  <1>10. CallsOK'
    <2> SUFFICES ASSUME NEW q \in Proc PROVE CallOK(q)'
      BY DEF CallsOK
    <2>1. CASE q = p
      BY <2>1, <1>0, <1>8 DEF IInv, TypeOK, CallOK
    <2>2. CASE q # p
      BY <2>2, <1>5, <1>8, QueuedSame, CallTyped DEF IInv, TypeOK, CallsOK, CallOK
    <2> QED
      BY <2>1, <2>2
  <1>11. RW(k)!Next
    <2>1. Held(k, p) # "NONE"
      BY <1>0 DEF Held, Owns, Mode, Releases
    <2> QED
      BY <2>1, <1>2, AbstractRelease DEF Moves
  <1>12. RWSteps
    BY <1>2, <1>11, OneMoves
  <1>13. QueueSteps
    BY <1>4 DEF QueueSteps, SameOwners
  <1> QED
    BY <1>1, <1>7, <1>9, <1>10, <1>12, <1>13 DEF Kept, IInv

-----------------------------------------------------------------------------
(* lock_local                                                              *)

(* The guards and effects of lock_local when it grants the lock.           *)
Grants(p) ==
  /\ lock_local(p)
  /\ Grantable(call[p].lock, call[p].type)
  /\ waiters' = waiters

Queues(p) == lock_local(p) /\ ~Grantable(call[p].lock, call[p].type)

LEMMA LockLocalCases ==
  ASSUME NEW p \in Proc, lock_local(p)
  PROVE  Grants(p) \/ Queues(p)
  BY DEF Grants, Queues, lock_local

(* A request that must wait is added to the queue of a lock that is held.  *)
LEMMA RequestQueued ==
  ASSUME IInv, NEW p \in Proc, Queues(p)
  PROVE  Kept
  <1> PICK k \in Lock, t \in LockType : call[p].lock = k /\ call[p].type = t
    BY CallTyped
  <1> DEFINE S == [proc : Proc, type : LockType]
             w == [proc |-> p, type |-> t]
  <1>0. w \in S /\ pc[p] = "locking"
    BY DEF Queues, lock_local
  <1>1. waiters \in [Lock -> Seq(S)] /\ waiters' = [waiters EXCEPT ![k] = Append(@, w)]
    BY DEF IInv, TypeOK, Queues, lock_local, grt_list_append
  <1>2. /\ waiters' \in [Lock -> Seq(S)]
        /\ Len(waiters'[k]) = Len(waiters[k]) + 1
        /\ \A i \in 1 .. Len(waiters[k]) : waiters'[k][i] = waiters[k][i]
        /\ waiters'[k][Len(waiters[k]) + 1] = w
        /\ \A l \in Lock : l # k => waiters'[l] = waiters[l]
    <2>1. waiters[k] \in Seq(S) /\ waiters'[k] = Append(waiters[k], w)
      BY <1>0, <1>1
    <2>2. /\ Append(waiters[k], w) \in Seq(S)
          /\ Len(Append(waiters[k], w)) = Len(waiters[k]) + 1
          /\ \A i \in 1 .. Len(waiters[k]) : Append(waiters[k], w)[i] = waiters[k][i]
          /\ Append(waiters[k], w)[Len(waiters[k]) + 1] = w
      BY <1>0, <2>1, AppendProperties
    <2> QED
      BY <1>0, <1>1, <2>1, <2>2
  <1>3. /\ pc' = [pc EXCEPT ![p] = "waiting"]
        /\ UNCHANGED <<num_holders, type, state, replies, call, receiving, holds>>
    BY DEF Queues, lock_local
  <1>4. TypeOK'
    BY <1>2, <1>3 DEF IInv, TypeOK, PC
  <1>5. \A i \in 1 .. Len(waiters[k]) + 1 :
          i \in 1 .. Len(waiters[k]) \/ i = Len(waiters[k]) + 1
    <2>1. Len(waiters[k]) \in Nat
      BY <1>0, <1>1, LenProperties
    <2> QED
      BY <2>1
  <1>6. ASSUME NEW l \in Lock, NEW q \in Proc
        PROVE  Queued(q, l)' <=> (Queued(q, l) \/ (q = p /\ l = k))
    <2>1. CASE l # k
      BY <1>2, <2>1 DEF Queued
    <2>2. CASE l = k
      <3>1. Len(waiters[k]) \in Nat
        BY <1>0, <1>1, LenProperties
      <3> QED
        BY <1>2, <1>5, <2>2, <3>1 DEF Queued
    <2> QED
      BY <2>1, <2>2
  <1>7. ASSUME NEW l \in Lock, NEW q \in Proc
        PROVE  /\ Owns(q, l)' <=> Owns(q, l)
               /\ Owns(q, l) => Mode(q, l)' = Mode(q, l)
               /\ Releases(q, l)' <=> Releases(q, l)
    BY <1>0, <1>3, <1>6 DEF IInv, TypeOK, Owns, Mode, Releases
  <1>8. \A l \in Lock : SameOwners(l)
    BY <1>7 DEF SameOwners
  <1>9. \A g, q \in Proc : Granting(g, q)' <=> Granting(g, q)
    BY <1>0, <1>3 DEF IInv, TypeOK, Granting
  <1>10. \A q \in Proc : q # p => Undisturbed(q)
    BY <1>3, <1>9 DEF IInv, TypeOK, Undisturbed
  <1>11. ~Spins(p) /\ p \notin replies /\ \A g \in Proc : ~Granting(g, p)
    BY <1>0 DEF IInv, MessagesOK, Spins
  <1>12. \A q \in Proc : Spins(q)' <=> Spins(q) \/ q = p
    BY <1>0, <1>3 DEF IInv, TypeOK, CallsOK, CallOK, Spins
  <1>13. ASSUME NEW l \in Lock, NEW i \in 1 .. Len(waiters[l])
         PROVE  waiters[l][i].proc # p /\ Undisturbed(waiters[l][i].proc)
    BY <1>10, <1>11, EntryQueued, QueuedWaits
  <1>14. LocksOK'
    <2> SUFFICES ASSUME NEW l \in Lock PROVE QueueOK(l)' /\ HoldersOK(l)'
      BY DEF LocksOK
    <2>1. QueueOK(l) /\ HoldersOK(l)
      BY DEF IInv, LocksOK
    <2>2. HoldersOK(l)'
      BY <2>1, <1>3, <1>8, HoldersKept
    <2>3. CASE l # k
      BY <2>1, <2>2, <2>3, <1>2, <1>3, <1>13, QueueKept
    <2>4. CASE l = k
      <3>1. EntryOK(w, k)'
        BY <1>3, <1>9, <1>11, <1>12 DEF EntryOK
      <3>2. ASSUME NEW i \in 1 .. Len(waiters[k]) + 1, NEW v, v = waiters'[k][i]
            PROVE  EntryOK(v, k)'
        <4>1. CASE i = Len(waiters[k]) + 1
          BY <1>2, <3>1, <3>2, <4>1
        <4>2. CASE i \in 1 .. Len(waiters[k])
          <5>1. v = waiters[k][i] /\ EntryOK(v, k)
            BY <1>2, <2>1, <2>4, <3>2, <4>2 DEF QueueOK
          <5> QED
            BY <1>13, <4>2, <5>1, EntryKept
        <4> QED
          BY <1>5, <4>1, <4>2
      <3>3. \A i, j \in 1 .. Len(waiters[k]) + 1 :
              waiters'[k][i].proc = waiters'[k][j].proc => i = j
        BY <1>2, <1>5, <1>13, <2>1, <2>4 DEF QueueOK
      <3>4. num_holders'[k] # 0
        BY <1>3 DEF Queues, Grantable
      <3>5. QueueOK(k)'
        <4>1. Len(waiters'[k]) = Len(waiters[k]) + 1
          BY <1>2
        <4> QED
          BY <3>2, <3>3, <3>4, <4>1, QueueBuilt
      <3> QED
        BY <2>2, <2>4, <3>5
    <2> QED
      BY <2>3, <2>4
  <1>15. MessagesOK'
    BY <1>3, <1>9, <1>12 DEF IInv, TypeOK, MessagesOK
  <1>16. CallsOK'
    <2> SUFFICES ASSUME NEW q \in Proc PROVE CallOK(q)'
      BY DEF CallsOK
    <2>1. CASE q = p
      BY <2>1, <1>0, <1>3, <1>6 DEF IInv, TypeOK, CallsOK, CallOK
    <2>2. CASE q # p
      BY <2>2, <1>3, <1>6, <1>9, <1>12, CallTyped DEF IInv, TypeOK, CallsOK, CallOK
    <2> QED
      BY <2>1, <2>2
  <1> QED
    BY <1>4, <1>7, <1>8, <1>14, <1>15, <1>16, NobodyMoves DEF Kept, IInv

(* A lock is granted to a processor only if it fits with all holders.      *)
LEMMA RequestGranted ==
  ASSUME IInv, NEW p \in Proc, Grants(p)
  PROVE  Kept
  <1> PICK k \in Lock, t \in LockType : call[p].lock = k /\ call[p].type = t
    BY CallTyped
  <1>0. pc[p] = "locking"
    BY DEF Grants, lock_local
  <1>1. /\ pc' = [pc EXCEPT ![p] = "waiting"]
        /\ num_holders' = [num_holders EXCEPT ![k] = @ + 1]
        /\ type' = [type EXCEPT ![k] = t]
        /\ UNCHANGED <<waiters, call, receiving, holds>>
        /\ \/ state' = [state EXCEPT ![p] = "HELD"] /\ replies' = replies
           \/ state' = state /\ replies' = replies \cup {p}
    BY DEF Grants, lock_local
  <1>2. num_holders[k] = 0 \/ (type[k] = "READ" /\ t = "READ")
    BY DEF Grants, Grantable
  <1>3. QueueOK(k) /\ HoldersOK(k)
    BY <1>0 DEF IInv, LocksOK
  <1>4. /\ ~Spins(p) /\ state[p] = "WAITING" /\ holds[p][k] = "NONE"
        /\ p \notin replies /\ \A g \in Proc : ~Granting(g, p)
    BY <1>0 DEF IInv, MessagesOK, CallsOK, CallOK, Spins
  <1>5. \A l \in Lock : ~Queued(p, l)
    BY <1>4, QueuedWaits
  <1>6. ~Owns(p, k) /\ Owns(p, k)' /\ Mode(p, k)' = t
    BY <1>0, <1>1, <1>4, <1>5, QueuedSame DEF IInv, TypeOK, Owns, Mode
  <1>7. ASSUME NEW l \in Lock, NEW q \in Proc, q # p \/ l # k
        PROVE  /\ Owns(q, l)' <=> Owns(q, l)
               /\ Owns(q, l) => Mode(q, l)' = Mode(q, l)
               /\ Held(l, q)' = Held(l, q)
    BY <1>0, <1>1, <1>7, QueuedSame DEF IInv, TypeOK, Owns, Mode, Releases, Held
  <1>8. \A q \in Proc : Owns(q, k) => Mode(q, k) = "READ" /\ t = "READ"
    <2>1. Owners(k) \in SUBSET Proc
      BY DEF Owners
    <2>2. CASE num_holders[k] = 0
      BY <1>3, <2>1, <2>2, NoneLeft DEF HoldersOK, Owners
    <2>3. CASE type[k] = "READ" /\ t = "READ"
      BY <1>3, <2>3 DEF HoldersOK
    <2> QED
      BY <1>2, <2>2, <2>3
  <1>9. Owners(k)' = Owners(k) \cup {p} /\ p \notin Owners(k)
    BY <1>6, <1>7 DEF Owners
  <1>10. num_holders'[k] = Cardinality(Owners(k)')
    <2>1. Owners(k) \in SUBSET Proc
      BY DEF Owners
    <2> QED
      BY <1>0, <1>1, <1>3, <1>9, <2>1, OneMore DEF HoldersOK, IInv, TypeOK
  <1>11. TypeOK'
    <2>1. Owners(k)' \in SUBSET Proc
      BY DEF Owners
    <2>2. num_holders'[k] \in 0 .. NumProcs
      BY <1>10, <2>1, ProcSets
    <2> QED
      BY <1>0, <1>1, <2>2 DEF IInv, TypeOK, PC
  <1>12. \A g, q \in Proc : Granting(g, q)' <=> Granting(g, q)
    BY <1>0, <1>1 DEF IInv, TypeOK, Granting
  <1>13. \A q \in Proc : q # p => Undisturbed(q)
    BY <1>1, <1>12 DEF IInv, TypeOK, Undisturbed
  <1>14. LocksOK'
    <2> SUFFICES ASSUME NEW l \in Lock PROVE QueueOK(l)' /\ HoldersOK(l)'
      BY DEF LocksOK
    <2>1. QueueOK(l) /\ HoldersOK(l)
      BY DEF IInv, LocksOK
    <2>2. \A i \in 1 .. Len(waiters[l]) : Undisturbed(waiters[l][i].proc)
      BY <1>4, <1>13, EntryQueued, QueuedWaits
    <2>3. CASE l # k
      <3>1. SameOwners(l)
        BY <1>7, <2>3 DEF SameOwners
      <3>2. num_holders'[l] = num_holders[l] /\ type'[l] = type[l]
        BY <1>1, <2>3 DEF IInv, TypeOK
      <3> QED
        BY <1>1, <2>1, <2>2, <3>1, <3>2, QueueKept, HoldersKept
    <2>4. CASE l = k
      <3>1. HoldersOK(k)'
        <4>1. type'[k] = t
          BY <1>0, <1>1 DEF IInv, TypeOK
        <4>2. ASSUME NEW q \in Proc, Owns(q, k)'
              PROVE  Mode(q, k)' = t /\ (t = "WRITE" => q = p)
          BY <1>6, <1>7, <1>8, <4>2
        <4> QED
          BY <1>10, <4>1, <4>2 DEF HoldersOK
      <3>2. num_holders'[k] # 0
        BY <1>0, <1>1 DEF IInv, TypeOK
      <3>3. waiters'[k] = waiters[k]
        BY <1>1
      <3>4. ASSUME NEW i \in 1 .. Len(waiters'[k]), NEW v, v = waiters'[k][i]
            PROVE  EntryOK(v, k)'
        BY <1>3, <2>2, <2>4, <3>3, <3>4, EntryKept DEF QueueOK
      <3>5. \A i, j \in 1 .. Len(waiters'[k]) :
              waiters'[k][i].proc = waiters'[k][j].proc => i = j
        BY <1>3, <3>3 DEF QueueOK
      <3>6. QueueOK(k)'
        BY <3>2, <3>4, <3>5, QueueBuilt
      <3> QED
        BY <2>4, <3>1, <3>6
    <2> QED
      BY <2>3, <2>4
  <1>15. \A q \in Proc : q # p => (Spins(q)' <=> Spins(q))
    BY <1>1 DEF IInv, TypeOK, Spins
  <1>16. p \in replies' <=> Spins(p)'
    BY <1>0, <1>1, <1>4 DEF IInv, TypeOK, Spins
  <1>17. MessagesOK'
    <2>1. \A q \in replies' : q \in Proc /\ (q = p \/ q \in replies)
      BY <1>1 DEF IInv, TypeOK
    <2>2. \A q \in replies' : Spins(q)'
      BY <2>1, <1>15, <1>16 DEF IInv, MessagesOK
    <2>3. \A q \in replies', g \in Proc : ~Granting(g, q)'
      BY <2>1, <1>4, <1>12 DEF IInv, MessagesOK
    <2>4. \A g, q \in Proc : Granting(g, q)' => Spins(q)'
      BY <1>4, <1>12, <1>15 DEF IInv, MessagesOK
    <2> QED
      BY <2>2, <2>3, <2>4, <1>12 DEF IInv, MessagesOK
  <1>18. CallsOK'
    <2> SUFFICES ASSUME NEW q \in Proc PROVE CallOK(q)'
      BY DEF CallsOK
    <2>1. CASE q = p
      BY <2>1, <1>0, <1>1, <1>4, <1>16 DEF IInv, TypeOK, CallOK
    <2>2. CASE q # p
      <3>1. CallOK(q)
        BY DEF IInv, CallsOK
      <3> QED
        BY <2>2, <3>1, <1>1, <1>12, <1>15, QueuedSame, CallTyped DEF IInv, TypeOK, CallOK
    <2> QED
      BY <2>1, <2>2
  <1>19. RWSteps
    <2>1. Held(k, p) = "NONE" /\ Held(k, p)' = t
      BY <1>0, <1>1, <1>6 DEF IInv, TypeOK, Held, Releases
    <2>2. Moves(p, k, t)
      BY <1>0, <1>7, <2>1 DEF Moves
    <2>3. \A q \in Proc : Held(k, q) = "NONE" \/ (Held(k, q) = "READ" /\ t = "READ")
      BY <1>8 DEF Held
    <2>4. RW(k)!Next
      BY <1>0, <2>1, <2>2, <2>3, AbstractAcquire
    <2> QED
      BY <1>0, <1>7, <2>4, OneMoves
  <1>20. QueueSteps
    <2> SUFFICES ASSUME Owns(p, k)', call'[p].type = "WRITE"
                 PROVE  waiters[k] = <<>>
      BY <1>7 DEF QueueSteps
    <2> QED
      BY <1>1, <1>2, <1>3 DEF QueueOK
  <1> QED
    BY <1>11, <1>14, <1>17, <1>18, <1>19, <1>20 DEF Kept, IInv

-----------------------------------------------------------------------------
(* unlock_local                                                            *)

Drops(p) == unlock_local(p) /\ ~PassesOn(call[p].lock)
Passes(p) == unlock_local(p) /\ PassesOn(call[p].lock)

(* A holder that passes the lock to nobody leaves the queue empty or other *)
(* holders behind.                                                         *)
LEMMA LockDropped ==
  ASSUME IInv, NEW p \in Proc, Drops(p)
  PROVE  Kept
  <1> PICK k \in Lock, t \in LockType : call[p].lock = k /\ call[p].type = t
    BY CallTyped
  <1>0. pc[p] = "unlocking" /\ holds[p][k] = "NONE" /\ ~Spins(p)
    BY DEF Drops, unlock_local, IInv, CallsOK, CallOK, Spins
  <1>1. /\ pc' = [pc EXCEPT ![p] = "run"]
        /\ num_holders' = [num_holders EXCEPT ![k] = @ - 1]
        /\ UNCHANGED <<type, waiters, state, call, receiving, replies, holds>>
    BY DEF Drops, unlock_local
  <1>2. waiters[k] # <<>> => num_holders[k] # 1
    BY DEF Drops, PassesOn
  <1>3. QueueOK(k) /\ HoldersOK(k)
    BY DEF IInv, LocksOK
  <1>4. Owns(p, k) /\ ~Owns(p, k)' /\ Held(k, p) = "NONE" /\ Held(k, p)' = "NONE"
    BY <1>0, <1>1 DEF IInv, TypeOK, Owns, Held, Releases
  <1>5. ASSUME NEW l \in Lock, NEW q \in Proc, q # p \/ l # k
        PROVE  /\ Owns(q, l)' <=> Owns(q, l)
               /\ Owns(q, l) => Mode(q, l)' = Mode(q, l)
               /\ Held(l, q)' = Held(l, q)
    BY <1>0, <1>1, <1>5, QueuedSame DEF IInv, TypeOK, Owns, Mode, Releases, Held
  <1>6. Owners(k)' = Owners(k) \ {p} /\ p \in Owners(k)
    BY <1>4, <1>5 DEF Owners
  <1>7. num_holders'[k] = Cardinality(Owners(k)')
    <2>1. Owners(k) \in SUBSET Proc
      BY DEF Owners
    <2> QED
      BY <1>1, <1>3, <1>6, <2>1, OneLess DEF HoldersOK, IInv, TypeOK
  <1>8. TypeOK'
    <2>1. Owners(k)' \in SUBSET Proc
      BY DEF Owners
    <2>2. num_holders'[k] \in 0 .. NumProcs
      BY <1>7, <2>1, ProcSets
    <2> QED
      BY <1>1, <2>2 DEF IInv, TypeOK, PC
  <1>9. \A g, q \in Proc : Granting(g, q)' <=> Granting(g, q)
    BY <1>0, <1>1 DEF IInv, TypeOK, Granting
  <1>10. \A q \in Proc : q # p => Undisturbed(q)
    BY <1>1, <1>9 DEF IInv, TypeOK, Undisturbed
  <1>11. LocksOK'
    <2> SUFFICES ASSUME NEW l \in Lock PROVE QueueOK(l)' /\ HoldersOK(l)'
      BY DEF LocksOK
    <2>1. QueueOK(l) /\ HoldersOK(l)
      BY DEF IInv, LocksOK
    <2>2. \A i \in 1 .. Len(waiters[l]) : Undisturbed(waiters[l][i].proc)
      BY <1>0, <1>10, EntryQueued, QueuedWaits
    <2>3. CASE l # k
      <3>1. SameOwners(l)
        BY <1>5, <2>3 DEF SameOwners
      <3>2. num_holders'[l] = num_holders[l] /\ type'[l] = type[l]
        BY <1>1, <2>3 DEF IInv, TypeOK
      <3> QED
        BY <1>1, <2>1, <2>2, <3>1, <3>2, QueueKept, HoldersKept
    <2>4. CASE l = k
      <3>1. HoldersOK(k)'
        <4>1. \A q \in Proc : Owns(q, k)' => Owns(q, k) /\ Mode(q, k)' = Mode(q, k)
          BY <1>4, <1>5
        <4> QED
          BY <1>1, <1>3, <1>7, <4>1 DEF HoldersOK
      <3>2. waiters'[k] # <<>> => num_holders'[k] # 0
        BY <1>1, <1>2, <1>3 DEF IInv, TypeOK, QueueOK
      <3>3. waiters'[k] = waiters[k]
        BY <1>1
      <3>4. ASSUME NEW i \in 1 .. Len(waiters'[k]), NEW v, v = waiters'[k][i]
            PROVE  EntryOK(v, k)'
        BY <1>3, <2>2, <2>4, <3>3, <3>4, EntryKept DEF QueueOK
      <3>5. \A i, j \in 1 .. Len(waiters'[k]) :
              waiters'[k][i].proc = waiters'[k][j].proc => i = j
        BY <1>3, <3>3 DEF QueueOK
      <3>6. QueueOK(k)'
        BY <3>2, <3>4, <3>5, QueueBuilt
      <3> QED
        BY <2>4, <3>1, <3>6
    <2> QED
      BY <2>3, <2>4
  <1>12. \A q \in Proc : Spins(q)' <=> Spins(q)
    BY <1>0, <1>1 DEF IInv, TypeOK, Spins
  <1>13. MessagesOK'
    BY <1>1, <1>9, <1>12 DEF IInv, TypeOK, MessagesOK
  <1>14. CallsOK'
    <2> SUFFICES ASSUME NEW q \in Proc PROVE CallOK(q)'
      BY DEF CallsOK
    <2>1. CASE q = p
      BY <2>1, <1>0, <1>1, <1>12 DEF IInv, TypeOK, CallOK
    <2>2. CASE q # p
      <3>1. CallOK(q)
        BY DEF IInv, CallsOK
      <3> QED
        BY <2>2, <3>1, <1>1, <1>9, <1>12, QueuedSame, CallTyped DEF IInv, TypeOK, CallOK
    <2> QED
      BY <2>1, <2>2
  <1>15. RWSteps
    <2>1. \A l \in Lock, q \in Proc : Held(l, q)' = Held(l, q)
      BY <1>4, <1>5
    <2> QED
      BY <2>1 DEF RWSteps, Holding
  <1>16. QueueSteps
    BY <1>4, <1>5 DEF QueueSteps
  <1> QED
    BY <1>8, <1>11, <1>13, <1>14, <1>15, <1>16 DEF Kept, IInv

(* A holder that passes the lock on gives it to the first of the queue,    *)
(* who fits with the holders that are left.                                *)
LEMMA LockPassed ==
  ASSUME IInv, NEW p \in Proc, Passes(p)
  PROVE  Kept
  <1> PICK k \in Lock, t \in LockType : call[p].lock = k /\ call[p].type = t
    BY CallTyped
  <1> DEFINE S == [proc : Proc, type : LockType]
  <1>0. pc[p] = "unlocking" /\ holds[p][k] = "NONE" /\ ~Spins(p)
    BY DEF Passes, unlock_local, IInv, CallsOK, CallOK, Spins
  <1>a. waiters[k] # <<>> /\ waiters \in [Lock -> Seq(S)]
    BY DEF Passes, PassesOn, IInv, TypeOK
  <1>b. /\ Head(waiters[k]) = waiters[k][1] /\ Len(waiters[k]) \in Nat \ {0}
        /\ Tail(waiters[k]) \in Seq(S)
        /\ Len(Tail(waiters[k])) = Len(waiters[k]) - 1
        /\ \A i \in 1 .. Len(Tail(waiters[k])) : Tail(waiters[k])[i] = waiters[k][i + 1]
    <2>1. waiters[k] \in Seq(S)
      BY <1>a
    <2>2. Len(waiters[k]) \in Nat \ {0} /\ Head(waiters[k]) = waiters[k][1]
      BY <1>a, <2>1, EmptySeq, LenProperties
    <2> QED
      BY <1>a, <2>1, <2>2, HeadTailProperties
  <1>c. PICK q \in Proc, u \in LockType :
          /\ waiters[k][1].proc = q /\ waiters[k][1].type = u
          /\ Queued(q, k) /\ EntryOK(waiters[k][1], k)
    <2>1. 1 \in 1 .. Len(waiters[k])
      BY <1>b
    <2> QED
      BY <2>1, EntryQueued DEF IInv, LocksOK, QueueOK
  <1>1. /\ pc' = [pc EXCEPT ![p] = "granting"]
        /\ receiving' = [receiving EXCEPT ![p] = q]
        /\ type' = [type EXCEPT ![k] = u]
        /\ waiters' = [waiters EXCEPT ![k] = Tail(@)]
        /\ UNCHANGED <<num_holders, state, call, replies, holds>>
    BY <1>b, <1>c DEF Passes, unlock_local
  <1>2. num_holders[k] = 1 \/ u = "READ"
    BY <1>b, <1>c DEF Passes, PassesOn
  <1>3. QueueOK(k) /\ HoldersOK(k)
    BY DEF IInv, LocksOK
  <1>4. /\ Spins(q) /\ q \notin replies /\ call[q].lock = k /\ call[q].type = u
        /\ holds[q][k] = "NONE" /\ ~Owns(q, k) /\ q # p
        /\ \A g \in Proc : ~Granting(g, q)
    BY <1>0, <1>c, QueuedWaits DEF EntryOK
  <1>5. /\ waiters' \in [Lock -> Seq(S)]
        /\ Len(waiters'[k]) = Len(waiters[k]) - 1
        /\ \A i \in 1 .. Len(waiters'[k]) :
             waiters'[k][i] = waiters[k][i + 1] /\ i + 1 \in 1 .. Len(waiters[k])
        /\ \A l \in Lock : l # k => waiters'[l] = waiters[l]
    <2>1. waiters'[k] = Tail(waiters[k])
      BY <1>a, <1>1
    <2>2. /\ waiters' \in [Lock -> Seq(S)]
          /\ \A l \in Lock : l # k => waiters'[l] = waiters[l]
      BY <1>a, <1>b, <1>1
    <2>3. \A i \in 1 .. Len(waiters'[k]) : i + 1 \in 1 .. Len(waiters[k])
      BY <1>b, <2>1
    <2> QED
      BY <1>b, <2>1, <2>2, <2>3
  <1>6. ASSUME NEW l \in Lock, NEW r \in Proc
        PROVE  Queued(r, l)' <=> Queued(r, l) /\ ~(r = q /\ l = k)
    <2>1. CASE l # k
      BY <1>5, <2>1 DEF Queued
    <2>2. CASE l = k /\ r = q
      <3>1. ASSUME NEW i \in 1 .. Len(waiters'[k]), waiters'[k][i].proc = q
            PROVE  FALSE
        <4>1. waiters[k][i + 1].proc = waiters[k][1].proc
              /\ i + 1 \in 1 .. Len(waiters[k]) /\ 1 \in 1 .. Len(waiters[k])
          BY <1>5, <1>b, <1>c, <3>1
        <4>2. i + 1 = 1
          BY <1>3, <4>1 DEF QueueOK
        <4> QED
          BY <1>b, <1>5, <4>2
      <3> QED
        BY <2>2, <3>1 DEF Queued
    <2>3. CASE l = k /\ r # q
      <3>1. ASSUME Queued(r, k) PROVE Queued(r, k)'
        <4>1. PICK i \in 1 .. Len(waiters[k]) : waiters[k][i].proc = r
          BY <3>1 DEF Queued
        <4>2. i # 1
          BY <1>c, <2>3, <4>1
        <4>3. i - 1 \in 1 .. Len(waiters'[k]) /\ (i - 1) + 1 = i
          BY <1>b, <1>5, <4>2
        <4>4. waiters'[k][i - 1] = waiters[k][i]
          BY <1>5, <4>3
        <4> QED
          BY <4>1, <4>3, <4>4 DEF Queued
      <3>2. ASSUME Queued(r, k)' PROVE Queued(r, k)
        BY <1>5, <3>2 DEF Queued
      <3> QED
        BY <2>3, <3>1, <3>2
    <2> QED
      BY <2>1, <2>2, <2>3
  <1>7. ~Owns(p, k)' /\ Held(k, p) = "NONE" /\ Held(k, p)' = "NONE" /\ Owns(p, k)
    BY <1>0, <1>1 DEF IInv, TypeOK, Owns, Held, Releases
  <1>8. Owns(q, k)' /\ Mode(q, k)' = u /\ Held(k, q) = "NONE" /\ Held(k, q)' = u
    BY <1>1, <1>4, <1>6 DEF IInv, TypeOK, Owns, Mode, Held, Releases, Spins
  <1>9. ASSUME NEW l \in Lock, NEW r \in Proc, l # k \/ (r # p /\ r # q)
        PROVE  /\ Owns(r, l)' <=> Owns(r, l)
               /\ Owns(r, l) => Mode(r, l)' = Mode(r, l)
               /\ Held(l, r)' = Held(l, r)
    BY <1>0, <1>1, <1>4, <1>6, <1>9 DEF IInv, TypeOK, Owns, Mode, Held, Releases
  <1>10. \A r \in Proc : r # p /\ Owns(r, k) => u = "READ" /\ Mode(r, k) = "READ"
    <2> SUFFICES ASSUME NEW r \in Proc, r # p, Owns(r, k)
                 PROVE  u = "READ" /\ Mode(r, k) = "READ"
      OBVIOUS
    <2>1. num_holders[k] # 1
      <3>1. Owners(k) \in SUBSET Proc /\ p \in Owners(k) /\ r \in Owners(k)
        BY <1>7 DEF Owners
      <3> QED
        BY <1>3, <3>1, OneLeft DEF HoldersOK
    <2>2. type[k] = "READ"
      BY <1>3, <1>7 DEF HoldersOK, IInv, TypeOK, LockType
    <2> QED
      BY <1>2, <1>3, <2>1, <2>2 DEF HoldersOK
  <1>11. num_holders'[k] = Cardinality(Owners(k)')
    <2>1. Owners(k) \in SUBSET Proc /\ p \in Owners(k) /\ q \notin Owners(k)
      BY <1>4, <1>7 DEF Owners
    <2>2. Owners(k)' = (Owners(k) \ {p}) \cup {q}
      BY <1>4, <1>7, <1>8, <1>9 DEF Owners
    <2> QED
      BY <1>1, <1>3, <2>1, <2>2, Swapped DEF HoldersOK
  <1>12. TypeOK'
    BY <1>1, <1>5 DEF IInv, TypeOK, PC
  <1>13. \A g, r \in Proc : Granting(g, r)' <=> Granting(g, r) \/ (g = p /\ r = q)
    BY <1>0, <1>1 DEF IInv, TypeOK, Granting
  <1>14. \A r \in Proc : r # p /\ r # q => Undisturbed(r)
    BY <1>1, <1>13 DEF IInv, TypeOK, Undisturbed
  <1>15. \A r \in Proc : Spins(r)' <=> Spins(r)
    BY <1>0, <1>1 DEF IInv, TypeOK, Spins
  <1>16. LocksOK'
    <2> SUFFICES ASSUME NEW l \in Lock PROVE QueueOK(l)' /\ HoldersOK(l)'
      BY DEF LocksOK
    <2>1. QueueOK(l) /\ HoldersOK(l)
      BY DEF IInv, LocksOK
    <2>2. CASE l # k
      <3>1. SameOwners(l)
        BY <1>9, <2>2 DEF SameOwners
      <3>2. num_holders'[l] = num_holders[l] /\ type'[l] = type[l]
        BY <1>1, <2>2 DEF IInv, TypeOK
      <3>3. \A i \in 1 .. Len(waiters[l]) : Undisturbed(waiters[l][i].proc)
        BY <1>0, <1>4, <1>14, <2>2, EntryQueued, QueuedWaits
      <3> QED
        BY <1>5, <2>1, <2>2, <3>1, <3>2, <3>3, QueueKept, HoldersKept
    <2>3. CASE l = k
      <3>1. HoldersOK(k)'
        <4>1. type'[k] = u
          BY <1>1 DEF IInv, TypeOK
        <4>2. ASSUME NEW r \in Proc, Owns(r, k)'
              PROVE  Mode(r, k)' = u /\ (u = "WRITE" => r = q)
          BY <1>7, <1>8, <1>9, <1>10, <4>2
        <4> QED
          BY <1>11, <4>1, <4>2 DEF HoldersOK
      <3>2. num_holders'[k] # 0
        BY <1>1, <1>3, <1>a DEF QueueOK
      <3>3. ASSUME NEW i \in 1 .. Len(waiters'[k]), NEW v, v = waiters'[k][i]
            PROVE  EntryOK(v, k)'
        <4>1. v = waiters[k][i + 1] /\ i + 1 \in 1 .. Len(waiters[k]) /\ i + 1 # 1
          BY <1>b, <1>5, <3>3
        <4>2. EntryOK(v, k) /\ v.proc # q
          BY <1>3, <1>b, <1>c, <4>1 DEF QueueOK
        <4>3. v.proc \in Proc /\ v.proc # p
          BY <1>0, <4>1, EntryQueued, QueuedWaits
        <4> QED
          BY <1>14, <4>2, <4>3, EntryKept
      <3>4. \A i, j \in 1 .. Len(waiters'[k]) :
              waiters'[k][i].proc = waiters'[k][j].proc => i = j
        <4> SUFFICES ASSUME NEW i \in 1 .. Len(waiters'[k]), NEW j \in 1 .. Len(waiters'[k]),
                            waiters'[k][i].proc = waiters'[k][j].proc
                     PROVE  i = j
          OBVIOUS
        <4>1. i + 1 = j + 1
          BY <1>3, <1>5 DEF QueueOK
        <4> QED
          BY <4>1
      <3>5. QueueOK(k)'
        BY <3>2, <3>3, <3>4, QueueBuilt
      <3> QED
        BY <2>3, <3>1, <3>5
    <2> QED
      BY <2>2, <2>3
  <1>17. MessagesOK'
    <2>1. replies' = replies /\ replies \subseteq Proc
      BY <1>1 DEF IInv, TypeOK
    <2>2. \A r \in replies' : Spins(r)' /\ \A g \in Proc : ~Granting(g, r)'
      BY <1>4, <1>13, <1>15, <2>1 DEF IInv, MessagesOK
    <2>3. \A g, r \in Proc : Granting(g, r)' => Spins(r)'
      BY <1>4, <1>13, <1>15 DEF IInv, MessagesOK
    <2>4. \A g, h, r \in Proc : Granting(g, r)' /\ Granting(h, r)' => g = h
      BY <1>4, <1>13 DEF IInv, MessagesOK
    <2> QED
      BY <2>2, <2>3, <2>4 DEF MessagesOK
  <1>18. CallsOK'
    <2> SUFFICES ASSUME NEW r \in Proc PROVE CallOK(r)'
      BY DEF CallsOK
    <2>1. CallOK(r)
      BY DEF IInv, CallsOK
    <2>2. CASE r = p
      BY <2>2, <1>0, <1>1, <1>15 DEF IInv, TypeOK, CallOK
    <2>3. CASE r = q
      BY <2>1, <2>3, <1>1, <1>4, <1>13 DEF IInv, TypeOK, CallOK
    <2>4. CASE r # p /\ r # q
      BY <2>1, <2>4, <1>1, <1>6, <1>13, <1>15, CallTyped DEF IInv, TypeOK, CallOK
    <2> QED
      BY <2>2, <2>3, <2>4
  <1>19. RWSteps
    <2>1. \A r \in Proc : Held(k, r) = "NONE" \/ (Held(k, r) = "READ" /\ u = "READ")
      BY <1>7, <1>10 DEF Held
    <2>2. Moves(q, k, u)
      BY <1>7, <1>8, <1>9 DEF Moves
    <2>3. RW(k)!Next
      BY <1>8, <2>1, <2>2, AbstractAcquire
    <2> QED
      BY <1>9, <2>3, OneMoves
  <1>20. QueueSteps
    BY <1>b, <1>c, <1>7, <1>9 DEF QueueSteps
  <1> QED
    BY <1>12, <1>16, <1>17, <1>18, <1>19, <1>20 DEF Kept, IInv

-----------------------------------------------------------------------------
(* The theorems                                                            *)

(* At the start nobody waits for or owns anything.                         *)
LEMMA InvInit == Init => IInv /\ \A l \in Lock : RW(l)!Init
  <1> SUFFICES ASSUME Init PROVE IInv /\ \A l \in Lock : RW(l)!Init
    OBVIOUS
  <1>1. (CHOOSE l \in Lock : TRUE) \in Lock /\ NumProcs \in Nat \ {0} /\ 0 \in Proc
    BY LockAssumption DEF Proc
  <1>2. TypeOK
    <2>1. call \in [Proc -> [lock : Lock, type : LockType]]
      BY <1>1 DEF Init, LockType
    <2>2. waiters \in [Lock -> Seq([proc : Proc, type : LockType])]
      BY DEF Init
    <2>3. num_holders \in [Lock -> 0 .. NumProcs] /\ receiving \in [Proc -> Proc]
      BY <1>1 DEF Init
    <2> QED
      BY <2>1, <2>2, <2>3 DEF Init, TypeOK, PC, LockType
  <1>3. \A p \in Proc, l \in Lock : ~Owns(p, l) /\ Held(l, p) = "NONE"
    BY DEF Init, Owns, Held
  <1>4. ASSUME NEW l \in Lock PROVE QueueOK(l) /\ HoldersOK(l)
    <2>1. waiters[l] = <<>> /\ num_holders[l] = 0
      BY DEF Init
    <2>2. Cardinality(Owners(l)) = 0
      BY <1>3, NoneLeft DEF Owners
    <2>3. 1 .. Len(waiters[l]) = {}
      BY <2>1
    <2> QED
      BY <1>3, <2>1, <2>2, <2>3 DEF QueueOK, HoldersOK
  <1>5. MessagesOK
    BY DEF Init, MessagesOK, Granting
  <1>6. CallsOK
    BY DEF Init, CallsOK, CallOK, Spins
  <1>7. \A l \in Lock : RW(l)!Init
    BY <1>3 DEF RW!Init, Holding
  <1> QED
    BY <1>2, <1>4, <1>5, <1>6, <1>7 DEF IInv, LocksOK

(* Every step keeps the invariant and is a step of the abstract lock.      *)
LEMMA InvNext == IInv /\ [Next]_vars => Kept
  <1> SUFFICES ASSUME IInv, [Next]_vars PROVE Kept
    OBVIOUS
  <1>1. ASSUME NEW p \in Proc, Locks(p) PROVE Kept
    BY <1>1, LockAsked, LockAssumption DEF Locks
  <1>2. ASSUME NEW p \in Proc, Unlocks(p) PROVE Kept
    BY <1>2, UnlockAsked DEF Unlocks
  <1>3. ASSUME NEW p \in Proc, lock_local(p) PROVE Kept
    BY <1>3, LockLocalCases, RequestGranted, RequestQueued
  <1>4. ASSUME NEW p \in Proc, lock_reply_handler(p) PROVE Kept
    BY <1>4, ReplyArrives
  <1>5. ASSUME NEW p \in Proc, grt_lock_returns(p) PROVE Kept
    BY <1>5, LockReturns
  <1>6. ASSUME NEW p \in Proc, unlock_local(p) PROVE Kept
    BY <1>6, LockPassed, LockDropped DEF Passes, Drops
  <1>7. ASSUME NEW p \in Proc, grt_unlock_grants(p) PROVE Kept
    BY <1>7, GrantArrives
  <1>8. CASE UNCHANGED vars
    <2>1. \A l \in Lock, p \in Proc :
            /\ Owns(p, l)' <=> Owns(p, l)
            /\ Mode(p, l)' = Mode(p, l)
            /\ Releases(p, l)' <=> Releases(p, l)
      BY <1>8, QueuedSame DEF vars, Owns, Mode, Releases
    <2>2. \A l \in Lock : SameOwners(l)
      BY <2>1 DEF SameOwners
    <2>3. \A p \in Proc : Undisturbed(p)
      BY <1>8 DEF vars, Undisturbed, Granting
    <2>4. ASSUME NEW l \in Lock PROVE QueueOK(l)' /\ HoldersOK(l)'
      <3>1. /\ waiters'[l] = waiters[l] /\ type'[l] = type[l]
            /\ num_holders'[l] = num_holders[l]
        BY <1>8 DEF vars
      <3>2. \A i \in 1 .. Len(waiters[l]) : Undisturbed(waiters[l][i].proc)
        BY <2>3, EntryQueued
      <3> QED
        BY <2>2, <3>1, <3>2, QueueKept, HoldersKept DEF IInv, LocksOK
    <2>5. TypeOK'
      BY <1>8 DEF vars, IInv, TypeOK
    <2>6. MessagesOK'
      <3>1. /\ replies' = replies /\ replies \subseteq Proc
            /\ \A q \in Proc : Spins(q)' <=> Spins(q)
            /\ \A g, q \in Proc : Granting(g, q)' <=> Granting(g, q)
        BY <1>8 DEF vars, IInv, TypeOK, Spins, Granting
      <3>2. \A q \in replies' : Spins(q)' /\ \A g \in Proc : ~Granting(g, q)'
        BY <3>1 DEF IInv, MessagesOK
      <3>3. \A g, q \in Proc : Granting(g, q)' => Spins(q)'
        BY <3>1 DEF IInv, MessagesOK
      <3>4. \A g, h, q \in Proc : Granting(g, q)' /\ Granting(h, q)' => g = h
        BY <3>1 DEF IInv, MessagesOK
      <3> QED
        BY <3>2, <3>3, <3>4 DEF MessagesOK
    <2>7. CallsOK'
      <3> SUFFICES ASSUME NEW q \in Proc PROVE CallOK(q)'
        BY DEF CallsOK
      <3>1. PICK k \in Lock : call[q].lock = k
        BY CallTyped
      <3>2. /\ call'[q].lock = k /\ (Queued(q, k)' <=> Queued(q, k))
            /\ \A g \in Proc : Granting(g, q)' <=> Granting(g, q)
        BY <1>8, <3>1, QueuedSame DEF vars, Granting
      <3>3. CallOK(q)
        BY DEF IInv, CallsOK
      <3> QED
        BY <1>8, <3>1, <3>2, <3>3 DEF vars, CallOK, Spins
    <2> QED
      BY <2>1, <2>2, <2>4, <2>5, <2>6, <2>7, NobodyMoves DEF Kept, IInv, LocksOK
  <1> QED
    BY <1>1, <1>2, <1>3, <1>4, <1>5, <1>6, <1>7, <1>8 DEF Next, LockStep

(* The inductive invariant.                                                *)
THEOREM Invariant == Spec => []IInv
  <1>1. Init => IInv
    BY InvInit
  <1>2. IInv /\ [Next]_vars => IInv'
    BY InvNext DEF Kept
  <1> QED
    BY <1>1, <1>2, PTL DEF Spec

(* The shape of the state; num_holders never goes beyond its bounds.       *)
THEOREM QueuedLockTypes == Spec => []TypeOK
  <1>1. IInv => TypeOK
    BY DEF IInv
  <1> QED
    BY <1>1, Invariant, PTL

(* num_holders and type say exactly who has the lock, while it is passed   *)
(* on by unlock_local too.                                                 *)
THEOREM QueuedLockHolders == Spec => []HoldersExact
  <1>1. IInv => HoldersExact
    <2> SUFFICES ASSUME IInv, NEW l \in Lock
                 PROVE  /\ num_holders[l] = Cardinality(Owners(l))
                        /\ \A p \in Owners(l) : Mode(p, l) = type[l]
                        /\ type[l] = "WRITE" => num_holders[l] <= 1
      BY DEF HoldersExact
    <2>1. HoldersOK(l)
      BY DEF IInv, LocksOK
    <2>2. Owners(l) \in SUBSET Proc
      BY DEF Owners
    <2>3. ASSUME type[l] = "WRITE" PROVE Cardinality(Owners(l)) <= 1
      <3>1. CASE Owners(l) = {}
        BY <2>2, <3>1, NoneLeft
      <3>2. CASE Owners(l) # {}
        <4>1. PICK p \in Owners(l) : TRUE
          BY <3>2
        <4>2. Owners(l) \ {p} = {}
          BY <2>1, <2>3, <4>1 DEF HoldersOK, Owners
        <4>3. Cardinality(Owners(l) \ {p}) = 0
          BY <4>2, NoneLeft
        <4> QED
          BY <2>2, <4>1, <4>3, OneLess, ProcSets
      <3> QED
        BY <3>1, <3>2
    <2> QED
      BY <2>1, <2>3 DEF HoldersOK, Owners
  <1> QED
    BY <1>1, Invariant, PTL

(* Nobody who spins in grt_lock is forgotten or told twice.                *)
THEOREM QueuedLockWakeup == Spec => []NoLostWakeup
  <1>1. IInv => NoLostWakeup
    <2> SUFFICES ASSUME IInv, NEW p \in Proc, Spins(p), NEW l \in Lock, call[p].lock = l
                 PROVE  IF Queued(p, l)
                        THEN Owners(l) # {} /\ p \notin replies /\ Grantors(p) = {}
                        ELSE \/ p \in replies /\ Grantors(p) = {}
                             \/ p \notin replies /\ Cardinality(Grantors(p)) = 1
      BY CallTyped DEF NoLostWakeup, Spins
    <2>1. CASE Queued(p, l)
      <3>1. p \notin replies /\ Grantors(p) = {}
        BY <2>1, QueuedWaits DEF Grantors, Granting
      <3>2. waiters[l] # <<>>
        BY <2>1 DEF Queued
      <3>3. Cardinality(Owners(l)) # 0
        BY <3>2 DEF IInv, LocksOK, QueueOK, HoldersOK
      <3>4. Owners(l) # {}
        BY <3>3, NoneLeft
      <3> QED
        BY <2>1, <3>1, <3>4
    <2>2. CASE p \in replies
      BY <2>2, QueuedWaits DEF IInv, MessagesOK, Grantors, Granting
    <2>3. CASE ~Queued(p, l) /\ p \notin replies
      <3>1. PICK g \in Proc : Granting(g, p)
        BY <2>3 DEF IInv, CallsOK, CallOK
      <3>2. Grantors(p) = {g}
        BY <3>1 DEF IInv, MessagesOK, Grantors, Granting
      <3> QED
        BY <2>3, <3>2, FS_Singleton
    <2> QED
      BY <2>1, <2>2, <2>3
  <1> QED
    BY <1>1, Invariant, PTL

(* LOCK_REPLY and the write of HELD only reach who spins for them.         *)
THEOREM QueuedLockNoStray == Spec => []NoStrayGrant
  <1>1. IInv => NoStrayGrant
    BY DEF IInv, MessagesOK, NoStrayGrant, Grantors, Granting, Spins
  <1> QED
    BY <1>1, Invariant, PTL

(* grt_lock and grt_unlock implement the abstract reader/writer lock.      *)
THEOREM QueuedLockImplements == Spec => ReaderWriterLock
  <1>1. Init => \A l \in Lock : RW(l)!Init
    BY InvInit
  <1>2. IInv /\ [Next]_vars =>
          [\A l \in Lock : UNCHANGED Holding(l) \/ RW(l)!Next]_vars
    BY InvNext DEF Kept, RWSteps
  <1> QED
    BY <1>1, <1>2, Invariant, PTL DEF Spec, ReaderWriterLock

(* Writers do not overtake who waits: neither lock_local nor unlock_local  *)
(* gives a writer the lock past the queue.                                 *)
THEOREM QueuedLockOrder == Spec => WritersQueue
  <1>1. IInv /\ [Next]_vars =>
          [\A p \in Proc, l \in Lock :
             Owns(p, l)' /\ ~Owns(p, l) /\ call'[p].type = "WRITE" =>
               waiters[l] = <<>> \/ Head(waiters[l]).proc = p]_vars
    BY InvNext DEF Kept, QueueSteps
  <1> QED
    BY <1>1, Invariant, PTL DEF Spec, WritersQueue
=============================================================================

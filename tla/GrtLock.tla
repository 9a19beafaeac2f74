------------------------------ MODULE GrtLock ------------------------------
(***************************************************************************)
(* The software queued lock of src/Implementation/grt/grt.c (grt_lock and  *)
(* grt_unlock): a lock lives on one node, which serves every processor's   *)
(* lock and unlock requests inside lock_lock; a processor that must wait   *)
(* is queued there and spins on a variable of its own until somebody       *)
(* writes HELD to it - the lock's node, by a reply, or the processor that  *)
(* releases the lock, which the unlock request told whom to wake.          *)
(*                                                                         *)
(* A processor's request to another node and that node's handler for it    *)
(* are one step (pc says that it is due): the processor blocks meanwhile.  *)
(* Only the messages that set another processor's variable are apart:      *)
(* LOCK_REPLY (replies) and the grt_write of a release (pc "granting").    *)
(***************************************************************************)
EXTENDS Integers, Sequences, FiniteSets

CONSTANTS
  NumProcs,   \* grt_num_procs
  Lock,       \* the locks, by address
  HomeOf,     \* the node each lock lives on
  Types,      \* the types clients ask for: READ, WRITE
  MaxHeld     \* bound on the locks one client holds at a time

Proc == 0 .. NumProcs - 1
LockType == {"READ", "WRITE"}

ASSUME LockAssumption ==
  /\ NumProcs \in Nat \ {0}
  /\ Lock \subseteq Nat /\ Lock # {}
  /\ HomeOf \in [Lock -> Proc]
  /\ Types \subseteq LockType
  /\ MaxHeld \in Nat \ {0}

VARIABLES
  num_holders,  \* the fields of each lock ...
  type,
  waiters,      \* ... waiters as a sequence of [proc, type]
  state,        \* the variable each processor spins on
  pc,           \* where the thread of each processor is
  call,         \* the arguments of its grt_lock or grt_unlock
  receiving,    \* the processor its grt_unlock has to wake
  replies,      \* processors a LOCK_REPLY is on its way to
  holds         \* client's view: the locks each processor holds, and how

lockVars == <<num_holders, type, waiters>>
vars == <<num_holders, type, waiters, state, pc, call, receiving, replies, holds>>

PC == {"run", "locking", "waiting", "unlocking", "granting"}

TypeOK ==
  /\ num_holders \in [Lock -> 0 .. NumProcs]
  /\ type \in [Lock -> LockType]
  /\ waiters \in [Lock -> Seq([proc : Proc, type : LockType])]
  /\ state \in [Proc -> {"FREE", "HELD", "WAITING"}]
  /\ pc \in [Proc -> PC]
  /\ call \in [Proc -> [lock : Lock, type : LockType]]
  /\ receiving \in [Proc -> Proc]
  /\ replies \in SUBSET Proc
  /\ holds \in [Proc -> [Lock -> {"NONE"} \cup LockType]]

Init ==
  /\ num_holders = [l \in Lock |-> 0]
  /\ type = [l \in Lock |-> "READ"]
  /\ waiters = [l \in Lock |-> <<>>]
  /\ state = [p \in Proc |-> "FREE"]
  /\ pc = [p \in Proc |-> "run"]
  /\ call = [p \in Proc |-> [lock |-> CHOOSE l \in Lock : TRUE, type |-> "READ"]]
  /\ receiving = [p \in Proc |-> 0]
  /\ replies = {}
  /\ holds = [p \in Proc |-> [l \in Lock |-> "NONE"]]

-----------------------------------------------------------------------------
(* grt_lock                                                                *)

grt_lock(p, l, t) ==
  /\ pc[p] = "run" /\ holds[p][l] = "NONE"
  /\ state' = [state EXCEPT ![p] = "WAITING"]
  /\ call' = [call EXCEPT ![p] = [lock |-> l, type |-> t]]
  /\ pc' = [pc EXCEPT ![p] = "locking"]
  /\ UNCHANGED <<lockVars, receiving, replies, holds>>

(* Mutated forms of Grantable: the type of the holders, or of the request, *)
(* is not looked at.                                                       *)
Grantable_anyHolder(l, t) == num_holders[l] = 0 \/ t = "READ"
Grantable_anyRequest(l, t) == num_holders[l] = 0 \/ type[l] = "READ"

Grantable(l, t) ==
  num_holders[l] = 0 \/ (type[l] = "READ" /\ t = "READ")

(* Mutated form of grt_list_append: to the head of the list.               *)
grt_list_append_first(list, waiter) == <<waiter>> \o list

grt_list_append(list, waiter) == Append(list, waiter)

(* lock_local, called by grt_lock itself on the lock's node and else by    *)
(* lock_handler, whose reply tells p that it holds the lock.               *)
lock_local(p) ==
  LET l == call[p].lock
      t == call[p].type IN
  /\ pc[p] = "locking"
  /\ pc' = [pc EXCEPT ![p] = "waiting"]
  /\ \/ /\ Grantable(l, t)
        /\ num_holders' = [num_holders EXCEPT ![l] = @ + 1]
        /\ type' = [type EXCEPT ![l] = t]
        /\ IF HomeOf[l] = p
           THEN state' = [state EXCEPT ![p] = "HELD"] /\ UNCHANGED replies
           ELSE replies' = replies \cup {p} /\ UNCHANGED state
        /\ UNCHANGED waiters
     \/ /\ ~Grantable(l, t)
        /\ waiters' = [waiters EXCEPT ![l] =
                        grt_list_append(@, [proc |-> p, type |-> t])]
        /\ UNCHANGED <<num_holders, type, state, replies>>
  /\ UNCHANGED <<call, receiving, holds>>

lock_reply_handler(p) ==
  /\ p \in replies
  /\ state' = [state EXCEPT ![p] = "HELD"]
  /\ replies' = replies \ {p}
  /\ UNCHANGED <<lockVars, pc, call, receiving, holds>>

(* Mutated form of grt_lock_returns: it does not spin.                     *)
grt_lock_returns_early(p) ==
  /\ pc[p] = "waiting"
  /\ pc' = [pc EXCEPT ![p] = "run"]
  /\ holds' = [holds EXCEPT ![p][call[p].lock] = call[p].type]
  /\ UNCHANGED <<lockVars, state, call, receiving, replies>>

(* The end of GASNET_BLOCKUNTIL: state is no longer WAITING.              *)
grt_lock_returns(p) ==
  /\ pc[p] = "waiting" /\ state[p] # "WAITING"
  /\ pc' = [pc EXCEPT ![p] = "run"]
  /\ holds' = [holds EXCEPT ![p][call[p].lock] = call[p].type]
  /\ UNCHANGED <<lockVars, state, call, receiving, replies>>

-----------------------------------------------------------------------------
(* grt_unlock                                                              *)

grt_unlock(p, l) ==
  /\ pc[p] = "run" /\ holds[p][l] # "NONE"
  /\ holds' = [holds EXCEPT ![p][l] = "NONE"]
  /\ call' = [call EXCEPT ![p] = [lock |-> l, type |-> holds[p][l]]]
  /\ pc' = [pc EXCEPT ![p] = "unlocking"]
  /\ UNCHANGED <<lockVars, state, receiving, replies>>

(* Mutated forms of PassesOn: the lock is only passed on to readers; it is *)
(* passed on to a writer while other readers hold it.                      *)
PassesOn_readers(l) == waiters[l] # <<>> /\ Head(waiters[l]).type = "READ"
PassesOn_always(l) == waiters[l] # <<>>

(* The holder that releases l gives its hold to the first waiter: if it is *)
(* the last holder, or if that waiter is a reader.                         *)
PassesOn(l) ==
  /\ waiters[l] # <<>>
  /\ num_holders[l] = 1 \/ Head(waiters[l]).type = "READ"

(* Mutated form of unlock_local: the hold is given up as well as passed on. *)
unlock_local_twice(p) ==
  LET l == call[p].lock IN
  /\ pc[p] = "unlocking"
  /\ num_holders' = [num_holders EXCEPT ![l] = @ - 1]
  /\ \/ /\ PassesOn(l)
        /\ waiters' = [waiters EXCEPT ![l] = Tail(@)]
        /\ type' = [type EXCEPT ![l] = Head(waiters[l]).type]
        /\ receiving' = [receiving EXCEPT ![p] = Head(waiters[l]).proc]
        /\ pc' = [pc EXCEPT ![p] = "granting"]
     \/ /\ ~PassesOn(l)
        /\ pc' = [pc EXCEPT ![p] = "run"]
        /\ UNCHANGED <<type, waiters, receiving>>
  /\ UNCHANGED <<state, call, replies, holds>>

(* unlock_local, directly or by unlock_handler and its reply.              *)
unlock_local(p) ==
  LET l == call[p].lock IN
  /\ pc[p] = "unlocking"
  /\ \/ /\ PassesOn(l)
        /\ waiters' = [waiters EXCEPT ![l] = Tail(@)]
        /\ type' = [type EXCEPT ![l] = Head(waiters[l]).type]
        /\ receiving' = [receiving EXCEPT ![p] = Head(waiters[l]).proc]
        /\ pc' = [pc EXCEPT ![p] = "granting"]
        /\ UNCHANGED num_holders
     \/ /\ ~PassesOn(l)
        /\ num_holders' = [num_holders EXCEPT ![l] = @ - 1]
        /\ pc' = [pc EXCEPT ![p] = "run"]
        /\ UNCHANGED <<type, waiters, receiving>>
  /\ UNCHANGED <<state, call, replies, holds>>

(* grt_write(receiving_proc, HELD, receiving_state)                        *)
grt_unlock_grants(p) ==
  /\ pc[p] = "granting"
  /\ state' = [state EXCEPT ![receiving[p]] = "HELD"]
  /\ pc' = [pc EXCEPT ![p] = "run"]
  /\ UNCHANGED <<lockVars, call, receiving, replies, holds>>

-----------------------------------------------------------------------------
HeldBy(p) == { l \in Lock : holds[p][l] # "NONE" }

(* Clients take locks in the order of their addresses, never twice.        *)
Locks(p) ==
  \E l \in Lock, t \in Types :
    /\ Cardinality(HeldBy(p)) < MaxHeld
    /\ \A k \in HeldBy(p) : k < l
    /\ grt_lock(p, l, t)

Unlocks(p) == \E l \in Lock : grt_unlock(p, l)

LockStep(p) ==
  \/ lock_local(p)
  \/ lock_reply_handler(p)
  \/ grt_lock_returns(p)
  \/ unlock_local(p)
  \/ grt_unlock_grants(p)

Next == \E p \in Proc : Locks(p) \/ Unlocks(p) \/ LockStep(p)

Spec == Init /\ [][Next]_vars

(* Handlers and library code keep running, and a client that holds a lock  *)
(* releases one in the end; nobody has to ask for one.                     *)
FairSpec == Spec /\ \A p \in Proc : WF_vars(LockStep(p)) /\ WF_vars(Unlocks(p))

-----------------------------------------------------------------------------
Queued(p, l) == \E i \in 1 .. Len(waiters[l]) : waiters[l][i].proc = p

(* p has been given l: it holds it, is about to learn that it does, or has *)
(* asked for its release.                                                  *)
Owns(p, l) ==
  \/ holds[p][l] # "NONE"
  \/ /\ call[p].lock = l
     /\ pc[p] = "unlocking" \/ (pc[p] = "waiting" /\ ~Queued(p, l))

Owners(l) == { p \in Proc : Owns(p, l) }

(* The type p owns l by.                                                   *)
Mode(p, l) == IF holds[p][l] # "NONE" THEN holds[p][l] ELSE call[p].type

(* The lock is a reader/writer lock, for each client from the moment it is *)
(* granted to the moment the client asks for its release: while a request  *)
(* waits in the queue, is passed on by a releaser, or is granted by a      *)
(* message on its way, nobody else owns the lock by a conflicting type.    *)
Releases(p, l) == pc[p] = "unlocking" /\ call[p].lock = l
Held(l, p) ==
  IF Owns(p, l) /\ ~Releases(p, l) THEN Mode(p, l) ELSE "NONE"
Holding(l) == [p \in Proc |-> Held(l, p)]
RW(l) == INSTANCE RWLock WITH held <- Holding(l)

(* RW(l)!Spec for every lock l, in the form TLC checks.                    *)
ReaderWriterLock ==
  /\ \A l \in Lock : RW(l)!Init
  /\ [][\A l \in Lock : UNCHANGED Holding(l) \/ RW(l)!Next]_vars

(* num_holders counts the owners, and type is how all of them own it, also *)
(* while the lock is in flight from one holder to the next.                *)
HoldersExact ==
  \A l \in Lock :
    /\ num_holders[l] = Cardinality(Owners(l))
    /\ \A p \in Owners(l) : Mode(p, l) = type[l]
    /\ type[l] = "WRITE" => num_holders[l] <= 1

Grantors(q) == { p \in Proc : pc[p] = "granting" /\ receiving[p] = q }

(* Nobody is forgotten: whoever spins is in the queue of a lock that has   *)
(* an owner to release it, or exactly one message is about to set it free. *)
NoLostWakeup ==
  \A p \in Proc :
    pc[p] = "waiting" /\ state[p] = "WAITING" =>
      LET l == call[p].lock IN
      IF Queued(p, l) THEN Owners(l) # {} /\ p \notin replies /\ Grantors(p) = {}
      ELSE \/ p \in replies /\ Grantors(p) = {}
           \/ p \notin replies /\ Cardinality(Grantors(p)) = 1

(* HELD is never written to a variable whose owner has stopped spinning on *)
(* it (it may be spinning on it for another lock by then).                 *)
NoStrayGrant ==
  \A p \in Proc :
    p \in replies \/ Grantors(p) # {} =>
      pc[p] = "waiting" /\ state[p] = "WAITING"

(* A writer comes to own a lock only when no request is before its own in  *)
(* the queue: writers do not overtake.                                     *)
WritersQueue ==
  [][\A p \in Proc, l \in Lock :
       Owns(p, l)' /\ ~Owns(p, l) /\ call'[p].type = "WRITE" =>
         waiters[l] = <<>> \/ Head(waiters[l]).proc = p]_vars

(* Every request for a lock is granted in the end, unless readers hold the *)
(* lock without a break: they join past a waiting writer.                  *)
EveryRequestGranted ==
  \A l \in Lock :
    []<>(num_holders[l] = 0 \/ type[l] = "WRITE") =>
      \A p \in Proc :
        pc[p] = "locking" /\ call[p].lock = l ~> holds[p][l] # "NONE"
=============================================================================

----------------------------- MODULE GrtNewLock -----------------------------
(***************************************************************************)
(* The reader/writer lock of src/Implementation/grt/grt.c over two GASNet  *)
(* handler-safe locks (grt_new_lock and grt_new_unlock).  A lock is held   *)
(* for writing by whoever holds its write_hsl; the first reader takes      *)
(* write_hsl for all, the last gives it back, and read_hsl guards their    *)
(* count.  An HSL is a flag that one agent may set and another clear.      *)
(*                                                                         *)
(* All locks live on Home.  Its own client blocks in new_lock_local; the   *)
(* requests of the others are tried by new_trylock_local in the handler,   *)
(* which must not block, and handed to the pool when that fails.  Handlers *)
(* do block on read_hsl, in new_unlock_local.                              *)
(*                                                                         *)
(* What an agent does between taking an HSL and its next HSL operation is  *)
(* one step: the fields it touches are guarded by what it holds.  The one  *)
(* field read without a lock, type in new_unlock_local, is read in a step  *)
(* of its own.                                                             *)
(***************************************************************************)
EXTENDS GrtOn

CONSTANT Lock

LockType == {"READ", "WRITE"}

LockJob ==
  [src : Proc, op : {"lock", "unlock"}, lock : Lock, type : LockType]
OnJob == [src : Proc, op : {"on", "on_pthread"}]

ASSUME LockAssumption == Job \subseteq LockJob \cup OnJob /\ Lock # {}

VARIABLES
  num_readers,  \* the fields of each lock:
  type,         \*
  read_hsl,     \* the agent that has it, or None,
  write_hsl,    \* whether it is locked
  held          \* how each processor holds each lock

lockVars == <<num_readers, type, read_hsl, write_hsl, held>>
vars == <<onVars, lockVars>>

LockPC == {"readers", "try_readers", "unread", "leave"}
HomePC == {"run", "lock", "unlock"}

TypeOK ==
  /\ state \in [Proc -> {"PENDING", "DONE"}]
  /\ requests \subseteq Job
  /\ pc \in [Agent -> HomePC \cup HandlerPC \cup ThreadPC \cup LockPC]
  /\ arg \in [Agent -> Job \cup {NoJob}]
  /\ waking \in [Handler -> Thread \cup {None}]
  /\ proceed \in [Thread -> BOOLEAN]
  /\ thread_list \in Seq(Thread)
  /\ num_readers \in [Lock -> 0 .. Cardinality(Proc)]
  /\ type \in [Lock -> LockType]
  /\ read_hsl \in [Lock -> Agent \cup {None}]
  /\ write_hsl \in [Lock -> BOOLEAN]
  /\ held \in [Lock -> [Proc -> {"NONE"} \cup LockType]]

(* The locks as new_lock_alloc_local leaves them.                          *)
Init ==
  /\ OnInit
  /\ num_readers = [l \in Lock |-> 0]
  /\ type = [l \in Lock |-> "READ"]
  /\ read_hsl = [l \in Lock |-> None]
  /\ write_hsl = [l \in Lock |-> FALSE]
  /\ held = [l \in Lock |-> [p \in Proc |-> "NONE"]]

-----------------------------------------------------------------------------
TakeReadHsl(a, l) ==
  /\ read_hsl[l] = None
  /\ read_hsl' = [read_hsl EXCEPT ![l] = a]

(* Agent a, which has read_hsl, counts its caller as a reader.             *)
JoinReaders(a) ==
  LET l == arg[a].lock IN
  /\ num_readers' = [num_readers EXCEPT ![l] = @ + 1]
  /\ type' = [type EXCEPT ![l] = "READ"]
  /\ write_hsl' = [write_hsl EXCEPT ![l] = TRUE]
  /\ read_hsl' = [read_hsl EXCEPT ![l] = None]
  /\ held' = [held EXCEPT ![l][arg[a].src] = "READ"]

(* Mutated form of LockForWriting: type is left as it was.                 *)
LockForWriting_untyped(j) ==
  /\ write_hsl' = [write_hsl EXCEPT ![j.lock] = TRUE]
  /\ held' = [held EXCEPT ![j.lock][j.src] = "WRITE"]
  /\ UNCHANGED <<num_readers, type, read_hsl>>

(* Call j takes write_hsl.                                                 *)
LockForWriting(j) ==
  /\ write_hsl' = [write_hsl EXCEPT ![j.lock] = TRUE]
  /\ type' = [type EXCEPT ![j.lock] = "WRITE"]
  /\ held' = [held EXCEPT ![j.lock][j.src] = "WRITE"]
  /\ UNCHANGED <<num_readers, read_hsl>>

-----------------------------------------------------------------------------
(* new_trylock_local and the rest of new_lock_handler                      *)

(* A write request is served at once, or handed to the pool.               *)
trylock_write(h, j) ==
  /\ j.op = "lock" /\ j.type = "WRITE"
  /\ \/ /\ ~write_hsl[j.lock]
        /\ grt_on_handler_work(h, j)
        /\ LockForWriting(j)
     \/ /\ write_hsl[j.lock]
        /\ Receive(h, j) /\ HandOff(h, j)
        /\ UNCHANGED <<state, lockVars>>

trylock_read(h, j) ==
  /\ j.op = "lock" /\ j.type = "READ"
  /\ \/ /\ TakeReadHsl(h, j.lock)
        /\ StartsWork(h, j, "try_readers")
        /\ UNCHANGED <<num_readers, type, write_hsl, held>>
     \/ /\ read_hsl[j.lock] # None
        /\ Receive(h, j) /\ HandOff(h, j)
        /\ UNCHANGED <<state, lockVars>>

(* Mutated forms of CanJoin: the first reader does not try write_hsl; all  *)
(* readers do.                                                             *)
CanJoin_always(l) == TRUE
CanJoin_first(l) == ~write_hsl[l]

CanJoin(l) == num_readers[l] # 0 \/ ~write_hsl[l]

(* Mutated form of trylock_readers: it fails with read_hsl still locked.   *)
trylock_readers_keep(h) ==
  LET l == arg[h].lock IN
  /\ pc[h] = "try_readers"
  /\ \/ CanJoin(l) /\ JoinReaders(h) /\ Reply(h)
     \/ /\ ~CanJoin(l)
        /\ HandOff(h, arg[h])
        /\ UNCHANGED <<state, requests, lockVars>>

(* With read_hsl, the handler tries write_hsl if there is no reader yet.   *)
trylock_readers(h) ==
  LET l == arg[h].lock IN
  /\ pc[h] = "try_readers"
  /\ \/ CanJoin(l) /\ JoinReaders(h) /\ Reply(h)
     \/ /\ ~CanJoin(l)
        /\ read_hsl' = [read_hsl EXCEPT ![l] = None]
        /\ HandOff(h, arg[h])
        /\ UNCHANGED <<state, requests, num_readers, type, write_hsl, held>>

-----------------------------------------------------------------------------
(* new_lock_local, in a pool thread or for the client of Home              *)

Locking(a) ==
  /\ arg[a].op = "lock"
  /\ \/ a = Home /\ pc[a] = "lock"
     \/ a \in Thread /\ pc[a] = "job"

lock_write(a) ==
  /\ Locking(a) /\ arg[a].type = "WRITE"
  /\ ~write_hsl[arg[a].lock]
  /\ LockForWriting(arg[a])
  /\ Reply(a)

lock_read(a) ==
  /\ Locking(a) /\ arg[a].type = "READ"
  /\ TakeReadHsl(a, arg[a].lock)
  /\ pc' = [pc EXCEPT ![a] = "readers"]
  /\ UNCHANGED <<state, requests, arg, poolVars>>
  /\ UNCHANGED <<num_readers, type, write_hsl, held>>

(* With read_hsl, the first reader waits for write_hsl.                    *)
lock_readers(a) ==
  /\ pc[a] = "readers"
  /\ CanJoin(arg[a].lock)
  /\ JoinReaders(a)
  /\ Reply(a)

-----------------------------------------------------------------------------
(* new_unlock_local, in a handler or for the client of Home                *)

UnlockForWriting(j) ==
  /\ write_hsl' = [write_hsl EXCEPT ![j.lock] = FALSE]
  /\ held' = [held EXCEPT ![j.lock][j.src] = "NONE"]
  /\ UNCHANGED <<num_readers, type, read_hsl>>

(* The request, and the look at type.                                      *)
new_unlock_handler(h, j) ==
  /\ j.op = "unlock"
  /\ \/ /\ type[j.lock] = "WRITE"
        /\ grt_on_handler_work(h, j)
        /\ UnlockForWriting(j)
     \/ /\ type[j.lock] = "READ"
        /\ StartsWork(h, j, "unread")
        /\ UNCHANGED lockVars

new_unlock_home ==
  /\ pc[Home] = "unlock"
  /\ \/ /\ type[arg[Home].lock] = "WRITE"
        /\ UnlockForWriting(arg[Home])
        /\ Reply(Home)
     \/ /\ type[arg[Home].lock] = "READ"
        /\ pc' = [pc EXCEPT ![Home] = "unread"]
        /\ UNCHANGED <<state, requests, arg, poolVars, lockVars>>

unlock_read(a) ==
  /\ pc[a] = "unread"
  /\ TakeReadHsl(a, arg[a].lock)
  /\ pc' = [pc EXCEPT ![a] = "leave"]
  /\ UNCHANGED <<state, requests, arg, poolVars>>
  /\ UNCHANGED <<num_readers, type, write_hsl, held>>

(* Mutated form of unlock_leave: any reader that leaves unlocks write_hsl. *)
unlock_leave_all(a) ==
  LET l == arg[a].lock IN
  /\ pc[a] = "leave"
  /\ num_readers' = [num_readers EXCEPT ![l] = @ - 1]
  /\ write_hsl' = [write_hsl EXCEPT ![l] = FALSE]
  /\ read_hsl' = [read_hsl EXCEPT ![l] = None]
  /\ held' = [held EXCEPT ![l][arg[a].src] = "NONE"]
  /\ UNCHANGED type
  /\ Reply(a)

(* With read_hsl, the last reader to leave gives write_hsl back.           *)
unlock_leave(a) ==
  LET l == arg[a].lock IN
  /\ pc[a] = "leave"
  /\ num_readers' = [num_readers EXCEPT ![l] = @ - 1]
  /\ write_hsl' = [write_hsl EXCEPT ![l] = num_readers[l] # 1]
  /\ read_hsl' = [read_hsl EXCEPT ![l] = None]
  /\ held' = [held EXCEPT ![l][arg[a].src] = "NONE"]
  /\ UNCHANGED type
  /\ Reply(a)

-----------------------------------------------------------------------------
(* Clients hold one lock at a time; a call on Home that only runs code     *)
(* there changes nothing.                                                  *)
Holds(p) == { l \in Lock : held[l][p] # "NONE" }

Locks(j) ==
  /\ j.op = "lock" /\ Holds(j.src) = {}
  /\ Invoke(j, "lock")

Unlocks(j) ==
  /\ j.op = "unlock" /\ held[j.lock][j.src] = j.type
  /\ Invoke(j, "unlock")

Calls(j) == j.op \in {"on", "on_pthread"} /\ j.src # Home /\ Invoke(j, "run")

ClientStep(j) == (Locks(j) \/ Unlocks(j) \/ Calls(j)) /\ UNCHANGED lockVars

(* Calls of other code, which needs no lock.                               *)
on_handler(h, j) ==
  /\ \/ j.op = "on" /\ grt_on_handler_work(h, j)
     \/ j.op = "on_pthread" /\ Receive(h, j) /\ HandOff(h, j) /\ UNCHANGED state
  /\ UNCHANGED lockVars

on_thread(t) ==
  /\ pc[t] = "job" /\ arg[t].op = "on_pthread"
  /\ Reply(t)
  /\ UNCHANGED lockVars

Serves(h, j) ==
  \/ trylock_write(h, j)
  \/ trylock_read(h, j)
  \/ new_unlock_handler(h, j)
  \/ on_handler(h, j)

LockStep(a) ==
  \/ lock_write(a)
  \/ lock_read(a)
  \/ lock_readers(a)
  \/ unlock_read(a)
  \/ unlock_leave(a)

Next ==
  \/ \E j \in Job : ClientStep(j)
  \/ \E h \in Handler, j \in requests : Serves(h, j)
  \/ \E h \in Handler : trylock_readers(h)
  \/ \E a \in Agent : LockStep(a)
  \/ new_unlock_home
  \/ \E t \in Thread : on_thread(t)
  \/ PoolNext /\ UNCHANGED lockVars

Spec == Init /\ [][Next]_vars

-----------------------------------------------------------------------------
(* The lock is a reader/writer lock, from the moment new_lock_local or     *)
(* new_trylock_local has the HSLs to the moment new_unlock_local is done   *)
(* with them.                                                              *)
RW(l) == INSTANCE RWLock WITH held <- held[l]

(* RW(l)!Spec for every lock l, in the form TLC checks.                    *)
ReaderWriterLock ==
  /\ \A l \in Lock : RW(l)!Init
  /\ [][\A l \in Lock : UNCHANGED held[l] \/ RW(l)!Next]_vars

Readers(l) == { p \in Proc : held[l][p] = "READ" }

(* num_readers counts the holders for reading, write_hsl is locked exactly *)
(* while there is a holder, and read_hsl is left locked by nobody who has  *)
(* gone on (new_trylock_local gives up in two places).                     *)
HslsExact ==
  \A l \in Lock :
    /\ num_readers[l] = Cardinality(Readers(l))
    /\ write_hsl[l] <=> (\E p \in Proc : held[l][p] # "NONE")
    /\ read_hsl[l] # None =>
         /\ pc[read_hsl[l]] \in {"readers", "try_readers", "leave"}
         /\ arg[read_hsl[l]].lock = l

(* new_unlock_local reads type with no lock held: it is how the lock is    *)
(* held, also by the caller, while others come and go.                     *)
TypeNamesMode ==
  \A l \in Lock, p \in Proc : held[l][p] # "NONE" => type[l] = held[l][p]

(* new_unlock_local may wait for read_hsl inside a handler, but never for  *)
(* an agent that waits for write_hsl: that agent may need a release that   *)
(* only a handler can bring.                                               *)
HandlerNeverStuck ==
  \A a \in Agent :
    pc[a] = "unread" =>
      LET l == arg[a].lock IN
      read_hsl[l] # None => pc[read_hsl[l]] # "readers" \/ CanJoin(l)
=============================================================================

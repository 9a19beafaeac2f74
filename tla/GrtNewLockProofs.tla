-------------------------- MODULE GrtNewLockProofs --------------------------
(***************************************************************************)
(* Theorems about GrtOn and GrtNewLock, for every number of processors,    *)
(* locks, polling threads and pool threads.                                *)
(*                                                                         *)
(* The invariant has four parts.  Pool says what the hand-off and the list *)
(* of idle threads guarantee; with it InFlight says that a processor's     *)
(* call is in one place.  So nobody else changes how the caller holds its  *)
(* lock while an agent works on the call (CallsOK), and the fields of a    *)
(* lock say how it is held (LocksOK).                                      *)
(***************************************************************************)
EXTENDS GrtNewLock, FiniteSetTheorems, TLAPS

HandlerWork == {"try_readers", "unread", "leave"}
Idle == {"check", "block", "waiting"}

(* Which code each kind of agent may be in.                                *)
Places ==
  /\ pc[Home] \in HomePC \cup {"readers", "unread", "leave"}
  /\ \A h \in Handler :
       /\ pc[h] \in HandlerPC \cup HandlerWork
       /\ pc[h] \in {"proceed", "signal", "test"} => waking[h] \in Thread
  /\ \A t \in Thread : pc[t] \in ThreadPC \cup {"readers"}

Waker(h, t) == pc[h] = "proceed" /\ waking[h] = t

OneEach ==
  \A i, j \in 1 .. Len(thread_list) : thread_list[i] = thread_list[j] => i = j

(* A pool thread is given one call at a time, when it is idle.             *)
Pool ==
  /\ Places
  /\ OneEach
  /\ \A t \in Thread :
       /\ proceed[t] => pc[t] \in Idle
       /\ Listed(t) => ~proceed[t] /\ pc[t] \in Idle
       /\ \A h \in Handler : Waker(h, t) =>
            /\ ~proceed[t] /\ pc[t] \in Idle /\ ~Listed(t)
            /\ \A g \in Handler : Waker(g, t) => g = h
  /\ NoLostWakeup

(* Agent a has a call to serve.                                            *)
Busy(a) ==
  \/ a = Home /\ pc[a] # "run"
  \/ a \in Handler /\ pc[a] \notin HandlerPC
  \/ a \in Thread /\ \/ pc[a] \notin ThreadPC \/ pc[a] = "job" \/ proceed[a]
                     \/ \E h \in Handler : Waker(h, a)

(* The call of a processor is in one place, and only while it is PENDING.  *)
InFlight ==
  /\ \A j \in requests : state[j.src] = "PENDING"
  /\ \A a \in Agent : Busy(a) => state[arg[a].src] = "PENDING" /\ arg[a] \in Job
  /\ \A i, j \in requests : i.src = j.src => i = j
  /\ \A j \in requests, a \in Agent : Busy(a) => arg[a].src # j.src
  /\ \A a, b \in Agent : Busy(a) /\ Busy(b) /\ arg[a].src = arg[b].src => a = b
  /\ \A p \in Proc : state[p] = "PENDING" =>
       \/ \E j \in requests : j.src = p
       \/ \E a \in Agent : Busy(a) /\ arg[a].src = p

(* The client of Home works on its own calls.                              *)
OwnCall == pc[Home] # "run" => arg[Home].src = Home

(* A call finds its lock as the caller has left it.                        *)
CallOK(j) ==
  /\ j.op = "lock" => \A l \in Lock : held[l][j.src] = "NONE"
  /\ j.op = "unlock" => held[j.lock][j.src] = j.type

(* Where an agent is in its code fits the call it works on.                *)
ErrandOK(a) ==
  /\ pc[a] \in {"lock", "try_readers", "readers"} => arg[a].op = "lock"
  /\ pc[a] \in {"try_readers", "readers"} => arg[a].type = "READ"
  /\ pc[a] \in {"unlock", "unread", "leave"} => arg[a].op = "unlock"
  /\ pc[a] \in {"unread", "leave"} => arg[a].type = "READ"

CallsOK ==
  /\ \A j \in requests : CallOK(j)
  /\ \A a \in Agent : Busy(a) => CallOK(arg[a])

Errands == \A a \in Agent : ErrandOK(a)

(* One lock: its fields say how it is held, and a writer is alone.         *)
LockOK(l) ==
  /\ num_readers[l] = Cardinality(Readers(l))
  /\ write_hsl[l] <=> \E p \in Proc : held[l][p] # "NONE"
  /\ \A p \in Proc : held[l][p] # "NONE" => type[l] = held[l][p]
  /\ \A p, q \in Proc : held[l][p] = "WRITE" /\ held[l][q] # "NONE" => p = q

ReadHslOK ==
  \A l \in Lock :
    read_hsl[l] # None =>
      /\ read_hsl[l] \in Agent
      /\ pc[read_hsl[l]] \in {"readers", "try_readers", "leave"}
      /\ arg[read_hsl[l]].lock = l

LocksOK == \A l \in Lock : LockOK(l)

IInv ==
  /\ TypeOK /\ Pool /\ InFlight /\ OwnCall /\ CallsOK /\ Errands
  /\ LocksOK /\ ReadHslOK

OnTypes ==
  /\ state \in [Proc -> {"PENDING", "DONE"}]
  /\ requests \subseteq Job
  /\ pc \in [Agent -> HomePC \cup HandlerPC \cup ThreadPC \cup LockPC]
  /\ arg \in [Agent -> Job \cup {NoJob}]
  /\ waking \in [Handler -> Thread \cup {None}]
  /\ proceed \in [Thread -> BOOLEAN]
  /\ thread_list \in Seq(Thread)

LockTypes ==
  /\ num_readers \in [Lock -> 0 .. Cardinality(Proc)]
  /\ type \in [Lock -> LockType]
  /\ read_hsl \in [Lock -> Agent \cup {None}]
  /\ write_hsl \in [Lock -> BOOLEAN]
  /\ held \in [Lock -> [Proc -> {"NONE"} \cup LockType]]

LEMMA TypeParts == TypeOK <=> OnTypes /\ LockTypes
  BY DEF TypeOK, OnTypes, LockTypes

LEMMA Agents ==
  /\ Home \in Agent /\ Handler \subseteq Agent /\ Thread \subseteq Agent
  /\ Home \notin Handler /\ Home \notin Thread
  /\ \A h \in Handler : h \notin Thread
  BY AgentAssumption DEF Agent

-----------------------------------------------------------------------------
(* The pool.  First what the list of idle threads does, then, for each     *)
(* step of the hand-off and of thread_work, that it keeps Pool.            *)

LEMMA ListRemoved ==
  ASSUME thread_list \in Seq(Thread), OneEach, thread_list # <<>>,
         thread_list' = linkedlist_remove(thread_list)
  PROVE  /\ thread_list' \in Seq(Thread)
         /\ Head(thread_list) \in Thread
         /\ Listed(Head(thread_list))
         /\ OneEach'
         /\ \A t : Listed(t)' => Listed(t) /\ t # Head(thread_list)
  BY DEF OneEach, Listed, linkedlist_remove

LEMMA ListAdded ==
  ASSUME thread_list \in Seq(Thread), OneEach, NEW t \in Thread, ~Listed(t),
         thread_list' = linkedlist_add(thread_list, t)
  PROVE  /\ thread_list' \in Seq(Thread)
         /\ OneEach'
         /\ \A u : Listed(u)' => Listed(u) \/ u = t
  BY DEF OneEach, Listed, linkedlist_add

LEMMA ListKept ==
  ASSUME UNCHANGED thread_list
  PROVE  OneEach' = OneEach /\ \A t : Listed(t)' = Listed(t)
  BY DEF OneEach, Listed

LEMMA PoolSetProceed ==
  ASSUME OnTypes, Pool, NEW h \in Handler, SetProceed(h)
  PROVE  OnTypes' /\ Pool'
  <1>1. /\ pc[h] = "proceed" /\ h \in Agent /\ waking[h] \in Thread
        /\ pc' = [pc EXCEPT ![h] = "signal"]
        /\ proceed' = [proceed EXCEPT ![waking[h]] = TRUE]
        /\ UNCHANGED <<state, requests, arg, waking, thread_list>>
    BY Agents DEF SetProceed, Pool, Places
  <1>2. \A u \in Thread : pc'[u] = pc[u]
    BY <1>1, Agents DEF OnTypes
  <1>3. OnTypes'
    BY <1>1 DEF OnTypes, HandlerPC
  <1>4. Places' /\ OneEach'
    BY <1>1, <1>2, Agents, ListKept
    DEF OnTypes, Pool, Places, ThreadPC, HandlerPC, HomePC
  <1>5. NoLostWakeup'
    BY <1>1, <1>2, Agents DEF OnTypes, Pool, NoLostWakeup
  <1>6. \A u \in Thread : proceed'[u] => pc'[u] \in Idle
    BY <1>1, <1>2, Agents DEF OnTypes, Pool, Idle, Waker
  <1>7. \A u \in Thread : Listed(u)' => ~proceed'[u] /\ pc'[u] \in Idle
    BY <1>1, <1>2, ListKept, Agents DEF OnTypes, Pool, Idle, Waker
  <1>8. \A u \in Thread, g \in Handler : Waker(g, u)' =>
          /\ ~proceed'[u] /\ pc'[u] \in Idle /\ ~Listed(u)'
          /\ \A f \in Handler : Waker(f, u)' => f = g
    BY <1>1, <1>2, ListKept, Agents DEF OnTypes, Pool, Idle, Waker
  <1> QED
    BY <1>3, <1>4, <1>5, <1>6, <1>7, <1>8 DEF Pool

LEMMA PoolSignal ==
  ASSUME OnTypes, Pool, NEW h \in Handler, Signal(h)
  PROVE  OnTypes' /\ Pool'
  <1>1. /\ pc[h] = "signal" /\ h \in Agent /\ waking[h] \in Thread
        /\ pc' = [pc EXCEPT ![h] = "test",
             ![waking[h]] = IF @ = "waiting" THEN "check" ELSE @]
        /\ UNCHANGED <<state, requests, arg, waking, proceed, thread_list>>
    BY Agents DEF Signal, Pool, Places, poolVars
  <1>2. /\ pc'[h] = "test"
        /\ \A g \in Handler : g # h => pc'[g] = pc[g]
        /\ pc'[Home] = pc[Home]
        /\ \A u \in Thread :
             pc'[u] = pc[u] \/ (pc[u] = "waiting" /\ pc'[u] = "check")
    BY <1>1, Agents DEF OnTypes
  <1>3. OnTypes'
    BY <1>1, Agents DEF OnTypes, HandlerPC, ThreadPC
  <1>4. Places' /\ OneEach'
    BY <1>1, <1>2, Agents, ListKept
    DEF OnTypes, Pool, Places, ThreadPC, HandlerPC, HomePC
  <1>5. NoLostWakeup'
    BY <1>1, <1>2, Agents DEF OnTypes, Pool, NoLostWakeup
  <1>6. \A u \in Thread : proceed'[u] => pc'[u] \in Idle
    BY <1>1, <1>2, Agents DEF OnTypes, Pool, Idle, Waker
  <1>7. \A u \in Thread : Listed(u)' => ~proceed'[u] /\ pc'[u] \in Idle
    BY <1>1, <1>2, ListKept, Agents DEF OnTypes, Pool, Idle, Waker
  <1>8. \A u \in Thread, g \in Handler : Waker(g, u)' =>
          /\ ~proceed'[u] /\ pc'[u] \in Idle /\ ~Listed(u)'
          /\ \A f \in Handler : Waker(f, u)' => f = g
    BY <1>1, <1>2, ListKept, Agents DEF OnTypes, Pool, Idle, Waker
  <1> QED
    BY <1>3, <1>4, <1>5, <1>6, <1>7, <1>8 DEF Pool

LEMMA PoolTestProceed ==
  ASSUME OnTypes, Pool, NEW h \in Handler, TestProceed(h)
  PROVE  OnTypes' /\ Pool'
  <1>1. /\ pc[h] = "test" /\ h \in Agent /\ waking[h] \in Thread
        /\ \/ /\ proceed[waking[h]]
              /\ pc' = [pc EXCEPT ![h] = "signal"] /\ UNCHANGED waking
           \/ /\ ~proceed[waking[h]]
              /\ pc' = [pc EXCEPT ![h] = "poll"]
              /\ waking' = [waking EXCEPT ![h] = None]
        /\ UNCHANGED <<state, requests, arg, proceed, thread_list>>
    BY Agents DEF TestProceed, Pool, Places
  <1>2. /\ \A u \in Thread : pc'[u] = pc[u]
        /\ \A g \in Handler : g # h => pc'[g] = pc[g] /\ waking'[g] = waking[g]
        /\ \/ pc'[h] = "signal" /\ waking'[h] = waking[h]
           \/ pc'[h] = "poll"
    BY <1>1, Agents DEF OnTypes
  <1>3. OnTypes'
    BY <1>1 DEF OnTypes, HandlerPC
  <1>4. Places' /\ OneEach'
    BY <1>1, <1>2, Agents, ListKept
    DEF OnTypes, Pool, Places, ThreadPC, HandlerPC, HomePC
  <1>5. NoLostWakeup'
    BY <1>1, <1>2, Agents DEF OnTypes, Pool, NoLostWakeup
  <1>6. \A u \in Thread : proceed'[u] => pc'[u] \in Idle
    BY <1>1, <1>2, Agents DEF OnTypes, Pool, Idle, Waker
  <1>7. \A u \in Thread : Listed(u)' => ~proceed'[u] /\ pc'[u] \in Idle
    BY <1>1, <1>2, ListKept, Agents DEF OnTypes, Pool, Idle, Waker
  <1>8. \A u \in Thread, g \in Handler : Waker(g, u)' =>
          /\ ~proceed'[u] /\ pc'[u] \in Idle /\ ~Listed(u)'
          /\ \A f \in Handler : Waker(f, u)' => f = g
    BY <1>1, <1>2, ListKept, Agents DEF OnTypes, Pool, Idle, Waker
  <1> QED
    BY <1>3, <1>4, <1>5, <1>6, <1>7, <1>8 DEF Pool

LEMMA PoolCheckProceed ==
  ASSUME OnTypes, Pool, NEW t \in Thread, CheckProceed(t)
  PROVE  OnTypes' /\ Pool'
  <1>1. /\ pc[t] = "check" /\ t \in Agent
        /\ pc' = [pc EXCEPT ![t] = IF proceed[t] THEN "job" ELSE "block"]
        /\ proceed' = [proceed EXCEPT ![t] = FALSE]
        /\ UNCHANGED <<state, requests, arg, waking, thread_list>>
    BY Agents DEF CheckProceed
  <1>2. \A h \in Handler : pc'[h] = pc[h]
    BY <1>1, Agents DEF OnTypes
  <1>3. \A u : Listed(u)' = Listed(u)
    BY <1>1, ListKept
  <1>4. OnTypes'
    BY <1>1 DEF OnTypes, ThreadPC
  <1>5. Places' /\ OneEach'
    BY <1>1, <1>2, Agents, ListKept DEF OnTypes, Pool, Places, ThreadPC, HomePC
  <1>6. NoLostWakeup'
    BY <1>1, <1>2, Agents DEF OnTypes, Pool, NoLostWakeup
  <1>7. \A u \in Thread : proceed'[u] => pc'[u] \in Idle
    BY <1>1, Agents DEF OnTypes, Pool, Idle
  <1>8. \A u \in Thread : Listed(u)' => ~proceed'[u] /\ pc'[u] \in Idle
    BY <1>1, <1>3, Agents DEF OnTypes, Pool, Idle
  <1>9. \A u \in Thread, h \in Handler : Waker(h, u)' =>
          /\ ~proceed'[u] /\ pc'[u] \in Idle /\ ~Listed(u)'
          /\ \A g \in Handler : Waker(g, u)' => g = h
    BY <1>1, <1>2, <1>3, Agents DEF OnTypes, Pool, Idle, Waker
  <1> QED
    BY <1>4, <1>5, <1>6, <1>7, <1>8, <1>9 DEF Pool

LEMMA PoolSleep ==
  ASSUME OnTypes, Pool, NEW t \in Thread, CondWait(t) \/ SpuriousWakeup(t)
  PROVE  OnTypes' /\ Pool'
  <1>1. /\ t \in Agent
        /\ \/ pc[t] = "block" /\ pc' = [pc EXCEPT ![t] = "waiting"]
           \/ pc[t] = "waiting" /\ pc' = [pc EXCEPT ![t] = "check"]
        /\ UNCHANGED <<state, requests, arg, waking, proceed, thread_list>>
    BY Agents DEF CondWait, SpuriousWakeup, poolVars
  <1>2. \A h \in Handler : pc'[h] = pc[h]
    BY <1>1, Agents DEF OnTypes
  <1>3. OnTypes'
    BY <1>1 DEF OnTypes, ThreadPC
  <1>4. Places' /\ OneEach'
    BY <1>1, <1>2, Agents, ListKept
    DEF OnTypes, Pool, Places, ThreadPC, HandlerPC, HomePC
  <1>5. NoLostWakeup'
    BY <1>1, <1>2, Agents DEF OnTypes, Pool, NoLostWakeup
  <1>6. \A u \in Thread : proceed'[u] => pc'[u] \in Idle
    BY <1>1, <1>2, Agents DEF OnTypes, Pool, Idle, Waker
  <1>7. \A u \in Thread : Listed(u)' => ~proceed'[u] /\ pc'[u] \in Idle
    BY <1>1, <1>2, ListKept, Agents DEF OnTypes, Pool, Idle, Waker
  <1>8. \A u \in Thread, g \in Handler : Waker(g, u)' =>
          /\ ~proceed'[u] /\ pc'[u] \in Idle /\ ~Listed(u)'
          /\ \A f \in Handler : Waker(f, u)' => f = g
    BY <1>1, <1>2, ListKept, Agents DEF OnTypes, Pool, Idle, Waker
  <1> QED
    BY <1>3, <1>4, <1>5, <1>6, <1>7, <1>8 DEF Pool

LEMMA PoolAddToList ==
  ASSUME OnTypes, Pool, NEW t \in Thread, AddToList(t)
  PROVE  OnTypes' /\ Pool'
  <1>1. ~Listed(t) /\ pc[t] = "add" /\ t \in Agent
    BY Agents DEF Pool, Idle, AddToList
  <1>2. /\ thread_list' \in Seq(Thread)
        /\ OneEach'
        /\ \A u : Listed(u)' => Listed(u) \/ u = t
    BY <1>1, ListAdded DEF OnTypes, Pool, AddToList
  <1> QED
  BY <1>1, <1>2, Agents
  DEF OnTypes, Pool, Places, Waker, Idle, NoLostWakeup, AddToList, HandlerPC,
      HandlerWork, ThreadPC, HomePC, poolVars

(* The agents whose code is at work on a call.                             *)
Working(a) ==
  \/ a = Home /\ pc[a] \in {"lock", "unlock", "readers", "unread", "leave"}
  \/ a \in Handler /\ pc[a] \in HandlerWork
  \/ a \in Thread /\ pc[a] \in {"job", "readers"}

LEMMA PoolStutter ==
  ASSUME Pool, UNCHANGED <<pc, waking, proceed, thread_list>>
  PROVE  Pool'
  BY ListKept DEF Pool, Places, NoLostWakeup, Waker

(* A step of an agent that takes up, goes on with or ends a call.          *)
LEMMA PoolWork ==
  ASSUME OnTypes, Pool, UNCHANGED <<waking, proceed, thread_list>>,
         NEW a \in Agent, NEW at, pc' = [pc EXCEPT ![a] = at],
         \/ a = Home /\ at \in HomePC \cup {"readers", "unread", "leave"}
         \/ a \in Handler /\ pc[a] = "poll" /\ at \in HandlerWork
         \/ Working(a) /\ a \in Handler /\ at \in HandlerWork \cup {"poll"}
         \/ Working(a) /\ a \in Thread /\ at \in {"readers", "add"}
  PROVE  Pool'
  <1>1. /\ \A b \in Agent : b # a => pc'[b] = pc[b]
        /\ pc'[a] = at
    BY DEF OnTypes
  <1>2. /\ a \in Handler => pc[a] \in HandlerWork \cup {"poll"}
                            /\ at \in HandlerWork \cup {"poll"}
        /\ a \in Thread => pc[a] \in {"job", "readers"} /\ at \in {"readers", "add"}
        /\ a = Home => at \in HomePC \cup {"readers", "unread", "leave"}
    BY Agents DEF Working
  <1>3. Places' /\ OneEach'
    BY <1>1, <1>2, Agents, ListKept DEF Pool, Places, ThreadPC, HandlerPC, HandlerWork
  <1>4. \A h \in Handler, t \in Thread : Waker(h, t)' = Waker(h, t)
    BY <1>1, <1>2, Agents DEF Waker, HandlerWork
  <1>5. \A t \in Thread : pc[t] \in Idle \/ pc'[t] \in Idle => pc'[t] = pc[t]
    BY <1>1, <1>2, Agents DEF Idle
  <1>6. NoLostWakeup'
    BY <1>1, <1>2, <1>5, Agents DEF Pool, NoLostWakeup, Idle, HandlerWork
  <1> QED
    BY <1>3, <1>4, <1>5, <1>6, ListKept DEF Pool

(* The pool thread that HandOff gives the call to.                         *)
Given(h, t, j) ==
  /\ t \in Thread
  /\ arg' = [arg EXCEPT ![t] = j, ![h] = NoJob]
  /\ ~Busy(t) /\ pc[t] # "add"
  /\ \/ /\ pc[t] = "unused"
        /\ proceed' = [proceed EXCEPT ![t] = TRUE]
        /\ pc' = [pc EXCEPT ![t] = "check", ![h] = "poll"]
        /\ UNCHANGED <<thread_list, waking>>
     \/ /\ Listed(t)
        /\ waking' = [waking EXCEPT ![h] = t]
        /\ pc' = [pc EXCEPT ![h] = "proceed"]
        /\ OneEach' /\ thread_list' \in Seq(Thread)
        /\ \A u : Listed(u)' => Listed(u) /\ u # t
        /\ UNCHANGED proceed

LEMMA Gives ==
  ASSUME OnTypes, Pool, NEW h \in Handler, NEW j, HandOff(h, j)
  PROVE  \E t \in Thread : Given(h, t, j)
  <1>1. CASE thread_list = <<>>
    <2>1. PICK t \in Unused :
            /\ proceed' = [proceed EXCEPT ![t] = TRUE]
            /\ arg' = [arg EXCEPT ![t] = j, ![h] = NoJob]
            /\ pc' = [pc EXCEPT ![t] = "check", ![h] = "poll"]
            /\ UNCHANGED <<thread_list, waking>>
      BY <1>1 DEF HandOff
    <2>2. t \in Thread /\ pc[t] = "unused"
      BY DEF Unused
    <2>3. ~Busy(t)
      BY <2>2, Agents DEF Busy, Pool, Idle, ThreadPC
    <2> QED
      BY <2>1, <2>2, <2>3 DEF Given
  <1>2. CASE thread_list # <<>>
    <2> DEFINE t == Head(thread_list)
    <2>1. /\ thread_list' = linkedlist_remove(thread_list)
          /\ waking' = [waking EXCEPT ![h] = t]
          /\ arg' = [arg EXCEPT ![t] = j, ![h] = NoJob]
          /\ pc' = [pc EXCEPT ![h] = "proceed"]
          /\ UNCHANGED proceed
      BY <1>2 DEF HandOff
    <2>2. /\ t \in Thread /\ Listed(t)
          /\ OneEach' /\ thread_list' \in Seq(Thread)
          /\ \A u : Listed(u)' => Listed(u) /\ u # t
      BY <1>2, <2>1, ListRemoved DEF OnTypes, Pool
    <2> HIDE DEF t
    <2>3. ~Busy(t) /\ pc[t] # "add"
      BY <2>2, Agents DEF Busy, Pool, Idle, ThreadPC
    <2> QED
      BY <2>1, <2>2, <2>3 DEF Given
  <1> QED
    BY <1>1, <1>2

LEMMA PoolGiven ==
  ASSUME OnTypes, Pool, NEW h \in Handler, pc[h] \in HandlerWork \cup {"poll"},
         NEW j \in Job, NEW t \in Thread, Given(h, t, j),
         state' \in [Proc -> {"PENDING", "DONE"}], requests' \subseteq Job
  PROVE  OnTypes' /\ Pool'
  <1>1. /\ \A g \in Handler, u \in Thread : ~(Waker(g, u) /\ u = t)
        /\ ~proceed[t]
        /\ h \in Agent /\ t \in Agent /\ h # t /\ h # Home /\ t # Home
        /\ \A g \in Handler : g # t
        /\ \A u \in Thread : u # h
    BY Agents DEF Given, Busy
  <1>2. CASE pc[t] = "unused"
    <2>1. /\ ~Listed(t) /\ proceed' = [proceed EXCEPT ![t] = TRUE]
          /\ pc' = [pc EXCEPT ![t] = "check", ![h] = "poll"]
          /\ arg' = [arg EXCEPT ![t] = j, ![h] = NoJob]
          /\ UNCHANGED <<thread_list, waking>>
      BY <1>2 DEF Pool, Idle, Given
    <2>2. OnTypes'
      BY <2>1 DEF OnTypes, HandlerPC, ThreadPC
    <2>3. /\ pc'[t] = "check" /\ pc'[h] = "poll"
          /\ \A b \in Agent : b # t /\ b # h => pc'[b] = pc[b]
      BY <1>1, <2>1 DEF OnTypes
    <2>4. Places' /\ OneEach'
      BY <1>1, <2>1, <2>3, Agents, ListKept
      DEF Pool, Places, ThreadPC, HandlerPC, HandlerWork
    <2>5. \A g \in Handler, u \in Thread : Waker(g, u)' => Waker(g, u)
      BY <1>1, <2>1, <2>3, Agents DEF Waker
    <2>6. NoLostWakeup'
      BY <1>1, <2>1, <2>3, Agents DEF OnTypes, Pool, NoLostWakeup, HandlerWork
    <2>7. ASSUME NEW u \in Thread
          PROVE  /\ proceed'[u] => pc'[u] \in Idle
                 /\ Listed(u)' => ~proceed'[u] /\ pc'[u] \in Idle
                 /\ \A g \in Handler : Waker(g, u)' =>
                      /\ ~proceed'[u] /\ pc'[u] \in Idle /\ ~Listed(u)'
                      /\ \A f \in Handler : Waker(f, u)' => f = g
      <3>1. Listed(u)' = Listed(u)
        BY <2>1, ListKept
      <3>2. CASE u = t
        BY <1>1, <2>1, <2>3, <2>5, <3>1, <3>2 DEF OnTypes, Idle
      <3>3. CASE u # t
        <4>1. pc'[u] = pc[u] /\ proceed'[u] = proceed[u]
          BY <1>1, <2>1, <2>3, <3>3, Agents DEF OnTypes
        <4> QED
          BY <2>5, <3>1, <4>1 DEF Pool
      <3> QED
        BY <3>2, <3>3
    <2> QED
      BY <2>2, <2>4, <2>6, <2>7 DEF Pool
  <1>3. CASE pc[t] # "unused"
    <2>1. /\ Listed(t)
          /\ waking' = [waking EXCEPT ![h] = t]
          /\ pc' = [pc EXCEPT ![h] = "proceed"]
          /\ arg' = [arg EXCEPT ![t] = j, ![h] = NoJob]
          /\ OneEach' /\ thread_list' \in Seq(Thread)
          /\ \A u : Listed(u)' => Listed(u) /\ u # t
          /\ UNCHANGED proceed
      BY <1>3 DEF Given
    <2>2. OnTypes'
      BY <2>1 DEF OnTypes, HandlerPC
    <2>3. /\ pc'[h] = "proceed" /\ waking'[h] = t
          /\ \A b \in Agent : b # h => pc'[b] = pc[b]
          /\ \A g \in Handler : g # h => waking'[g] = waking[g]
      BY <1>1, <2>1 DEF OnTypes
    <2>4. Places'
      BY <1>1, <2>1, <2>3, Agents DEF Pool, Places, ThreadPC, HandlerPC, HandlerWork
    <2>5. /\ \A g \in Handler, u \in Thread :
               Waker(g, u)' <=> (g = h /\ u = t) \/ (g # h /\ Waker(g, u))
          /\ \A u \in Thread : ~Waker(h, u)
      BY <1>1, <2>1, <2>3, Agents DEF Waker, HandlerWork
    <2>6. NoLostWakeup'
      BY <1>1, <2>1, <2>3, Agents DEF OnTypes, Pool, NoLostWakeup, HandlerWork
    <2>7. ASSUME NEW u \in Thread
          PROVE  /\ proceed'[u] => pc'[u] \in Idle
                 /\ Listed(u)' => ~proceed'[u] /\ pc'[u] \in Idle
                 /\ \A g \in Handler : Waker(g, u)' =>
                      /\ ~proceed'[u] /\ pc'[u] \in Idle /\ ~Listed(u)'
                      /\ \A f \in Handler : Waker(f, u)' => f = g
      <3>1. pc'[u] = pc[u] /\ proceed'[u] = proceed[u]
        BY <1>1, <2>1, <2>3, Agents
      <3>2. CASE u = t
        BY <1>1, <2>1, <2>5, <3>1, <3>2 DEF Pool
      <3>3. CASE u # t
        BY <2>1, <2>5, <3>1, <3>3 DEF Pool
      <3> QED
        BY <3>2, <3>3
    <2> QED
      BY <2>1, <2>2, <2>4, <2>6, <2>7 DEF Pool
  <1> QED
    BY <1>2, <1>3

-----------------------------------------------------------------------------
(* The calls.  In each lemma who is busy, and with what, changes in one of *)
(* the ways a call travels; nobody but the caller of a call that ends      *)
(* comes to hold a lock in another way.                                    *)

LEMMA Srcs == \A j \in Job : j.src \in Proc
  BY AgentAssumption

LEMMA CallKept ==
  ASSUME NEW j \in Job, CallOK(j),
         \A l \in Lock : held'[l][j.src] = held[l][j.src]
  PROVE  CallOK(j)'
  <1>1. j.op = "unlock" => j.lock \in Lock
    BY LockAssumption DEF LockJob, OnJob
  <1> QED
    BY <1>1 DEF CallOK

LEMMA CallsStay ==
  ASSUME OnTypes, InFlight, CallsOK, UNCHANGED <<requests, state, held>>,
         \A a \in Agent : Busy(a)' <=> Busy(a),
         \A a \in Agent : Busy(a) => arg'[a] = arg[a]
  PROVE  InFlight' /\ CallsOK'
  <1>1. InFlight'
    BY DEF InFlight
  <1> QED
    BY <1>1 DEF CallsOK, CallOK

LEMMA CallSent ==
  ASSUME OnTypes, InFlight, CallsOK, NEW j \in Job, CallOK(j),
         state[j.src] = "DONE", state' = [state EXCEPT ![j.src] = "PENDING"],
         requests' = requests \cup {j}, UNCHANGED held,
         \A a \in Agent : Busy(a)' <=> Busy(a),
         \A a \in Agent : Busy(a) => arg'[a] = arg[a]
  PROVE  InFlight' /\ CallsOK'
  <1>1. \A i \in requests : i.src # j.src /\ i.src \in Proc
    BY Srcs DEF InFlight, OnTypes
  <1>2. \A a \in Agent : Busy(a) =>
          arg[a].src # j.src /\ arg[a].src \in Proc /\ arg'[a] = arg[a]
    BY Srcs DEF InFlight
  <1>3. state'[j.src] = "PENDING" /\ \A p \in Proc : p # j.src => state'[p] = state[p]
    BY Srcs DEF OnTypes
  <1>4. InFlight'
    BY <1>1, <1>2, <1>3 DEF InFlight
  <1> QED
    BY <1>4 DEF CallsOK, CallOK

LEMMA CallTaken ==
  ASSUME OnTypes, InFlight, CallsOK, NEW j \in Job, CallOK(j), NEW b \in Agent,
         ~Busy(b), state[j.src] = "DONE" \/ j \in requests,
         state' = [state EXCEPT ![j.src] = "PENDING"],
         requests' = requests \ {j}, UNCHANGED held,
         \A a \in Agent : Busy(a)' <=> Busy(a) \/ a = b,
         \A a \in Agent : Busy(a) => arg'[a] = arg[a],
         arg'[b] = j
  PROVE  InFlight' /\ CallsOK'
  <1>1. \A i \in requests : i.src = j.src => i = j
    BY Srcs DEF InFlight, OnTypes
  <1>2. \A a \in Agent : Busy(a) =>
          arg[a].src # j.src /\ arg[a].src \in Proc /\ arg'[a] = arg[a]
    BY Srcs DEF InFlight
  <1>3. state'[j.src] = "PENDING" /\ \A p \in Proc : p # j.src => state'[p] = state[p]
    BY Srcs DEF OnTypes
  <1>4. \A i \in requests : i.src \in Proc
    BY Srcs DEF OnTypes
  <1>5. InFlight'
    <2>1. \A p \in Proc : state'[p] = "PENDING" =>
            \/ \E i \in requests' : i.src = p
            \/ \E a \in Agent : Busy(a)' /\ arg'[a].src = p
      BY <1>1, <1>2, <1>3 DEF InFlight
    <2>2. \A a, c \in Agent : Busy(a)' /\ Busy(c)' /\ arg'[a].src = arg'[c].src => a = c
      BY <1>2 DEF InFlight
    <2>3. \A i \in requests', a \in Agent : Busy(a)' => arg'[a].src # i.src
      BY <1>1, <1>2 DEF InFlight
    <2>4. /\ \A i \in requests' : state'[i.src] = "PENDING"
          /\ \A a \in Agent : Busy(a)' => state'[arg'[a].src] = "PENDING" /\ arg'[a] \in Job
      BY <1>1, <1>2, <1>3, <1>4 DEF InFlight
    <2> QED
      BY <2>1, <2>2, <2>3, <2>4 DEF InFlight
  <1> QED
    BY <1>5 DEF CallsOK, CallOK

LEMMA CallHanded ==
  ASSUME OnTypes, InFlight, CallsOK, NEW c \in Agent, Busy(c),
         NEW b \in Agent, ~Busy(b), UNCHANGED <<requests, state, held>>,
         \A a \in Agent : Busy(a)' <=> (Busy(a) /\ a # c) \/ a = b,
         \A a \in Agent : Busy(a) /\ a # c => arg'[a] = arg[a],
         arg'[b] = arg[c]
  PROVE  InFlight' /\ CallsOK'
  <1>1. InFlight'
    BY DEF InFlight
  <1> QED
    BY <1>1 DEF CallsOK, CallOK

(* p's call, the only one it has, ends.                                    *)
LEMMA CallEnds ==
  ASSUME OnTypes, InFlight, CallsOK, NEW p \in Proc,
         state' = [state EXCEPT ![p] = "DONE"],
         \A i \in requests : i \in requests' <=> i.src # p,
         requests' \subseteq requests,
         \A a \in Agent : Busy(a)' <=> Busy(a) /\ arg[a].src # p,
         \A a \in Agent : Busy(a)' => arg'[a] = arg[a],
         \A q \in Proc : q # p => \A l \in Lock : held'[l][q] = held[l][q]
  PROVE  InFlight' /\ CallsOK'
  <1>1. \A q \in Proc : state'[q] = IF q = p THEN "DONE" ELSE state[q]
    BY DEF OnTypes
  <1>2. \A i \in requests : i \in Job /\ i.src \in Proc
    BY Srcs DEF OnTypes
  <1>3. \A a \in Agent : Busy(a) => arg[a] \in Job /\ arg[a].src \in Proc
    BY Srcs DEF InFlight
  <1>4. InFlight'
    BY <1>1, <1>2, <1>3 DEF InFlight
  <1>5. \A i \in requests' : CallOK(i)'
    BY <1>2, CallKept DEF CallsOK
  <1>6. ASSUME NEW a \in Agent, Busy(a)' PROVE CallOK(arg[a])'
    <2>1. arg'[a] = arg[a] /\ arg[a].src # p /\ CallOK(arg[a]) /\ arg[a] \in Job
      BY <1>3, <1>6 DEF CallsOK
    <2>2. \A j \in Job : j.src # p /\ CallOK(j) => CallOK(j)'
      BY CallKept, Srcs
    <2> QED
      BY <2>1, <2>2 DEF CallOK
  <1> QED
    BY <1>4, <1>5, <1>6 DEF CallsOK

-----------------------------------------------------------------------------
(* The operations of GrtOn, by the way the call travels.                   *)

OnInv == OnTypes /\ Pool /\ InFlight /\ OwnCall /\ CallsOK

(* Only p comes to hold locks in another way.                              *)
Only(p) == \A q \in Proc : q # p => \A l \in Lock : held'[l][q] = held[l][q]

LEMMA BusyAgents ==
  ASSUME Pool, NEW a \in Agent
  PROVE  /\ a = Home => (Busy(a) <=> pc[a] # "run")
         /\ a \in Handler => (Busy(a) <=> pc[a] \in HandlerWork)
         /\ a \in Thread =>
              (Busy(a) <=> \/ pc[a] \in {"job", "readers"} \/ proceed[a]
                           \/ \E h \in Handler : Waker(h, a))
         /\ Working(a) => Busy(a)
  BY Agents DEF Busy, Working, Pool, Places, HandlerPC, HandlerWork, ThreadPC, HomePC

LEMMA OnInvoke ==
  ASSUME OnInv, NEW j \in Job, NEW at, Invoke(j, at), CallOK(j), UNCHANGED held,
         at \in {"lock", "unlock"} \/ j.src # Home
  PROVE  OnInv'
  <1>1. j.src \in Proc /\ Home \in Agent
    BY Srcs, Agents
  <1>2. CASE j.src = Home
    <2>1. /\ state[j.src] = "DONE"
          /\ state' = [state EXCEPT ![j.src] = "PENDING"]
          /\ pc' = [pc EXCEPT ![Home] = at]
          /\ arg' = [arg EXCEPT ![Home] = j]
          /\ UNCHANGED <<requests, waking, proceed, thread_list>>
          /\ at \in {"lock", "unlock"}
      BY <1>2 DEF Invoke, poolVars
    <2>2. OnTypes'
      BY <1>1, <2>1 DEF OnInv, OnTypes, HomePC
    <2>3. Pool'
      BY <1>1, <2>1, PoolWork DEF OnInv, HomePC
    <2>4. /\ pc'[Home] = at /\ arg'[Home] = j
          /\ \A a \in Agent : a # Home => pc'[a] = pc[a] /\ arg'[a] = arg[a]
      BY <1>1, <2>1 DEF OnInv, OnTypes
    <2>5. ~(\E a \in Agent : Busy(a) /\ arg[a].src = Home) /\ j \notin requests
      BY <1>2, <2>1 DEF OnInv, InFlight
    <2>6. ~Busy(Home)
      BY <1>1, <2>5, BusyAgents DEF OnInv, OwnCall
    <2>7. \A a \in Agent : Busy(a)' <=> Busy(a) \/ a = Home
      BY <1>1, <2>1, <2>4, Agents DEF Busy, Waker
    <2>8. requests' = requests \ {j}
      BY <2>1, <2>5
    <2>9. \A a \in Agent : Busy(a) => arg'[a] = arg[a]
      BY <2>4, <2>6
    <2>10. OwnCall'
      BY <1>2, <2>4 DEF OwnCall
    <2> QED
      BY <1>1, <2>1, <2>2, <2>3, <2>4, <2>6, <2>7, <2>8, <2>9, <2>10, CallTaken
      DEF OnInv
  <1>3. CASE j.src # Home
    <2>1. /\ state[j.src] = "DONE"
          /\ state' = [state EXCEPT ![j.src] = "PENDING"]
          /\ requests' = requests \cup {j}
          /\ UNCHANGED <<pc, arg, waking, proceed, thread_list>>
      BY <1>3 DEF Invoke, poolVars
    <2>2. OnTypes' /\ Pool'
      BY <2>1, PoolStutter DEF OnInv, OnTypes
    <2>3. \A a \in Agent : Busy(a)' <=> Busy(a)
      BY <2>1 DEF Busy, Waker
    <2> QED
      BY <2>1, <2>2, <2>3, CallSent DEF OnInv, OwnCall
  <1> QED
    BY <1>2, <1>3

LEMMA OnServed ==
  ASSUME OnInv, NEW h \in Handler, NEW j \in Job, grt_on_handler_work(h, j),
         Only(j.src)
  PROVE  OnInv'
  <1>1. /\ j \in requests /\ requests' = requests \ {j}
        /\ state' = [state EXCEPT ![j.src] = "DONE"]
        /\ UNCHANGED <<pc, arg, waking, proceed, thread_list>>
    BY DEF grt_on_handler_work, Receive, poolVars
  <1>2. OnTypes' /\ Pool' /\ OwnCall'
    BY <1>1, PoolStutter DEF OnInv, OnTypes, OwnCall
  <1>3. \A i \in requests : i \in requests' <=> i.src # j.src
    BY <1>1 DEF OnInv, InFlight
  <1>4. \A a \in Agent : Busy(a)' <=> Busy(a) /\ arg[a].src # j.src
    BY <1>1 DEF OnInv, InFlight, Busy, Waker
  <1> QED
    BY <1>1, <1>2, <1>3, <1>4, Srcs, CallEnds DEF OnInv, Only

LEMMA OnStarts ==
  ASSUME OnInv, NEW h \in Handler, NEW j \in Job, NEW at \in HandlerWork,
         StartsWork(h, j, at), UNCHANGED held
  PROVE  OnInv'
  <1>1. /\ h \in Agent /\ pc[h] = "poll"
        /\ j \in requests /\ requests' = requests \ {j}
        /\ pc' = [pc EXCEPT ![h] = at]
        /\ arg' = [arg EXCEPT ![h] = j]
        /\ UNCHANGED <<state, waking, proceed, thread_list>>
    BY Agents DEF StartsWork, Receive, poolVars
  <1>2. OnTypes'
    BY <1>1 DEF OnInv, OnTypes, HandlerWork, LockPC
  <1>3. Pool'
    BY <1>1, PoolWork DEF OnInv
  <1>4. /\ pc'[h] = at /\ arg'[h] = j
        /\ \A a \in Agent : a # h => pc'[a] = pc[a] /\ arg'[a] = arg[a]
    BY <1>1 DEF OnInv, OnTypes
  <1>5. ~Busy(h) /\ Busy(h)'
    <2>1. pc[h] \notin HandlerWork
      BY <1>1 DEF HandlerWork
    <2> QED
      BY <1>1, <1>3, <1>4, <2>1, BusyAgents, Agents
      DEF OnInv, Busy, HandlerWork, HandlerPC
  <1>6. ASSUME NEW a \in Agent, a # h PROVE Busy(a)' <=> Busy(a)
    <2>1. \A g \in Handler : Waker(g, a)' <=> Waker(g, a)
      BY <1>1, <1>4, Agents DEF Waker, HandlerWork
    <2> QED
      BY <1>1, <1>4, <1>6, <2>1 DEF Busy
  <1>7. OwnCall'
    BY <1>1, <1>4, Agents DEF OnInv, OwnCall
  <1>8. /\ state' = [state EXCEPT ![j.src] = "PENDING"]
        /\ CallOK(j)
    BY <1>1 DEF OnInv, OnTypes, InFlight, CallsOK
  <1>9. \A a \in Agent : Busy(a)' <=> Busy(a) \/ a = h
    BY <1>5, <1>6
  <1>10. \A a \in Agent : Busy(a) => arg'[a] = arg[a]
    BY <1>4, <1>5
  <1> QED
    BY <1>1, <1>2, <1>3, <1>4, <1>5, <1>7, <1>8, <1>9, <1>10, CallTaken DEF OnInv

LEMMA BusyGiven ==
  ASSUME OnTypes, Pool, NEW h \in Handler, pc[h] \in HandlerWork \cup {"poll"},
         NEW j, NEW t \in Thread, Given(h, t, j), Pool'
  PROVE  /\ \A a \in Agent : Busy(a)' <=> (Busy(a) /\ a # h) \/ a = t
         /\ \A a \in Agent : Busy(a) /\ a # h => arg'[a] = arg[a]
         /\ arg'[t] = j
         /\ pc'[h] \in {"poll", "proceed"} /\ pc'[Home] = pc[Home]
         /\ arg'[Home] = arg[Home]
  <1>1. /\ h \in Agent /\ t \in Agent /\ h # t /\ h # Home /\ t # Home
        /\ ~Busy(t)
    BY Agents DEF Given
  <1>2. /\ arg'[t] = j
        /\ \A a \in Agent : a # h /\ a # t => arg'[a] = arg[a]
    BY <1>1 DEF Given, OnTypes
  <1>3. /\ pc'[h] \in {"poll", "proceed"}
        /\ \A a \in Agent : a # h /\ a # t => pc'[a] = pc[a]
    BY <1>1 DEF Given, OnTypes
  <1>4. Busy(t)'
    <2>1. CASE pc[t] = "unused"
      BY <1>1, <2>1, Agents DEF Given, OnTypes, Busy, Pool, Idle
    <2>2. CASE pc[t] # "unused"
      <3>1. Waker(h, t)'
        BY <1>1, <2>2 DEF Given, OnTypes, Waker
      <3> QED
        BY <3>1 DEF Busy
    <2> QED
      BY <2>1, <2>2
  <1>5. ~Busy(h)'
    BY <1>1, <1>3, Agents DEF Busy, HandlerPC
  <1>6. ASSUME NEW a \in Agent, a # h, a # t PROVE Busy(a)' <=> Busy(a)
    <2>1. \A g \in Handler : Waker(g, a)' <=> Waker(g, a)
      <3>1. ~Waker(h, a)
        BY <1>1 DEF Waker, HandlerWork
      <3>2. ~Waker(h, a)'
        BY <1>1, <1>6 DEF Given, Waker, OnTypes
      <3>3. \A g \in Handler : g # h => pc'[g] = pc[g] /\ waking'[g] = waking[g]
        BY <1>3, Agents DEF Given, OnTypes
      <3> QED
        BY <3>1, <3>2, <3>3 DEF Waker
    <2>2. a \in Thread => proceed'[a] = proceed[a]
      BY <1>6 DEF Given, OnTypes
    <2> QED
      BY <1>3, <1>6, <2>1, <2>2 DEF Busy
  <1>7. \A a \in Agent : Busy(a) /\ a # h => arg'[a] = arg[a]
    BY <1>1, <1>2
  <1> QED
    BY <1>1, <1>2, <1>3, <1>4, <1>5, <1>6, <1>7, Agents

(* A request is handed to the pool at once, ...                            *)
LEMMA OnHandOff ==
  ASSUME OnInv, NEW h \in Handler, NEW j \in Job, Receive(h, j), HandOff(h, j),
         UNCHANGED <<state, held>>
  PROVE  OnInv' /\ arg'[Home] = arg[Home]
  <1>1. /\ pc[h] = "poll" /\ j \in requests /\ requests' = requests \ {j}
        /\ pc[h] \notin HandlerWork
    BY DEF Receive, HandlerWork
  <1>2. PICK t \in Thread : Given(h, t, j)
    BY Gives DEF OnInv
  <1>3. OnTypes' /\ Pool'
    BY <1>1, <1>2, PoolGiven DEF OnInv, OnTypes
  <1>4. /\ \A a \in Agent : Busy(a)' <=> (Busy(a) /\ a # h) \/ a = t
        /\ \A a \in Agent : Busy(a) /\ a # h => arg'[a] = arg[a]
        /\ arg'[t] = j /\ pc'[Home] = pc[Home] /\ arg'[Home] = arg[Home]
    BY <1>1, <1>2, <1>3, BusyGiven DEF OnInv
  <1>5. ~Busy(h) /\ ~Busy(t) /\ t \in Agent
    BY <1>1, <1>2, BusyAgents, Agents DEF Given, OnInv
  <1>6. /\ state' = [state EXCEPT ![j.src] = "PENDING"]
        /\ CallOK(j)
    BY <1>1 DEF OnInv, OnTypes, InFlight, CallsOK
  <1>7. /\ \A a \in Agent : Busy(a)' <=> Busy(a) \/ a = t
        /\ \A a \in Agent : Busy(a) => arg'[a] = arg[a]
    BY <1>4, <1>5
  <1> QED
    BY <1>1, <1>3, <1>4, <1>5, <1>6, <1>7, CallTaken DEF OnInv, OwnCall

(* ... or after a try.                                                     *)
LEMMA OnHandOver ==
  ASSUME OnInv, NEW h \in Handler, pc[h] \in HandlerWork, HandOff(h, arg[h]),
         UNCHANGED <<requests, state, held>>
  PROVE  OnInv'
  <1>1. h \in Agent /\ Busy(h) /\ arg[h] \in Job
    BY BusyAgents, Agents DEF OnInv, InFlight
  <1>2. PICK t \in Thread : Given(h, t, arg[h])
    BY Gives DEF OnInv
  <1>3. OnTypes' /\ Pool'
    BY <1>1, <1>2, PoolGiven DEF OnInv, OnTypes
  <1>4. /\ \A a \in Agent : Busy(a)' <=> (Busy(a) /\ a # h) \/ a = t
        /\ \A a \in Agent : Busy(a) /\ a # h => arg'[a] = arg[a]
        /\ arg'[t] = arg[h] /\ pc'[Home] = pc[Home] /\ arg'[Home] = arg[Home]
    BY <1>1, <1>2, <1>3, BusyGiven DEF OnInv
  <1>5. ~Busy(t) /\ t \in Agent
    BY <1>2, Agents DEF Given
  <1> QED
    BY <1>1, <1>3, <1>4, <1>5, CallHanded DEF OnInv, OwnCall

LEMMA OnGoesOn ==
  ASSUME OnInv, NEW a \in Agent, Working(a), NEW at, pc' = [pc EXCEPT ![a] = at],
         \/ a = Home /\ at \in {"readers", "unread", "leave"}
         \/ a \in Handler /\ at \in HandlerWork
         \/ a \in Thread /\ at = "readers",
         UNCHANGED <<state, requests, arg, poolVars, held>>
  PROVE  OnInv'
  <1>1. UNCHANGED <<waking, proceed, thread_list>>
    BY DEF poolVars
  <1>2. OnTypes'
    BY <1>1 DEF OnInv, OnTypes, HandlerWork, LockPC
  <1>3. Pool'
    BY <1>1, PoolWork DEF OnInv
  <1>4. pc'[a] = at /\ \A b \in Agent : b # a => pc'[b] = pc[b]
    BY DEF OnInv, OnTypes
  <1>5. Busy(a) /\ Busy(a)'
    BY <1>4, BusyAgents, Agents DEF OnInv, Busy, HandlerWork, HandlerPC, ThreadPC
  <1>6. ASSUME NEW b \in Agent, b # a PROVE Busy(b)' <=> Busy(b)
    <2>1. \A g \in Handler : Waker(g, b)' <=> Waker(g, b)
      BY <1>1, <1>4, Agents DEF Waker, Working, HandlerWork
    <2> QED
      BY <1>1, <1>4, <1>6, <2>1 DEF Busy
  <1>7. OwnCall'
    BY <1>4, Agents DEF OnInv, OwnCall, Working
  <1>8. \A b \in Agent : Busy(b)' <=> Busy(b)
    BY <1>5, <1>6
  <1> QED
    BY <1>2, <1>3, <1>7, <1>8, CallsStay DEF OnInv

LEMMA OnReply ==
  ASSUME OnInv, NEW a \in Agent, Working(a), Reply(a), Only(arg[a].src)
  PROVE  OnInv'
  <1> DEFINE p == arg[a].src
  <1>1. /\ state' = [state EXCEPT ![p] = "DONE"]
        /\ pc' = [pc EXCEPT ![a] = After(a)]
        /\ arg' = [arg EXCEPT ![a] = NoJob]
        /\ UNCHANGED <<requests, waking, proceed, thread_list>>
    BY DEF Reply, poolVars
  <1>2. \/ After(a) = "run" /\ a = Home
        \/ After(a) = "poll" /\ a \in Handler
        \/ After(a) = "add" /\ a \in Thread
    BY Agents DEF After, Working
  <1>3. Busy(a) /\ p \in Proc
    BY BusyAgents, Srcs DEF OnInv, InFlight
  <1>4. OnTypes'
    BY <1>1, <1>2, <1>3 DEF OnInv, OnTypes, HomePC, HandlerPC, ThreadPC
  <1>5. Pool'
    BY <1>1, <1>2, PoolWork, Agents DEF OnInv, HomePC
  <1>6. /\ pc'[a] = After(a)
        /\ \A b \in Agent : b # a => pc'[b] = pc[b] /\ arg'[b] = arg[b]
    BY <1>1 DEF OnInv, OnTypes
  <1>7. ASSUME NEW b \in Agent, b # a PROVE Busy(b)' <=> Busy(b)
    <2>1. \A g \in Handler : Waker(g, b)' <=> Waker(g, b)
      BY <1>1, <1>2, <1>6, Agents DEF Waker, Working, HandlerWork
    <2> QED
      BY <1>1, <1>6, <1>7, <2>1 DEF Busy
  <1>8. ~Busy(a)'
    <2>1. CASE a \in Thread
      <3>1. pc[a] \in {"job", "readers"} /\ a # Home /\ a \notin Handler
        BY <2>1, Agents DEF Working
      <3>2. ~proceed[a] /\ \A h \in Handler : ~Waker(h, a)
        BY <2>1, <3>1 DEF OnInv, Pool, Idle
      <3>3. pc'[a] = "add" /\ \A h \in Handler : ~Waker(h, a)'
        BY <1>1, <1>2, <1>6, <3>1, <3>2, Agents DEF Waker
      <3> QED
        BY <1>1, <3>1, <3>2, <3>3 DEF Busy, ThreadPC
    <2>2. CASE a \notin Thread
      BY <1>2, <1>6, <2>2, Agents DEF Busy, HandlerPC
    <2> QED
      BY <2>1, <2>2
  <1>9. OwnCall'
    BY <1>2, <1>6, Agents DEF OnInv, OwnCall
  <1>10. \A b \in Agent : Busy(b)' <=> Busy(b) /\ arg[b].src # p
    BY <1>3, <1>7, <1>8 DEF OnInv, InFlight
  <1>11. \A i \in requests : i \in requests' <=> i.src # p
    BY <1>1, <1>3 DEF OnInv, InFlight
  <1>12. \A b \in Agent : Busy(b)' => arg'[b] = arg[b]
    BY <1>6, <1>8
  <1> HIDE DEF p
  <1>13. \A q \in Proc : q # p => \A l \in Lock : held'[l][q] = held[l][q]
    BY DEF Only, p
  <1> QED
    BY <1>1, <1>3, <1>4, <1>5, <1>9, <1>10, <1>11, <1>12, <1>13, CallEnds DEF OnInv

LEMMA OnPool == ASSUME OnInv, PoolNext, UNCHANGED held PROVE OnInv'
  <1>1. OnTypes' /\ Pool'
    BY PoolSetProceed, PoolSignal, PoolTestProceed, PoolCheckProceed, PoolSleep,
       PoolAddToList
    DEF OnInv, PoolNext, HandsOff, PoolStep
  <1>2. UNCHANGED <<state, requests, arg>>
    BY DEF PoolNext, HandsOff, PoolStep, SetProceed, Signal, TestProceed,
           CheckProceed, CondWait, SpuriousWakeup, AddToList, poolVars
  <1>3. (\A a \in Agent : Busy(a)' <=> Busy(a)) /\ pc'[Home] = pc[Home]
    <2>1. ASSUME NEW h \in Handler, SetProceed(h)
          PROVE  (\A a \in Agent : Busy(a)' <=> Busy(a)) /\ pc'[Home] = pc[Home]
      <3>1. /\ pc[h] = "proceed" /\ h \in Agent /\ waking[h] \in Thread
            /\ pc' = [pc EXCEPT ![h] = "signal"]
            /\ proceed' = [proceed EXCEPT ![waking[h]] = TRUE]
            /\ UNCHANGED <<state, requests, arg, waking, thread_list>>
        BY <2>1, Agents DEF SetProceed, OnInv, Pool, Places
      <3>2. pc'[h] = "signal" /\ \A a \in Agent : a # h => pc'[a] = pc[a]
        BY <3>1 DEF OnInv, OnTypes
      <3>3. \A t \in Thread : (proceed'[t] \/ \E g \in Handler : Waker(g, t)')
                          <=> (proceed[t] \/ \E g \in Handler : Waker(g, t))
        BY <3>1, <3>2, Agents DEF OnInv, OnTypes, Waker
      <3>4. ~Busy(h)' /\ ~Busy(h)
        BY <3>1, <3>2, Agents DEF Busy, HandlerPC
      <3> QED
        BY <3>2, <3>3, <3>4, Agents DEF Busy
    <2>2. ASSUME NEW h \in Handler, Signal(h) \/ TestProceed(h)
          PROVE  (\A a \in Agent : Busy(a)' <=> Busy(a)) /\ pc'[Home] = pc[Home]
      <3>1. /\ h \in Agent /\ pc[h] \in {"signal", "test"} /\ waking[h] \in Thread
            /\ UNCHANGED proceed
            /\ pc'[h] \in {"poll", "signal", "test"}
            /\ \A g \in Handler : g # h => waking'[g] = waking[g]
            /\ \A a \in Agent : a # h =>
                 \/ pc'[a] = pc[a]
                 \/ a \in Thread /\ pc[a] = "waiting" /\ pc'[a] = "check"
        <4>1. h \in Agent /\ pc[h] \in {"signal", "test"} /\ waking[h] \in Thread
          BY <2>2, Agents DEF Signal, TestProceed, OnInv, Pool, Places
        <4> QED
          BY <2>2, <4>1, Agents DEF Signal, TestProceed, poolVars, OnInv, OnTypes
      <3>2. \A g \in Handler : \A t \in Thread : Waker(g, t)' <=> Waker(g, t)
        BY <3>1, Agents DEF Waker
      <3>3. ~Busy(h)' /\ ~Busy(h)
        BY <3>1, Agents DEF Busy, HandlerPC
      <3> QED
        BY <3>1, <3>2, <3>3, Agents DEF Busy, ThreadPC
    <2>3. ASSUME NEW t \in Thread, PoolStep(t) \/ SpuriousWakeup(t)
          PROVE  (\A a \in Agent : Busy(a)' <=> Busy(a)) /\ pc'[Home] = pc[Home]
      <3>1. /\ t \in Agent /\ UNCHANGED waking
            /\ \A a \in Agent : a # t => pc'[a] = pc[a]
            /\ \A u \in Thread : u # t => proceed'[u] = proceed[u]
            /\ \/ pc[t] = "check" /\ proceed[t] /\ pc'[t] = "job" /\ ~proceed'[t]
               \/ /\ pc[t] \in {"check", "block", "waiting", "add"}
                  /\ pc'[t] \in {"check", "block", "waiting"}
                  /\ proceed'[t] = proceed[t]
        BY <2>3, Agents DEF PoolStep, CheckProceed, CondWait, SpuriousWakeup,
           AddToList, poolVars, OnInv, OnTypes
      <3>2. \A g \in Handler : \A u \in Thread : Waker(g, u)' <=> Waker(g, u)
        BY <3>1, Agents DEF Waker
      <3>3. Busy(t)' <=> Busy(t)
        BY <3>1, <3>2, Agents DEF Busy, ThreadPC
      <3> QED
        BY <3>1, <3>2, <3>3, Agents DEF Busy
    <2> QED
      BY <2>1, <2>2, <2>3 DEF PoolNext, HandsOff
  <1> QED
    BY <1>1, <1>2, <1>3, CallsStay DEF OnInv, OwnCall

(* Pool threads take up no place where ErrandOK asks for anything.         *)
LEMMA PoolErrands ==
  ASSUME OnInv, Errands, ReadHslOK, PoolNext, UNCHANGED read_hsl
  PROVE  Errands' /\ ReadHslOK'
  <1>1. \A a \in Agent : pc'[a] = pc[a] \/ pc'[a] \in HandlerPC \cup ThreadPC
    BY Agents DEF PoolNext, HandsOff, PoolStep, SetProceed, Signal, TestProceed,
       CheckProceed, CondWait, SpuriousWakeup, AddToList, poolVars, OnInv, OnTypes,
       HandlerPC, ThreadPC
  <1>2. \A a \in Agent : pc'[a] = pc[a] \/ pc[a] \in HandlerPC \cup ThreadPC
    BY Agents DEF PoolNext, HandsOff, PoolStep, SetProceed, Signal, TestProceed,
       CheckProceed, CondWait, SpuriousWakeup, AddToList, poolVars, OnInv, OnTypes,
       HandlerPC, ThreadPC
  <1>3. UNCHANGED arg
    BY DEF PoolNext, HandsOff, PoolStep, SetProceed, Signal, TestProceed,
           CheckProceed, CondWait, SpuriousWakeup, AddToList, poolVars
  <1>4. Errands'
    BY <1>1, <1>3 DEF Errands, ErrandOK, HandlerPC, ThreadPC
  <1>5. ReadHslOK'
    BY <1>2, <1>3 DEF ReadHslOK, HandlerPC, ThreadPC
  <1> QED
    BY <1>4, <1>5

-----------------------------------------------------------------------------
(* The lock.  In each lemma one processor comes to hold one lock in        *)
(* another way.                                                            *)

Turns(l, p, m) == held' = [held EXCEPT ![l][p] = m]

RWSteps == \A l \in Lock : UNCHANGED held[l] \/ RW(l)!Next

LEMMA Turned ==
  ASSUME LockTypes, NEW l \in Lock, NEW p \in Proc, NEW m \in {"NONE"} \cup LockType,
         Turns(l, p, m)
  PROVE  /\ held' \in [Lock -> [Proc -> {"NONE"} \cup LockType]]
         /\ held'[l] = [held[l] EXCEPT ![p] = m]
         /\ held'[l][p] = m
         /\ \A q \in Proc : q # p => held'[l][q] = held[l][q]
         /\ \A k \in Lock : k # l => held'[k] = held[k]
         /\ Only(p)
  <1>1. held \in [Lock -> [Proc -> {"NONE"} \cup LockType]]
    BY DEF LockTypes
  <1> QED
    BY <1>1 DEF Turns, Only

LEMMA LockKept ==
  ASSUME NEW l \in Lock, LockOK(l), held'[l] = held[l],
         num_readers'[l] = num_readers[l], type'[l] = type[l],
         write_hsl'[l] = write_hsl[l]
  PROVE  LockOK(l)'
  <1>1. Readers(l)' = Readers(l)
    BY DEF Readers
  <1> QED
    BY <1>1 DEF LockOK

LEMMA ReadersFinite ==
  ASSUME NEW l
  PROVE  /\ IsFiniteSet(Readers(l)) /\ Cardinality(Readers(l)) \in Nat
         /\ Cardinality(Readers(l)) <= Cardinality(Proc) /\ Cardinality(Proc) \in Nat
  <1>1. Readers(l) \in SUBSET Proc
    BY DEF Readers
  <1> QED
    BY <1>1, AgentAssumption, FS_Subset, FS_CardinalityType

LEMMA SomeReader ==
  ASSUME NEW l \in Lock, LockOK(l)
  PROVE  num_readers[l] # 0 <=> \E p \in Proc : held[l][p] = "READ"
  <1>1. Cardinality(Readers(l)) = 0 <=> Readers(l) = {}
    BY ReadersFinite, FS_EmptySet
  <1> QED
    BY <1>1 DEF LockOK, Readers

LEMMA JoinStep ==
  ASSUME LockTypes, LocksOK,
         NEW a \in Agent, NEW l \in Lock, NEW p \in Proc,
         l = arg[a].lock, p = arg[a].src, held[l][p] = "NONE",
         CanJoin(l), JoinReaders(a)
  PROVE  LockTypes' /\ LocksOK' /\ Only(p) /\ RWSteps
  <1>1. /\ l \in Lock /\ p \in Proc /\ held[l][p] = "NONE"
        /\ num_readers' = [num_readers EXCEPT ![l] = @ + 1]
        /\ type' = [type EXCEPT ![l] = "READ"]
        /\ write_hsl' = [write_hsl EXCEPT ![l] = TRUE]
        /\ read_hsl' = [read_hsl EXCEPT ![l] = None]
        /\ Turns(l, p, "READ") /\ CanJoin(l) /\ LockOK(l)
    BY DEF JoinReaders, Turns, LocksOK
  <1>2. /\ held' \in [Lock -> [Proc -> {"NONE"} \cup LockType]]
        /\ held'[l] = [held[l] EXCEPT ![p] = "READ"]
        /\ held'[l][p] = "READ"
        /\ \A q \in Proc : q # p => held'[l][q] = held[l][q]
        /\ \A k \in Lock : k # l => held'[k] = held[k]
        /\ Only(p)
    <2>1. "READ" \in {"NONE"} \cup LockType
      BY DEF LockType
    <2> QED
      BY <1>1, <2>1, Turned
  <1>3. \A q \in Proc : held[l][q] \in {"NONE", "READ"}
    <2>1. CASE num_readers[l] # 0
      <3>1. type[l] = "READ"
        BY <1>1, <2>1, SomeReader DEF LockOK
      <3> QED
        BY <1>1, <3>1 DEF LockOK
    <2>2. CASE ~write_hsl[l]
      BY <1>1, <2>2 DEF LockOK
    <2> QED
      BY <1>1, <2>1, <2>2 DEF CanJoin
  <1>4. Cardinality(Readers(l)') = num_readers[l] + 1
    <2>1. Readers(l)' = Readers(l) \cup {p} /\ p \notin Readers(l)
      BY <1>1, <1>2 DEF Readers
    <2>2. Cardinality(Readers(l) \cup {p}) = Cardinality(Readers(l)) + 1
      BY <2>1, ReadersFinite, FS_AddElement
    <2> QED
      BY <1>1, <2>1, <2>2 DEF LockOK
  <1>5. num_readers[l] + 1 \in 0 .. Cardinality(Proc)
    <2>1. Readers(l)' \in SUBSET Proc
      BY DEF Readers
    <2>2. Cardinality(Readers(l)') <= Cardinality(Proc)
      BY <2>1, AgentAssumption, FS_Subset
    <2>3. num_readers[l] \in Nat
      BY <1>1, ReadersFinite DEF LockOK
    <2> QED
      BY <1>4, <2>2, <2>3, ReadersFinite
  <1>6. LockTypes'
    BY <1>1, <1>2, <1>5 DEF LockTypes, LockType
  <1>7. LockOK(l)'
    <2>1. num_readers'[l] = num_readers[l] + 1 /\ type'[l] = "READ" /\ write_hsl'[l]
      BY <1>1 DEF LockTypes
    <2> QED
      BY <1>1, <1>2, <1>3, <1>4, <2>1 DEF LockOK
  <1>8. LocksOK'
    <2>1. ASSUME NEW k \in Lock, k # l PROVE LockOK(k)'
      <3>1. /\ held'[k] = held[k] /\ num_readers'[k] = num_readers[k]
            /\ type'[k] = type[k] /\ write_hsl'[k] = write_hsl[k]
        BY <1>1, <1>2, <2>1 DEF LockTypes
      <3> QED
        BY <3>1, LockKept DEF LocksOK
    <2> QED
      BY <1>7, <2>1 DEF LocksOK
  <1>9. RWSteps
    <2>1. RW(l)!Next
      BY <1>1, <1>2, <1>3 DEF RW!Next, RW!Acquire, RW!Compatible
    <2> QED
      BY <1>2, <2>1 DEF RWSteps
  <1> QED
    BY <1>2, <1>6, <1>8, <1>9

LEMMA WriteStep ==
  ASSUME LockTypes, LocksOK,
         NEW j, NEW l \in Lock, NEW p \in Proc, l = j.lock, p = j.src,
         ~write_hsl[l], LockForWriting(j)
  PROVE  LockTypes' /\ LocksOK' /\ Only(p) /\ RWSteps
  <1>1. /\ write_hsl' = [write_hsl EXCEPT ![l] = TRUE]
        /\ type' = [type EXCEPT ![l] = "WRITE"]
        /\ UNCHANGED <<num_readers, read_hsl>>
        /\ Turns(l, p, "WRITE") /\ LockOK(l)
    BY DEF LockForWriting, Turns, LocksOK
  <1>2. /\ held' \in [Lock -> [Proc -> {"NONE"} \cup LockType]]
        /\ held'[l] = [held[l] EXCEPT ![p] = "WRITE"]
        /\ held'[l][p] = "WRITE"
        /\ \A q \in Proc : q # p => held'[l][q] = held[l][q]
        /\ \A k \in Lock : k # l => held'[k] = held[k]
        /\ Only(p)
    <2>1. "WRITE" \in {"NONE"} \cup LockType
      BY DEF LockType
    <2> QED
      BY <1>1, <2>1, Turned
  <1>3. \A q \in Proc : held[l][q] = "NONE"
    BY <1>1 DEF LockOK
  <1>4. LockTypes'
    BY <1>1, <1>2 DEF LockTypes, LockType
  <1>5. LockOK(l)'
    <2>1. type'[l] = "WRITE" /\ write_hsl'[l]
      BY <1>1 DEF LockTypes
    <2>2. Readers(l)' = Readers(l)
      BY <1>2, <1>3 DEF Readers
    <2> QED
      BY <1>1, <1>2, <1>3, <2>1, <2>2 DEF LockOK
  <1>6. ASSUME NEW k \in Lock, k # l PROVE LockOK(k)'
    <2>1. /\ held'[k] = held[k] /\ num_readers'[k] = num_readers[k]
          /\ type'[k] = type[k] /\ write_hsl'[k] = write_hsl[k]
      BY <1>1, <1>2, <1>6 DEF LockTypes
    <2> QED
      BY <2>1, LockKept DEF LocksOK
  <1>7. RWSteps
    <2>1. RW(l)!Next
      BY <1>1, <1>2, <1>3 DEF RW!Next, RW!Acquire, RW!Compatible
    <2> QED
      BY <1>2, <2>1 DEF RWSteps
  <1> QED
    BY <1>2, <1>4, <1>5, <1>6, <1>7 DEF LocksOK

LEMMA UnlockStep ==
  ASSUME LockTypes, LocksOK,
         NEW j, NEW l \in Lock, NEW p \in Proc, l = j.lock, p = j.src,
         held[l][p] # "NONE", type[l] = "WRITE", UnlockForWriting(j)
  PROVE  LockTypes' /\ LocksOK' /\ Only(p) /\ RWSteps
  <1>1. /\ write_hsl' = [write_hsl EXCEPT ![l] = FALSE]
        /\ UNCHANGED <<num_readers, type, read_hsl>>
        /\ Turns(l, p, "NONE") /\ LockOK(l)
    BY DEF UnlockForWriting, Turns, LocksOK
  <1>2. /\ held' \in [Lock -> [Proc -> {"NONE"} \cup LockType]]
        /\ held'[l] = [held[l] EXCEPT ![p] = "NONE"]
        /\ held'[l][p] = "NONE"
        /\ \A q \in Proc : q # p => held'[l][q] = held[l][q]
        /\ \A k \in Lock : k # l => held'[k] = held[k]
        /\ Only(p)
    BY <1>1, Turned
  <1>3. /\ held[l][p] = "WRITE"
        /\ \A q \in Proc : q # p => held[l][q] = "NONE"
    BY <1>1 DEF LockOK
  <1>4. LockTypes'
    BY <1>1, <1>2 DEF LockTypes, LockType
  <1>5. LockOK(l)'
    <2>1. ~write_hsl'[l] /\ \A q \in Proc : held'[l][q] = "NONE"
      BY <1>1, <1>2, <1>3 DEF LockTypes
    <2>2. Readers(l)' = Readers(l)
      BY <1>2, <1>3 DEF Readers
    <2> QED
      BY <1>1, <1>2, <1>3, <2>1, <2>2 DEF LockOK
  <1>6. ASSUME NEW k \in Lock, k # l PROVE LockOK(k)'
    <2>1. /\ held'[k] = held[k] /\ num_readers'[k] = num_readers[k]
          /\ type'[k] = type[k] /\ write_hsl'[k] = write_hsl[k]
      BY <1>1, <1>2, <1>6 DEF LockTypes
    <2> QED
      BY <2>1, LockKept DEF LocksOK
  <1>7. RWSteps
    <2>1. RW(l)!Next
      BY <1>2, <1>3 DEF RW!Next, RW!Release
    <2> QED
      BY <1>2, <2>1 DEF RWSteps
  <1> QED
    BY <1>2, <1>4, <1>5, <1>6, <1>7 DEF LocksOK

(* What unlock_leave does to its lock.                                     *)
Leaves(l, p) ==
  /\ num_readers' = [num_readers EXCEPT ![l] = @ - 1]
  /\ write_hsl' = [write_hsl EXCEPT ![l] = num_readers[l] # 1]
  /\ read_hsl' = [read_hsl EXCEPT ![l] = None]
  /\ Turns(l, p, "NONE")
  /\ UNCHANGED type

LEMMA LeaveStep ==
  ASSUME LockTypes, LocksOK,
         NEW l \in Lock, NEW p \in Proc, held[l][p] = "READ", Leaves(l, p)
  PROVE  LockTypes' /\ LocksOK' /\ Only(p) /\ RWSteps
  <1>1. LockOK(l) /\ Turns(l, p, "NONE")
    BY DEF Leaves, LocksOK
  <1>2. /\ held' \in [Lock -> [Proc -> {"NONE"} \cup LockType]]
        /\ held'[l] = [held[l] EXCEPT ![p] = "NONE"]
        /\ held'[l][p] = "NONE"
        /\ \A q \in Proc : q # p => held'[l][q] = held[l][q]
        /\ \A k \in Lock : k # l => held'[k] = held[k]
        /\ Only(p)
    BY <1>1, Turned
  <1>3. \A q \in Proc : held[l][q] \in {"NONE", "READ"}
    <2>1. type[l] = "READ"
      BY <1>1 DEF LockOK
    <2> QED
      BY <1>1, <2>1 DEF LockOK
  <1>4. Readers(l)' = Readers(l) \ {p} /\ p \in Readers(l)
    BY <1>2 DEF Readers
  <1>5. /\ Cardinality(Readers(l)') = num_readers[l] - 1
        /\ num_readers[l] \in Nat /\ num_readers[l] # 0
        /\ num_readers[l] <= Cardinality(Proc) /\ Cardinality(Proc) \in Nat
    <2>1. Cardinality(Readers(l) \ {p}) = Cardinality(Readers(l)) - 1
      BY <1>4, ReadersFinite, FS_RemoveElement
    <2>2. Cardinality(Readers(l)) # 0
      BY <1>4, ReadersFinite, FS_EmptySet
    <2>3. num_readers[l] = Cardinality(Readers(l))
      BY <1>1 DEF LockOK
    <2> QED
      BY <1>4, <2>1, <2>2, <2>3, ReadersFinite
  <1>6. LockTypes'
    <2>1. num_readers' \in [Lock -> 0 .. Cardinality(Proc)]
      <3>1. num_readers[l] - 1 \in 0 .. Cardinality(Proc)
        BY <1>5
      <3> QED
        BY <3>1 DEF LockTypes, Leaves
    <2>2. /\ write_hsl' \in [Lock -> BOOLEAN]
          /\ read_hsl' \in [Lock -> Agent \cup {None}]
          /\ type' \in [Lock -> LockType]
      BY DEF LockTypes, Leaves
    <2> QED
      BY <1>2, <2>1, <2>2 DEF LockTypes
  <1>7. num_readers[l] = 1 <=> Readers(l)' = {}
    <2>1. Cardinality(Readers(l)') = 0 <=> Readers(l)' = {}
      <3>1. IsFiniteSet(Readers(l)')
        BY <1>4, ReadersFinite, FS_RemoveElement
      <3> QED
        BY <3>1, FS_EmptySet
    <2> QED
      BY <1>5, <2>1
  <1>8. LockOK(l)'
    <2>1. /\ num_readers'[l] = num_readers[l] - 1 /\ type'[l] = type[l]
          /\ write_hsl'[l] <=> num_readers[l] # 1
      BY DEF LockTypes, Leaves
    <2>2. /\ num_readers'[l] = Cardinality(Readers(l)')
          /\ write_hsl'[l] <=> \E q \in Proc : held'[l][q] # "NONE"
      BY <1>2, <1>3, <1>5, <1>7, <2>1 DEF Readers
    <2>3. /\ \A q \in Proc : held'[l][q] # "NONE" => type'[l] = held'[l][q]
          /\ \A q \in Proc : held'[l][q] # "WRITE"
      BY <1>1, <1>2, <1>3, <2>1 DEF LockOK
    <2> QED
      BY <2>2, <2>3 DEF LockOK
  <1>9. ASSUME NEW k \in Lock, k # l PROVE LockOK(k)'
    <2>1. /\ held'[k] = held[k] /\ num_readers'[k] = num_readers[k]
          /\ type'[k] = type[k] /\ write_hsl'[k] = write_hsl[k]
      BY <1>2, <1>9 DEF LockTypes, Leaves
    <2> QED
      BY <2>1, LockKept DEF LocksOK
  <1>10. RWSteps
    <2>1. RW(l)!Next
      BY <1>2 DEF RW!Next, RW!Release
    <2> QED
      BY <1>2, <2>1 DEF RWSteps
  <1> QED
    BY <1>2, <1>6, <1>8, <1>9, <1>10 DEF LocksOK

(* Nothing but read_hsl changes.                                           *)
LEMMA LocksStay ==
  ASSUME LockTypes, LocksOK,
         UNCHANGED <<num_readers, type, write_hsl, held>>,
         read_hsl' \in [Lock -> Agent \cup {None}]
  PROVE  LockTypes' /\ LocksOK' /\ RWSteps
  BY LockKept DEF LockTypes, LocksOK, RWSteps

-----------------------------------------------------------------------------
(* The steps of Next.  Each keeps the invariant and is, for every lock, a  *)
(* step of RWLock or none.                                                 *)

Kept == IInv' /\ RWSteps

LEMMA InvParts ==
  IInv <=> OnInv /\ LockTypes /\ Errands /\ ReadHslOK /\ LocksOK
  BY TypeParts DEF IInv, OnInv

LEMMA InvPartsNext ==
  IInv' <=> OnInv' /\ LockTypes' /\ Errands' /\ ReadHslOK' /\ LocksOK'
  BY InvParts, PTL

(* What an agent at work on a call knows.                                  *)
LEMMA AtWork ==
  ASSUME IInv, NEW a \in Agent, Busy(a)
  PROVE  /\ arg[a] \in Job /\ arg[a].src \in Proc /\ CallOK(arg[a]) /\ ErrandOK(a)
         /\ arg[a].op \in {"lock", "unlock"} =>
              arg[a].lock \in Lock /\ arg[a].type \in LockType
         /\ arg[a].op = "lock" => held[arg[a].lock][arg[a].src] = "NONE"
         /\ arg[a].op = "unlock" => held[arg[a].lock][arg[a].src] = arg[a].type
  <1>1. arg[a] \in Job /\ CallOK(arg[a]) /\ ErrandOK(a)
    BY DEF IInv, InFlight, CallsOK, Errands
  <1>2. arg[a].op \in {"lock", "unlock"} =>
          arg[a].lock \in Lock /\ arg[a].type \in LockType
    BY <1>1, LockAssumption DEF LockJob, OnJob
  <1> QED
    BY <1>1, <1>2, Srcs DEF CallOK

LEMMA AtRequest ==
  ASSUME IInv, NEW j \in requests
  PROVE  /\ j \in Job /\ j.src \in Proc /\ CallOK(j)
         /\ j.op \in {"lock", "unlock"} => j.lock \in Lock /\ j.type \in LockType
         /\ j.op = "lock" => held[j.lock][j.src] = "NONE"
         /\ j.op = "unlock" => held[j.lock][j.src] = j.type
  <1>1. j \in Job /\ CallOK(j)
    BY DEF IInv, TypeOK, CallsOK
  <1>2. j.op \in {"lock", "unlock"} => j.lock \in Lock /\ j.type \in LockType
    BY <1>1, LockAssumption DEF LockJob, OnJob
  <1> QED
    BY <1>1, <1>2, Srcs DEF CallOK

LEMMA StepClient ==
  ASSUME IInv, NEW j \in Job, ClientStep(j) PROVE Kept
  <1>1. UNCHANGED <<num_readers, type, read_hsl, write_hsl, held>>
    BY DEF ClientStep, lockVars
  <1>2. PICK at \in {"lock", "unlock", "run"} :
          /\ Invoke(j, at)
          /\ at = "lock" => j.op = "lock" /\ Holds(j.src) = {}
          /\ at = "unlock" => j.op = "unlock" /\ held[j.lock][j.src] = j.type
          /\ at = "run" => j.op \in {"on", "on_pthread"} /\ j.src # Home
    BY DEF ClientStep, Locks, Unlocks, Calls
  <1>3. CallOK(j)
    BY <1>2 DEF CallOK, Holds
  <1>4. OnInv'
    BY <1>1, <1>2, <1>3, OnInvoke, InvParts
  <1>5. LockTypes' /\ LocksOK' /\ RWSteps
    BY <1>1, LocksStay, InvParts DEF LockTypes
  <1>6. /\ state[j.src] = "DONE"
        /\ \/ /\ j.src = Home
              /\ pc' = [pc EXCEPT ![Home] = at] /\ arg' = [arg EXCEPT ![Home] = j]
           \/ j.src # Home /\ UNCHANGED <<pc, arg>>
        /\ \A a \in Agent : a # Home => pc'[a] = pc[a] /\ arg'[a] = arg[a]
        /\ j.src = Home => pc'[Home] = at /\ arg'[Home] = j
    <2>1. Home \in Agent /\ pc = [a \in Agent |-> pc[a]] /\ arg = [a \in Agent |-> arg[a]]
      BY Agents DEF IInv, TypeOK
    <2> QED
      BY <1>2, <2>1 DEF Invoke
  <1>7. Errands'
    BY <1>2, <1>6 DEF IInv, Errands, ErrandOK
  <1>8. ReadHslOK'
    <2>1. CASE j.src = Home
      <3>1. pc[Home] = "run"
        BY <1>6, <2>1, Agents DEF IInv, OwnCall, InFlight, Busy
      <3> QED
        BY <1>1, <1>6, <3>1 DEF IInv, ReadHslOK
    <2>2. CASE j.src # Home
      BY <1>1, <1>6, <2>2 DEF IInv, ReadHslOK
    <2> QED
      BY <2>1, <2>2
  <1> QED
    BY <1>4, <1>5, <1>7, <1>8, InvPartsNext DEF Kept

(* Steps after which nobody new is at pc in a place ErrandOK or ReadHslOK   *)
(* speak of.                                                               *)
LEMMA ErrandsKept ==
  ASSUME Errands,
         \A a \in Agent : \/ pc'[a] = pc[a] /\ arg'[a] = arg[a]
                          \/ pc'[a] \notin LockPC \cup {"lock", "unlock"}
  PROVE  Errands'
  BY DEF Errands, ErrandOK, LockPC

LEMMA ReadHslKept ==
  ASSUME ReadHslOK, \A l \in Lock : read_hsl'[l] # None => read_hsl'[l] = read_hsl[l],
         \A a \in Agent : \/ pc'[a] = pc[a] /\ arg'[a] = arg[a]
                          \/ pc[a] \notin {"readers", "try_readers", "leave"}
                          \/ \A l \in Lock : read_hsl'[l] # a
  PROVE  ReadHslOK'
  BY DEF ReadHslOK

LEMMA ServedWork ==
  ASSUME IInv, NEW h \in Handler, NEW j, grt_on_handler_work(h, j),
         UNCHANGED read_hsl
  PROVE  Errands' /\ ReadHslOK'
  BY DEF IInv, Errands, ErrandOK, ReadHslOK, grt_on_handler_work

LEMMA HandedWork ==
  ASSUME IInv, NEW h \in Handler, NEW j, HandOff(h, j),
         \/ pc[h] = "poll" /\ UNCHANGED read_hsl
         \/ /\ pc[h] = "try_readers"
            /\ \A l \in Lock : read_hsl'[l] # None =>
                                 read_hsl'[l] = read_hsl[l] /\ arg[h].lock # l
  PROVE  Errands' /\ ReadHslOK'
  <1>1. PICK t \in Thread : Given(h, t, j)
    BY Gives DEF IInv, TypeOK, OnTypes
  <1>2. /\ h \in Agent /\ t \in Agent /\ h # t
        /\ pc[t] \notin {"readers", "try_readers", "leave"}
        /\ pc'[h] \in {"poll", "proceed"}
        /\ pc'[t] = pc[t] \/ pc'[t] = "check"
        /\ pc[t] \in Idle \cup {"unused"}
        /\ \A a \in Agent : a # h /\ a # t => pc'[a] = pc[a] /\ arg'[a] = arg[a]
    BY <1>1, Agents DEF Given, IInv, TypeOK, Pool, Idle
  <1>3. Errands'
    BY <1>2, ErrandsKept DEF IInv, LockPC, Idle
  <1>4. ReadHslOK'
    BY <1>2, ReadHslKept DEF IInv, ReadHslOK
  <1> QED
    BY <1>3, <1>4

LEMMA StepTryWrite ==
  ASSUME IInv, NEW h \in Handler, NEW j \in requests, trylock_write(h, j) PROVE Kept
  <1>1. /\ j \in Job /\ j.src \in Proc /\ j.lock \in Lock
        /\ held[j.lock][j.src] = "NONE"
    BY AtRequest DEF trylock_write
  <1>2. CASE ~write_hsl[j.lock] /\ grt_on_handler_work(h, j) /\ LockForWriting(j)
    <2>1. LockTypes' /\ LocksOK' /\ Only(j.src) /\ RWSteps
      BY <1>1, <1>2, WriteStep, InvParts
    <2>2. OnInv'
      BY <1>1, <1>2, <2>1, OnServed, InvParts
    <2>3. Errands' /\ ReadHslOK'
      BY <1>2, ServedWork DEF LockForWriting
    <2> QED
      BY <2>1, <2>2, <2>3, InvPartsNext DEF Kept
  <1>3. CASE Receive(h, j) /\ HandOff(h, j) /\ UNCHANGED <<state, lockVars>>
    <2>1. UNCHANGED <<num_readers, type, read_hsl, write_hsl, held>>
      BY <1>3 DEF lockVars
    <2>2. LockTypes' /\ LocksOK' /\ RWSteps
      BY <2>1, LocksStay, InvParts DEF LockTypes
    <2>3. OnInv'
      BY <1>1, <1>3, <2>1, OnHandOff, InvParts
    <2>4. Errands' /\ ReadHslOK'
      BY <1>3, <2>1, HandedWork DEF Receive
    <2> QED
      BY <2>2, <2>3, <2>4, InvPartsNext DEF Kept
  <1> QED
    BY <1>2, <1>3 DEF trylock_write

(* A handler starts on request j, at a place where it has read_hsl or none. *)
LEMMA StartsErrand ==
  ASSUME IInv, NEW h \in Handler, NEW j \in requests, NEW at, StartsWork(h, j, at),
         \/ /\ at = "try_readers" /\ j.op = "lock" /\ j.type = "READ"
            /\ j.lock \in Lock /\ TakeReadHsl(h, j.lock)
         \/ at = "unread" /\ j.op = "unlock" /\ j.type = "READ" /\ UNCHANGED read_hsl
  PROVE  Errands' /\ ReadHslOK' /\ read_hsl' \in [Lock -> Agent \cup {None}]
  <1>1. /\ h \in Agent /\ pc[h] = "poll"
        /\ pc'[h] = at /\ arg'[h] = j
        /\ \A a \in Agent : a # h => pc'[a] = pc[a] /\ arg'[a] = arg[a]
    BY Agents DEF StartsWork, Receive, IInv, TypeOK
  <1>2. Errands'
    BY <1>1 DEF IInv, Errands, ErrandOK
  <1>3. CASE UNCHANGED read_hsl
    BY <1>1, <1>2, <1>3 DEF IInv, TypeOK, ReadHslOK
  <1>4. CASE at = "try_readers" /\ TakeReadHsl(h, j.lock) /\ j.lock \in Lock
    <2>1. /\ read_hsl' \in [Lock -> Agent \cup {None}] /\ read_hsl'[j.lock] = h
          /\ \A l \in Lock : l # j.lock => read_hsl'[l] = read_hsl[l]
      BY <1>1, <1>4 DEF TakeReadHsl, IInv, TypeOK
    <2>2. ReadHslOK'
      BY <1>1, <1>4, <2>1 DEF IInv, ReadHslOK
    <2> QED
      BY <1>2, <2>1, <2>2
  <1> QED
    BY <1>3, <1>4

LEMMA StepTryRead ==
  ASSUME IInv, NEW h \in Handler, NEW j \in requests, trylock_read(h, j) PROVE Kept
  <1>1. /\ j \in Job /\ j.src \in Proc /\ j.lock \in Lock
        /\ j.op = "lock" /\ j.type = "READ"
        /\ UNCHANGED <<num_readers, type, write_hsl, held>>
    BY AtRequest DEF trylock_read, lockVars
  <1>2. CASE TakeReadHsl(h, j.lock) /\ StartsWork(h, j, "try_readers")
    <2>1. Errands' /\ ReadHslOK' /\ read_hsl' \in [Lock -> Agent \cup {None}]
      BY <1>1, <1>2, StartsErrand
    <2>2. OnInv'
      BY <1>1, <1>2, OnStarts, InvParts DEF HandlerWork
    <2>3. LockTypes' /\ LocksOK' /\ RWSteps
      BY <1>1, <2>1, LocksStay, InvParts
    <2> QED
      BY <2>1, <2>2, <2>3, InvPartsNext DEF Kept
  <1>3. CASE Receive(h, j) /\ HandOff(h, j) /\ UNCHANGED <<state, lockVars>>
    <2>1. UNCHANGED <<read_hsl, held>>
      BY <1>3 DEF lockVars
    <2>2. LockTypes' /\ LocksOK' /\ RWSteps
      BY <1>1, <2>1, LocksStay, InvParts DEF LockTypes
    <2>3. OnInv'
      BY <1>1, <1>3, <2>1, OnHandOff, InvParts
    <2>4. Errands' /\ ReadHslOK'
      BY <1>3, <2>1, HandedWork DEF Receive
    <2> QED
      BY <2>2, <2>3, <2>4, InvPartsNext DEF Kept
  <1> QED
    BY <1>2, <1>3 DEF trylock_read

(* After its Reply an agent has nothing at all.                            *)
LEMMA ReplyWork ==
  ASSUME IInv, NEW a \in Agent, Working(a), Reply(a),
         \A l \in Lock : read_hsl'[l] # None => read_hsl'[l] = read_hsl[l],
         pc[a] \in {"readers", "try_readers", "leave"} =>
           \A l \in Lock : arg[a].lock = l => read_hsl'[l] = None
  PROVE  Errands' /\ ReadHslOK'
  <1>1. /\ pc'[a] \in {"run", "poll", "add"}
        /\ \A b \in Agent : b # a => pc'[b] = pc[b] /\ arg'[b] = arg[b]
    BY DEF Reply, After, IInv, TypeOK
  <1>2. Errands'
    BY <1>1, ErrandsKept DEF IInv, LockPC
  <1>3. \A l \in Lock : a # None /\ pc[a] \in {"readers", "try_readers", "leave"} =>
          read_hsl'[l] # a
    BY DEF IInv, ReadHslOK
  <1>4. a # None
    BY AgentAssumption
  <1>5. ReadHslOK'
    BY <1>1, <1>3, <1>4, ReadHslKept DEF IInv
  <1> QED
    BY <1>2, <1>5

LEMMA Joined ==
  ASSUME IInv, NEW a \in Agent, Working(a), pc[a] \in {"readers", "try_readers"},
         CanJoin(arg[a].lock), JoinReaders(a), Reply(a)
  PROVE  Kept
  <1>1. Busy(a)
    BY BusyAgents DEF IInv
  <1>2. PICK l \in Lock, p \in Proc : l = arg[a].lock /\ p = arg[a].src
                                       /\ held[l][p] = "NONE"
    BY <1>1, AtWork DEF ErrandOK
  <1>3. LockTypes' /\ LocksOK' /\ Only(p) /\ RWSteps
    BY <1>2, JoinStep, InvParts
  <1>4. OnInv'
    BY <1>2, <1>3, OnReply, InvParts
  <1>5. read_hsl' = [read_hsl EXCEPT ![l] = None]
    BY <1>2 DEF JoinReaders
  <1>6. Errands' /\ ReadHslOK'
    BY <1>2, <1>5, ReplyWork DEF IInv, TypeOK
  <1> QED
    BY <1>3, <1>4, <1>6, InvPartsNext DEF Kept

LEMMA StepTryReaders ==
  ASSUME IInv, NEW h \in Handler, trylock_readers(h) PROVE Kept
  <1>1. /\ pc[h] = "try_readers" /\ h \in Agent /\ Working(h) /\ Busy(h)
        /\ pc[h] \in HandlerWork
    BY BusyAgents, Agents DEF trylock_readers, IInv, Working, HandlerWork
  <1>2. CASE CanJoin(arg[h].lock) /\ JoinReaders(h) /\ Reply(h)
    BY <1>1, <1>2, Joined
  <1>3. CASE /\ read_hsl' = [read_hsl EXCEPT ![arg[h].lock] = None]
             /\ HandOff(h, arg[h])
             /\ UNCHANGED <<state, requests, num_readers, type, write_hsl, held>>
    <2>1. OnInv'
      BY <1>1, <1>3, OnHandOver, InvParts
    <2>2. LockTypes' /\ LocksOK' /\ RWSteps
      BY <1>3, LocksStay, InvParts DEF LockTypes
    <2>3. arg[h].lock \in Lock
      BY <1>1, AtWork DEF ErrandOK
    <2>4. Errands' /\ ReadHslOK'
      BY <1>1, <1>3, <2>3, HandedWork DEF IInv, TypeOK
    <2> QED
      BY <2>1, <2>2, <2>4, InvPartsNext DEF Kept
  <1> QED
    BY <1>2, <1>3 DEF trylock_readers

LEMMA StepLockWrite ==
  ASSUME IInv, NEW a \in Agent, lock_write(a) PROVE Kept
  <1>1. /\ Working(a) /\ Busy(a) /\ arg[a].op = "lock"
        /\ pc[a] \notin {"readers", "try_readers", "leave"}
        /\ ~write_hsl[arg[a].lock] /\ LockForWriting(arg[a]) /\ Reply(a)
    BY BusyAgents DEF lock_write, Locking, Working, IInv
  <1>2. PICK l \in Lock, p \in Proc : l = arg[a].lock /\ p = arg[a].src
    BY <1>1, AtWork
  <1>3. LockTypes' /\ LocksOK' /\ Only(p) /\ RWSteps
    BY <1>1, <1>2, WriteStep, InvParts
  <1>4. OnInv'
    BY <1>1, <1>2, <1>3, OnReply, InvParts
  <1>5. Errands' /\ ReadHslOK'
    BY <1>1, ReplyWork DEF LockForWriting
  <1> QED
    BY <1>3, <1>4, <1>5, InvPartsNext DEF Kept

(* An agent at work goes on to pc at, with or without read_hsl.            *)
LEMMA GoesErrand ==
  ASSUME IInv, NEW a \in Agent, Busy(a), NEW at, pc' = [pc EXCEPT ![a] = at],
         UNCHANGED arg, pc[a] \notin {"readers", "try_readers", "leave"},
         \/ /\ at = "readers" /\ arg[a].op = "lock" /\ arg[a].type = "READ"
            /\ TakeReadHsl(a, arg[a].lock)
         \/ /\ at = "unread" /\ arg[a].op = "unlock" /\ arg[a].type = "READ"
            /\ UNCHANGED read_hsl
         \/ /\ at = "leave" /\ arg[a].op = "unlock" /\ arg[a].type = "READ"
            /\ TakeReadHsl(a, arg[a].lock)
  PROVE  Errands' /\ ReadHslOK' /\ read_hsl' \in [Lock -> Agent \cup {None}]
  <1>1. /\ pc'[a] = at /\ UNCHANGED arg
        /\ \A b \in Agent : b # a => pc'[b] = pc[b]
        /\ arg[a].lock \in Lock
    BY AtWork DEF IInv, TypeOK
  <1>2. Errands'
    BY <1>1 DEF IInv, Errands, ErrandOK
  <1>3. CASE UNCHANGED read_hsl
    BY <1>1, <1>2, <1>3 DEF IInv, TypeOK, ReadHslOK
  <1>4. CASE at \in {"readers", "leave"} /\ TakeReadHsl(a, arg[a].lock)
    <2>1. /\ read_hsl' \in [Lock -> Agent \cup {None}] /\ read_hsl'[arg[a].lock] = a
          /\ \A l \in Lock : l # arg[a].lock => read_hsl'[l] = read_hsl[l]
      BY <1>1, <1>4 DEF TakeReadHsl, IInv, TypeOK
    <2>2. ReadHslOK'
      BY <1>1, <1>4, <2>1 DEF IInv, ReadHslOK
    <2> QED
      BY <1>2, <2>1, <2>2
  <1> QED
    BY <1>3, <1>4

LEMMA StepLockRead ==
  ASSUME IInv, NEW a \in Agent, lock_read(a) PROVE Kept
  <1>1. /\ Working(a) /\ Busy(a) /\ a \notin Handler
        /\ arg[a].op = "lock" /\ arg[a].type = "READ"
        /\ pc[a] \notin {"readers", "try_readers", "leave"}
        /\ TakeReadHsl(a, arg[a].lock)
        /\ pc' = [pc EXCEPT ![a] = "readers"]
        /\ UNCHANGED <<state, requests, arg, poolVars>>
        /\ UNCHANGED <<num_readers, type, write_hsl, held>>
    BY BusyAgents, Agents DEF lock_read, Locking, Working, IInv
  <1>2. Errands' /\ ReadHslOK' /\ read_hsl' \in [Lock -> Agent \cup {None}]
    BY <1>1, GoesErrand
  <1>3. OnInv'
    BY <1>1, OnGoesOn, InvParts DEF Working
  <1>4. LockTypes' /\ LocksOK' /\ RWSteps
    BY <1>1, <1>2, LocksStay, InvParts
  <1> QED
    BY <1>2, <1>3, <1>4, InvPartsNext DEF Kept

LEMMA AtReaders ==
  ASSUME IInv, NEW a \in Agent,
         pc[a] \in {"readers", "try_readers", "unread", "leave"}
  PROVE  Working(a) /\ Busy(a)
  <1>1. Working(a)
    BY Agents DEF IInv, Pool, Places, Working, HomePC, HandlerPC, HandlerWork,
       ThreadPC, Agent
  <1> QED
    BY <1>1, BusyAgents DEF IInv

LEMMA StepLockReaders ==
  ASSUME IInv, NEW a \in Agent, lock_readers(a) PROVE Kept
  BY AtReaders, Joined DEF lock_readers

LEMMA StepUnlockRead ==
  ASSUME IInv, NEW a \in Agent, unlock_read(a) PROVE Kept
  <1>1. /\ Working(a) /\ Busy(a) /\ a \notin Thread /\ pc[a] = "unread"
        /\ TakeReadHsl(a, arg[a].lock)
        /\ pc' = [pc EXCEPT ![a] = "leave"]
        /\ UNCHANGED <<state, requests, arg, poolVars>>
        /\ UNCHANGED <<num_readers, type, write_hsl, held>>
    BY AtReaders, Agents DEF unlock_read, Working
  <1>2. arg[a].op = "unlock" /\ arg[a].type = "READ"
    BY <1>1, AtWork DEF ErrandOK
  <1>3. Errands' /\ ReadHslOK' /\ read_hsl' \in [Lock -> Agent \cup {None}]
    BY <1>1, <1>2, GoesErrand
  <1>4. OnInv'
    BY <1>1, OnGoesOn, InvParts DEF Working, HandlerWork
  <1>5. LockTypes' /\ LocksOK' /\ RWSteps
    BY <1>1, <1>3, LocksStay, InvParts
  <1> QED
    BY <1>3, <1>4, <1>5, InvPartsNext DEF Kept

LEMMA StepUnlockLeave ==
  ASSUME IInv, NEW a \in Agent, unlock_leave(a) PROVE Kept
  <1>1. Working(a) /\ Busy(a) /\ pc[a] = "leave" /\ Reply(a)
    BY AtReaders DEF unlock_leave
  <1>2. PICK l \in Lock, p \in Proc : l = arg[a].lock /\ p = arg[a].src
                                       /\ held[l][p] = "READ"
    BY <1>1, AtWork DEF ErrandOK
  <1>3. Leaves(l, p)
    BY <1>2 DEF unlock_leave, Leaves, Turns
  <1>4. LockTypes' /\ LocksOK' /\ Only(p) /\ RWSteps
    BY <1>2, <1>3, LeaveStep, InvParts
  <1>5. OnInv'
    BY <1>1, <1>2, <1>4, OnReply, InvParts
  <1>6. Errands' /\ ReadHslOK'
    BY <1>1, <1>2, <1>3, ReplyWork DEF Leaves, IInv, TypeOK
  <1> QED
    BY <1>4, <1>5, <1>6, InvPartsNext DEF Kept

LEMMA StepUnlockHandler ==
  ASSUME IInv, NEW h \in Handler, NEW j \in requests, new_unlock_handler(h, j)
  PROVE  Kept
  <1>1. PICK l \in Lock, p \in Proc :
          /\ l = j.lock /\ p = j.src /\ j \in Job /\ j.op = "unlock"
          /\ held[l][p] = j.type /\ j.type \in LockType
    BY AtRequest DEF new_unlock_handler
  <1>2. held[l][p] # "NONE"
    BY <1>1 DEF LockType
  <1>3. CASE type[l] = "WRITE" /\ grt_on_handler_work(h, j) /\ UnlockForWriting(j)
    <2>1. LockTypes' /\ LocksOK' /\ Only(p) /\ RWSteps
      BY <1>1, <1>2, <1>3, UnlockStep, InvParts
    <2>2. OnInv'
      BY <1>1, <1>3, <2>1, OnServed, InvParts
    <2>3. Errands' /\ ReadHslOK'
      BY <1>3, ServedWork DEF UnlockForWriting
    <2> QED
      BY <2>1, <2>2, <2>3, InvPartsNext DEF Kept
  <1>4. CASE type[l] = "READ" /\ StartsWork(h, j, "unread") /\ UNCHANGED lockVars
    <2>1. UNCHANGED <<num_readers, type, read_hsl, write_hsl, held>>
      BY <1>4 DEF lockVars
    <2>2. j.type = "READ"
      BY <1>1, <1>2, <1>4 DEF IInv, LocksOK, LockOK
    <2>3. Errands' /\ ReadHslOK' /\ read_hsl' \in [Lock -> Agent \cup {None}]
      BY <1>1, <1>4, <2>1, <2>2, StartsErrand
    <2>4. OnInv'
      BY <1>1, <1>4, <2>1, OnStarts, InvParts DEF HandlerWork
    <2>5. LockTypes' /\ LocksOK' /\ RWSteps
      BY <2>1, <2>3, LocksStay, InvParts
    <2> QED
      BY <2>3, <2>4, <2>5, InvPartsNext DEF Kept
  <1> QED
    BY <1>1, <1>3, <1>4 DEF new_unlock_handler

LEMMA StepUnlockHome == ASSUME IInv, new_unlock_home PROVE Kept
  <1>1. /\ Home \in Agent /\ Working(Home) /\ Busy(Home) /\ pc[Home] = "unlock"
        /\ arg[Home].op = "unlock"
    BY BusyAgents, Agents DEF new_unlock_home, IInv, Working, Errands, ErrandOK
  <1>2. PICK l \in Lock, p \in Proc :
          /\ l = arg[Home].lock /\ p = arg[Home].src
          /\ held[l][p] = arg[Home].type /\ arg[Home].type \in LockType
    BY <1>1, AtWork
  <1>3. held[l][p] # "NONE"
    BY <1>2 DEF LockType
  <1>4. CASE type[l] = "WRITE" /\ UnlockForWriting(arg[Home]) /\ Reply(Home)
    <2>1. LockTypes' /\ LocksOK' /\ Only(p) /\ RWSteps
      BY <1>2, <1>3, <1>4, UnlockStep, InvParts
    <2>2. OnInv'
      BY <1>1, <1>2, <1>4, <2>1, OnReply, InvParts
    <2>3. Errands' /\ ReadHslOK'
      BY <1>1, <1>4, ReplyWork DEF UnlockForWriting
    <2> QED
      BY <2>1, <2>2, <2>3, InvPartsNext DEF Kept
  <1>5. CASE /\ type[l] = "READ"
             /\ pc' = [pc EXCEPT ![Home] = "unread"]
             /\ UNCHANGED <<state, requests, arg, poolVars, lockVars>>
    <2>1. UNCHANGED <<num_readers, type, read_hsl, write_hsl, held>>
      BY <1>5 DEF lockVars
    <2>2. arg[Home].type = "READ"
      BY <1>2, <1>3, <1>5 DEF IInv, LocksOK, LockOK
    <2>3. Errands' /\ ReadHslOK' /\ read_hsl' \in [Lock -> Agent \cup {None}]
      BY <1>1, <1>5, <2>1, <2>2, GoesErrand
    <2>4. OnInv'
      BY <1>1, <1>5, <2>1, OnGoesOn, InvParts
    <2>5. LockTypes' /\ LocksOK' /\ RWSteps
      BY <2>1, <2>3, LocksStay, InvParts
    <2> QED
      BY <2>3, <2>4, <2>5, InvPartsNext DEF Kept
  <1> QED
    BY <1>2, <1>4, <1>5 DEF new_unlock_home

LEMMA StepOnHandler ==
  ASSUME IInv, NEW h \in Handler, NEW j \in requests, on_handler(h, j) PROVE Kept
  <1>1. j \in Job /\ UNCHANGED <<num_readers, type, read_hsl, write_hsl, held>>
    BY AtRequest DEF on_handler, lockVars
  <1>2. LockTypes' /\ LocksOK' /\ RWSteps
    BY <1>1, LocksStay, InvParts DEF LockTypes
  <1>3. CASE grt_on_handler_work(h, j)
    <2>1. OnInv'
      BY <1>1, <1>3, OnServed, InvParts DEF Only
    <2> QED
      BY <1>1, <1>2, <1>3, <2>1, ServedWork, InvPartsNext DEF Kept
  <1>4. CASE Receive(h, j) /\ HandOff(h, j) /\ UNCHANGED state
    <2>1. OnInv'
      BY <1>1, <1>4, OnHandOff, InvParts
    <2>2. Errands' /\ ReadHslOK'
      BY <1>1, <1>4, HandedWork DEF Receive
    <2> QED
      BY <1>2, <2>1, <2>2, InvPartsNext DEF Kept
  <1> QED
    BY <1>3, <1>4 DEF on_handler

LEMMA StepOnThread ==
  ASSUME IInv, NEW t \in Thread, on_thread(t) PROVE Kept
  <1>1. /\ t \in Agent /\ Working(t) /\ pc[t] = "job" /\ Reply(t)
        /\ UNCHANGED <<num_readers, type, read_hsl, write_hsl, held>>
    BY Agents DEF on_thread, Working, lockVars
  <1>2. LockTypes' /\ LocksOK' /\ RWSteps
    BY <1>1, LocksStay, InvParts DEF LockTypes
  <1>3. OnInv'
    BY <1>1, OnReply, InvParts DEF Only
  <1>4. Errands' /\ ReadHslOK'
    BY <1>1, ReplyWork
  <1> QED
    BY <1>2, <1>3, <1>4, InvPartsNext DEF Kept

LEMMA StepPool == ASSUME IInv, PoolNext, UNCHANGED lockVars PROVE Kept
  <1>1. UNCHANGED <<num_readers, type, read_hsl, write_hsl, held>>
    BY DEF lockVars
  <1>2. LockTypes' /\ LocksOK' /\ RWSteps
    BY <1>1, LocksStay, InvParts DEF LockTypes
  <1>3. OnInv'
    BY <1>1, OnPool, InvParts
  <1>4. Errands' /\ ReadHslOK'
    BY <1>1, PoolErrands, InvParts
  <1> QED
    BY <1>2, <1>3, <1>4, InvPartsNext DEF Kept

LEMMA StepStutter == ASSUME IInv, UNCHANGED vars PROVE Kept
  <1>1. /\ UNCHANGED <<num_readers, type, read_hsl, write_hsl, held>>
        /\ UNCHANGED <<state, requests, pc, arg, waking, proceed, thread_list>>
    BY DEF vars, onVars, lockVars
  <1>2. LockTypes' /\ LocksOK' /\ RWSteps
    BY <1>1, LocksStay, InvParts DEF LockTypes
  <1>3. OnTypes' /\ Pool' /\ OwnCall'
    BY <1>1, PoolStutter, InvParts DEF OnInv, OnTypes, OwnCall
  <1>4. InFlight' /\ CallsOK'
    BY <1>1, CallsStay, InvParts DEF OnInv, Busy, Waker
  <1>5. Errands' /\ ReadHslOK'
    BY <1>1 DEF IInv, Errands, ErrandOK, ReadHslOK
  <1> QED
    BY <1>2, <1>3, <1>4, <1>5, InvPartsNext DEF Kept, OnInv

LEMMA InvNext == IInv /\ [Next]_vars => Kept
  <1> SUFFICES ASSUME IInv, [Next]_vars PROVE Kept
    OBVIOUS
  <1>1. CASE UNCHANGED vars
    BY <1>1, StepStutter
  <1>2. ASSUME NEW j \in Job, ClientStep(j) PROVE Kept
    BY <1>2, StepClient
  <1>3. ASSUME NEW h \in Handler, NEW j \in requests, Serves(h, j) PROVE Kept
    BY <1>3, StepTryWrite, StepTryRead, StepUnlockHandler, StepOnHandler DEF Serves
  <1>4. ASSUME NEW h \in Handler, trylock_readers(h) PROVE Kept
    BY <1>4, StepTryReaders
  <1>5. ASSUME NEW a \in Agent, LockStep(a) PROVE Kept
    BY <1>5, StepLockWrite, StepLockRead, StepLockReaders, StepUnlockRead,
       StepUnlockLeave
    DEF LockStep
  <1>6. CASE new_unlock_home
    BY <1>6, StepUnlockHome
  <1>7. ASSUME NEW t \in Thread, on_thread(t) PROVE Kept
    BY <1>7, StepOnThread
  <1>8. CASE PoolNext /\ UNCHANGED lockVars
    BY <1>8, StepPool
  <1> QED
    BY <1>1, <1>2, <1>3, <1>4, <1>5, <1>6, <1>7, <1>8 DEF Next

LEMMA InvInit == Init => IInv
  <1> SUFFICES ASSUME Init PROVE IInv
    OBVIOUS
  <1>1. /\ pc = [a \in Agent |->
                  IF a = Home THEN "run" ELSE IF a \in Handler THEN "poll" ELSE "unused"]
        /\ arg = [a \in Agent |-> NoJob]
        /\ waking = [h \in Handler |-> None]
        /\ proceed = [t \in Thread |-> FALSE]
        /\ thread_list = <<>> /\ requests = {} /\ state = [p \in Proc |-> "DONE"]
    BY DEF Init, OnInit
  <1>2. /\ pc[Home] = "run"
        /\ \A h \in Handler : pc[h] = "poll"
        /\ \A t \in Thread : pc[t] = "unused" /\ ~proceed[t]
    BY <1>1, Agents
  <1>3. OnTypes
    BY <1>1 DEF OnTypes, HomePC, HandlerPC, ThreadPC
  <1>4. LockTypes
    <2>1. 0 \in 0 .. Cardinality(Proc)
      BY AgentAssumption, FS_CardinalityType
    <2> QED
      BY <2>1 DEF Init, LockTypes, LockType
  <1>5. Pool
    <2>1. Places
      BY <1>2 DEF Places, HomePC, HandlerPC, ThreadPC
    <2>2. OneEach /\ \A t \in Thread : ~Listed(t)
      <3>1. thread_list = <<>> /\ Len(thread_list) = 0
        BY <1>1
      <3> QED
        BY <3>1 DEF OneEach, Listed
    <2>3. \A h \in Handler, t \in Thread : ~Waker(h, t)
      BY <1>2 DEF Waker
    <2>4. NoLostWakeup
      BY <1>2 DEF NoLostWakeup
    <2> QED
      BY <1>2, <2>1, <2>2, <2>3, <2>4 DEF Pool
  <1>6. \A a \in Agent : ~Busy(a)
    BY <1>2, Agents DEF Busy, Waker, HandlerPC, ThreadPC
  <1>7. InFlight /\ OwnCall /\ CallsOK
    BY <1>1, <1>2, <1>6 DEF InFlight, OwnCall, CallsOK
  <1>8. Errands
    BY <1>1 DEF Errands, ErrandOK
  <1>9. ReadHslOK
    BY DEF Init, ReadHslOK
  <1>10. LocksOK
    <2>1. ASSUME NEW l \in Lock PROVE LockOK(l)
      <3>1. /\ \A p \in Proc : held[l][p] = "NONE"
            /\ num_readers[l] = 0 /\ ~write_hsl[l]
        BY DEF Init
      <3>2. Readers(l) = {}
        BY <3>1 DEF Readers
      <3> QED
        BY <3>1, <3>2, FS_EmptySet DEF LockOK
    <2> QED
      BY <2>1 DEF LocksOK
  <1> QED
    BY <1>3, <1>4, <1>5, <1>7, <1>8, <1>9, <1>10, InvParts DEF OnInv

-----------------------------------------------------------------------------
(* The theorems                                                            *)

LEMMA Invariant == Spec => []IInv
  <1>1. IInv /\ [Next]_vars => IInv'
    BY InvNext DEF Kept
  <1> QED
    BY <1>1, InvInit, PTL DEF Spec

(* Every variable keeps its type; in particular no lock has more readers   *)
(* than there are processors (num_readers).                                *)
THEOREM NewLockTypes == Spec => []TypeOK
  <1>1. IInv => TypeOK
    BY DEF IInv
  <1> QED
    BY <1>1, Invariant, PTL

(* The two HSLs and num_readers say exactly how a lock is held, and no     *)
(* agent has left read_hsl locked behind it (new_trylock_local,            *)
(* new_lock_local, new_unlock_local).                                      *)
THEOREM NewLockHsls == Spec => []HslsExact
  <1>1. IInv => HslsExact
    BY DEF IInv, LocksOK, LockOK, ReadHslOK, HslsExact
  <1> QED
    BY <1>1, Invariant, PTL

(* new_unlock_local may read type without a lock.                          *)
THEOREM NewLockMode == Spec => []TypeNamesMode
  <1>1. IInv => TypeNamesMode
    BY DEF IInv, LocksOK, LockOK, TypeNamesMode
  <1> QED
    BY <1>1, Invariant, PTL

(* A handler in new_unlock_local never waits for read_hsl in vain.         *)
THEOREM UnlockNotStuck == Spec => []HandlerNeverStuck
  <1>1. IInv => HandlerNeverStuck
    <2> SUFFICES ASSUME IInv, NEW a \in Agent, pc[a] = "unread"
                 PROVE  CanJoin(arg[a].lock)
      BY DEF HandlerNeverStuck
    <2>1. Busy(a)
      BY AtReaders
    <2>2. PICK l \in Lock, p \in Proc : l = arg[a].lock /\ held[l][p] = "READ"
      BY <2>1, AtWork DEF ErrandOK
    <2> QED
      BY <2>2, SomeReader DEF IInv, LocksOK, CanJoin
  <1> QED
    BY <1>1, Invariant, PTL

(* A sleeping pool thread with a call to serve is woken (the loop of       *)
(* grt_on_handler_work_pthread).                                           *)
THEOREM PoolWakeup == Spec => []NoLostWakeup
  <1>1. IInv => NoLostWakeup
    BY DEF IInv, Pool
  <1> QED
    BY <1>1, Invariant, PTL

(* The threads of the list are idle, once in it, and handed out once       *)
(* (thread_list of thread_work and grt_on_handler_work_pthread).           *)
THEOREM PoolIdle == Spec => []ListedIdle
  <1>1. IInv => ListedIdle
    <2> SUFFICES ASSUME IInv, NEW t \in Thread
                 PROVE  /\ Cardinality(Promised(t)) <= 1
                        /\ Listed(t) \/ Promised(t) # {} =>
                             ~proceed[t] /\ pc[t] \in {"check", "block", "waiting"}
                        /\ Listed(t) => Promised(t) = {}
      BY DEF ListedIdle, IInv, Pool, OneEach
    <2>1. \A h \in Handler : h \in Promised(t) <=> Waker(h, t)
      BY DEF Promised, Waker
    <2>2. Promised(t) \subseteq Handler
      BY DEF Promised
    <2>3. Cardinality(Promised(t)) <= 1
      <3>1. CASE Promised(t) = {}
        BY <3>1, FS_EmptySet
      <3>2. CASE Promised(t) # {}
        <4>1. PICK h \in Handler : Promised(t) = {h}
          BY <2>1, <2>2, <3>2 DEF IInv, Pool
        <4>2. Cardinality(Promised(t)) = 1
          BY <4>1, FS_Singleton
        <4> QED
          BY <4>2
      <3> QED
        BY <3>1, <3>2
    <2> QED
      BY <2>1, <2>2, <2>3 DEF IInv, Pool, Idle
  <1> QED
    BY <1>1, Invariant, PTL

(* A call to Home is in one place until it is answered, and then in none:  *)
(* the hand-off loses, doubles and overwrites no call (grt_on_handler_work, *)
(* grt_on_handler_work_pthread, thread_work).                              *)
THEOREM CallsExact == Spec => []JobsExact
  <1>1. IInv => JobsExact
    <2> SUFFICES ASSUME IInv, NEW p \in Proc
                 PROVE  LET sent == { j \in requests : j.src = p } IN
                        IF state[p] = "PENDING"
                        THEN Cardinality(sent) + Cardinality(Servers(p)) = 1
                        ELSE sent = {} /\ Servers(p) = {}
      BY DEF JobsExact
    <2> DEFINE sent == { j \in requests : j.src = p }
    <2>1. Servers(p) = { a \in Agent : Busy(a) /\ arg[a].src = p }
      <3>1. ASSUME NEW a \in Agent
            PROVE  (a \in Thread /\ Promised(a) # {}) <=>
                     (a \in Thread /\ \E h \in Handler : Waker(h, a))
        BY DEF Promised, Waker
      <3> QED
        BY <3>1 DEF Servers, Busy
    <2>2. CASE state[p] # "PENDING"
      BY <2>1, <2>2 DEF IInv, InFlight
    <2>3. CASE state[p] = "PENDING"
      <3>1. CASE \E j \in requests : j.src = p
        <4>1. PICK j \in requests : sent = {j}
          BY <3>1 DEF IInv, InFlight
        <4>2. Servers(p) = {}
          BY <2>1, <3>1 DEF IInv, InFlight
        <4>3. Cardinality(sent) = 1 /\ Cardinality(Servers(p)) = 0
          BY <4>1, <4>2, FS_Singleton, FS_EmptySet
        <4> QED
          BY <2>3, <4>3
      <3>2. CASE ~\E j \in requests : j.src = p
        <4>1. sent = {}
          BY <3>2
        <4>2. PICK a \in Agent : Busy(a) /\ arg[a].src = p
          BY <2>3, <3>2 DEF IInv, InFlight
        <4>3. Servers(p) = {a}
          BY <2>1, <4>2 DEF IInv, InFlight
        <4>4. Cardinality(sent) = 0 /\ Cardinality(Servers(p)) = 1
          BY <4>1, <4>3, FS_Singleton, FS_EmptySet
        <4> QED
          BY <2>3, <4>4
      <3> QED
        BY <3>1, <3>2
    <2> QED
      BY <2>2, <2>3
  <1> QED
    BY <1>1, Invariant, PTL

(* The lock over two HSLs implements a reader/writer lock: any number of   *)
(* readers or one writer, whoever runs the code and whichever of           *)
(* new_lock_local and new_trylock_local it is.                             *)
THEOREM NewLockImplements == Spec => ReaderWriterLock
  <1>1. Init => \A l \in Lock : RW(l)!Init
    BY DEF Init, RW!Init
  <1>2. IInv /\ [Next]_vars =>
          [\A l \in Lock : UNCHANGED held[l] \/ RW(l)!Next]_vars
    BY InvNext DEF Kept, RWSteps
  <1> QED
    BY <1>1, <1>2, Invariant, PTL DEF Spec, ReaderWriterLock
=============================================================================

------------------------------- MODULE GrtOn -------------------------------
(***************************************************************************)
(* Remote calls served by one node, Home, as in grt_on of                  *)
(* src/Implementation/grt/grt.c (stm_on of stm-distrib.c has the same      *)
(* code): a request is a message; whichever thread of Home polls the       *)
(* network runs its handler; a handler that must not block hands the call  *)
(* to a thread of a pool, which runs it, replies, and goes back to a list  *)
(* of idle threads.  The module has the messages, the hand-off and the     *)
(* pool; what the calls do belongs to the modules that extend it.          *)
(*                                                                         *)
(* The pool is guarded by no mutex but that of the list: a thread announces *)
(* itself before it sleeps and is woken by signals that may come too early, *)
(* so the handler signals until the thread has seen its work.              *)
(***************************************************************************)
EXTENDS Naturals, Sequences, FiniteSets

CONSTANTS
  Proc,     \* the processors, ...
  Home,     \* ... of which this one serves the calls
  Handler,  \* the threads of Home that poll: its main thread and poll()
  Thread,   \* bound on the threads Home can create for its pool
  None,     \* no agent
  Job       \* the calls: records with fields src and op, and arguments

(* Whoever executes code on Home; Home itself stands for its client code.  *)
Agent == {Home} \cup Handler \cup Thread

NoJob == [src |-> Home, op |-> "none"]

ASSUME AgentAssumption ==
  /\ IsFiniteSet(Proc)
  /\ Home \in Proc
  /\ Home \notin Handler \cup Thread
  /\ Handler \cap Thread = {}
  /\ None \notin Agent
  /\ \A j \in Job : j.src \in Proc

VARIABLES
  state,        \* the handler state each processor's call waits on
  requests,     \* the requests on their way to Home
  pc, arg,      \* for each agent, where it is and the call it works on
  waking,       \* the pool thread each handler is handing a call to
  proceed,      \* the flag of each pool thread
  thread_list   \* the idle pool threads

poolVars == <<waking, proceed, thread_list>>
onVars == <<state, requests, pc, arg, waking, proceed, thread_list>>

(* Pool threads at work, and all the places of the pool's own code.        *)
ThreadPC == {"unused", "check", "block", "waiting", "job", "add"}
HandlerPC == {"poll", "proceed", "signal", "test"}

OnInit ==
  /\ state = [p \in Proc |-> "DONE"]
  /\ requests = {}
  /\ pc = [a \in Agent |->
            IF a = Home THEN "run" ELSE IF a \in Handler THEN "poll" ELSE "unused"]
  /\ arg = [a \in Agent |-> NoJob]
  /\ waking = [h \in Handler |-> None]
  /\ proceed = [t \in Thread |-> FALSE]
  /\ thread_list = <<>>

-----------------------------------------------------------------------------
(* Calls.  A processor makes one at a time and waits until state is DONE;  *)
(* the reply, which only sets it, is part of the step that sends it.       *)

(* grt_on and the like: on Home the client runs the code itself, at pc at; *)
(* from elsewhere a request is sent.                                       *)
Invoke(j, at) ==
  /\ state[j.src] = "DONE"
  /\ state' = [state EXCEPT ![j.src] = "PENDING"]
  /\ IF j.src = Home
     THEN /\ pc' = [pc EXCEPT ![Home] = at]
          /\ arg' = [arg EXCEPT ![Home] = j]
          /\ UNCHANGED requests
     ELSE requests' = requests \cup {j} /\ UNCHANGED <<pc, arg>>
  /\ UNCHANGED poolVars

(* A polling thread takes request j off the network.                       *)
Receive(h, j) ==
  /\ pc[h] = "poll" /\ j \in requests
  /\ requests' = requests \ {j}

(* Where agent a goes on when its call has been served.                    *)
After(a) == IF a = Home THEN "run" ELSE IF a \in Handler THEN "poll" ELSE "add"

(* The end of call arg[a]: the reply, and what is next for a.              *)
Reply(a) ==
  /\ state' = [state EXCEPT ![arg[a].src] = "DONE"]
  /\ pc' = [pc EXCEPT ![a] = After(a)]
  /\ arg' = [arg EXCEPT ![a] = NoJob]
  /\ UNCHANGED <<requests, poolVars>>

(* A handler that serves request j to its end in one step.                 *)
grt_on_handler_work(h, j) ==
  /\ Receive(h, j)
  /\ state' = [state EXCEPT ![j.src] = "DONE"]
  /\ UNCHANGED <<pc, arg, poolVars>>

(* A handler that starts on request j and goes on at pc at.                *)
StartsWork(h, j, at) ==
  /\ Receive(h, j)
  /\ pc' = [pc EXCEPT ![h] = at]
  /\ arg' = [arg EXCEPT ![h] = j]
  /\ UNCHANGED <<state, poolVars>>

-----------------------------------------------------------------------------
(* The hand-off to the pool                                                *)

Unused == { t \in Thread : pc[t] = "unused" }

(* Mutated form of linkedlist_remove: the thread stays in the list.        *)
linkedlist_remove_peek(list) == list

linkedlist_remove(list) == Tail(list)
linkedlist_add(list, t) == Append(list, t)

(* grt_on_handler_work_pthread: with no idle thread in the list a new one  *)
(* is created with the call, else the first one is given it.               *)
HandOff(h, j) ==
  IF thread_list = <<>>
  THEN \E t \in Unused :
         /\ proceed' = [proceed EXCEPT ![t] = TRUE]
         /\ arg' = [arg EXCEPT ![t] = j, ![h] = NoJob]
         /\ pc' = [pc EXCEPT ![t] = "check", ![h] = "poll"]
         /\ UNCHANGED <<thread_list, waking>>
  ELSE LET t == Head(thread_list) IN
       /\ thread_list' = linkedlist_remove(thread_list)
       /\ waking' = [waking EXCEPT ![h] = t]
       /\ arg' = [arg EXCEPT ![t] = j, ![h] = NoJob]
       /\ pc' = [pc EXCEPT ![h] = "proceed"]
       /\ UNCHANGED proceed

(* thread->proceed = GRT_TRUE                                              *)
SetProceed(h) ==
  /\ pc[h] = "proceed"
  /\ proceed' = [proceed EXCEPT ![waking[h]] = TRUE]
  /\ pc' = [pc EXCEPT ![h] = "signal"]
  /\ UNCHANGED <<state, requests, arg, waking, thread_list>>

(* pthread_cond_signal, which nobody hears unless the thread sleeps.       *)
Signal(h) ==
  /\ pc[h] = "signal"
  /\ pc' = [pc EXCEPT
       ![h] = "test",
       ![waking[h]] = IF @ = "waiting" THEN "check" ELSE @]
  /\ UNCHANGED <<state, requests, arg, poolVars>>

(* Mutated form of TestProceed: one signal has to do.                      *)
TestProceed_once(h) ==
  /\ pc[h] = "test"
  /\ pc' = [pc EXCEPT ![h] = "poll"]
  /\ waking' = [waking EXCEPT ![h] = None]
  /\ UNCHANGED <<state, requests, arg, proceed, thread_list>>

(* while (thread->proceed == GRT_TRUE)                                     *)
TestProceed(h) ==
  /\ pc[h] = "test"
  /\ IF proceed[waking[h]]
     THEN pc' = [pc EXCEPT ![h] = "signal"] /\ UNCHANGED waking
     ELSE /\ pc' = [pc EXCEPT ![h] = "poll"]
          /\ waking' = [waking EXCEPT ![h] = None]
  /\ UNCHANGED <<state, requests, arg, proceed, thread_list>>

-----------------------------------------------------------------------------
(* thread_work                                                             *)

(* Mutated form of CheckProceed: a thread lists itself before it works.    *)
CheckProceed_lists(t) ==
  /\ pc[t] = "check"
  /\ pc' = [pc EXCEPT ![t] = IF proceed[t] THEN "job" ELSE "block"]
  /\ proceed' = [proceed EXCEPT ![t] = FALSE]
  /\ thread_list' = IF proceed[t] THEN linkedlist_add(thread_list, t) ELSE thread_list
  /\ UNCHANGED <<state, requests, arg, waking>>

CheckProceed(t) ==
  /\ pc[t] = "check"
  /\ pc' = [pc EXCEPT ![t] = IF proceed[t] THEN "job" ELSE "block"]
  /\ proceed' = [proceed EXCEPT ![t] = FALSE]
  /\ UNCHANGED <<state, requests, arg, waking, thread_list>>

(* From the test of proceed to being asleep in pthread_cond_wait: a signal *)
(* in between is lost.                                                     *)
CondWait(t) ==
  /\ pc[t] = "block"
  /\ pc' = [pc EXCEPT ![t] = "waiting"]
  /\ UNCHANGED <<state, requests, arg, poolVars>>

(* pthread_cond_wait may return unasked.                                   *)
SpuriousWakeup(t) ==
  /\ pc[t] = "waiting"
  /\ pc' = [pc EXCEPT ![t] = "check"]
  /\ UNCHANGED <<state, requests, arg, poolVars>>

(* linkedlist_add: the thread's call is done.                              *)
AddToList(t) ==
  /\ pc[t] = "add"
  /\ thread_list' = linkedlist_add(thread_list, t)
  /\ pc' = [pc EXCEPT ![t] = "check"]
  /\ UNCHANGED <<state, requests, arg, waking, proceed>>

-----------------------------------------------------------------------------
HandsOff(h) == SetProceed(h) \/ Signal(h) \/ TestProceed(h)
PoolStep(t) == CheckProceed(t) \/ CondWait(t) \/ AddToList(t)
PoolNext ==
  \/ \E h \in Handler : HandsOff(h)
  \/ \E t \in Thread : PoolStep(t) \/ SpuriousWakeup(t)

-----------------------------------------------------------------------------
Listed(t) == \E i \in 1 .. Len(thread_list) : thread_list[i] = t
Promised(t) == { h \in Handler : pc[h] = "proceed" /\ waking[h] = t }

(* The agents that still have p's call to serve: handlers and pool threads *)
(* on their way with it, and the client of Home itself.                    *)
Servers(p) ==
  { a \in Agent :
      /\ arg[a].src = p
      /\ \/ a = Home /\ pc[a] # "run"
         \/ a \in Handler /\ pc[a] \notin HandlerPC
         \/ a \in Thread /\ \/ pc[a] \notin ThreadPC \/ pc[a] = "job"
                            \/ proceed[a] \/ Promised(a) # {} }

(* No call is lost, doubled or overwritten on its way through the network, *)
(* the handlers and the pool: until it is DONE a call is in exactly one    *)
(* place, and afterwards in none (grt_on_handler_work_pthread reuses the   *)
(* one argument of a listed thread).                                       *)
JobsExact ==
  \A p \in Proc :
    LET sent == { j \in requests : j.src = p } IN
    IF state[p] = "PENDING"
    THEN Cardinality(sent) + Cardinality(Servers(p)) = 1
    ELSE sent = {} /\ Servers(p) = {}

(* A listed thread is idle and listed once, and one that has been taken    *)
(* off the list has one handler to wake it (thread_work, linkedlist_add    *)
(* and linkedlist_remove under thread_list_hsl).                           *)
ListedIdle ==
  /\ \A i, j \in 1 .. Len(thread_list) : thread_list[i] = thread_list[j] => i = j
  /\ \A t \in Thread :
       /\ Cardinality(Promised(t)) <= 1
       /\ Listed(t) \/ Promised(t) # {} =>
            ~proceed[t] /\ pc[t] \in {"check", "block", "waiting"}
       /\ Listed(t) => Promised(t) = {}

(* A thread that sleeps, or is about to, with work to do has a handler     *)
(* that has still to test its flag: the signal that came before it slept   *)
(* is not the last (the loop of grt_on_handler_work_pthread against        *)
(* pthread_cond_wait in thread_work, whose mutex nobody holds).            *)
NoLostWakeup ==
  \A t \in Thread :
    proceed[t] /\ pc[t] \in {"block", "waiting"} =>
      \E h \in Handler : waking[h] = t /\ pc[h] \in {"signal", "test"}
=============================================================================

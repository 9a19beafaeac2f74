--------------------------- MODULE GrtAllocProofs ---------------------------
(***************************************************************************)
(* Theorems about GrtAlloc: what the heap takes to be in use is what the   *)
(* clients have or will have or have given back, and each allocation goes  *)
(* to one client.                                                          *)
(*                                                                         *)
(* All but one are about nodes where no other allocation comes between one *)
(* and the look at its result (~Interleaved): grt_last_alloc is read       *)
(* without alloc_lock, and with another allocation there the claims are    *)
(* false.  What a collective call's readers get (ReadersAlwaysAgree) is    *)
(* the same whatever is allocated beside it.                               *)
(*                                                                         *)
(* The invariant has two halves that need each other.  The heap's books    *)
(* are right (Books of UmallocProofs) as long as only what is in use is    *)
(* freed, which the clients' half says; and that half is kept because a    *)
(* heap with right books serves its clients rightly (HeapServes).          *)
(***************************************************************************)
EXTENDS GrtAlloc, UmallocProofs

(* What the transaction of p has on its list.                              *)
On(p) == Range(allocations[p])

(* The addresses that somebody has, or has asked to free.                  *)
Held == known \cup freeing \cup UNION { On(p) : p \in Proc }

(* The shape of the state, with the lists as sequences of addresses.       *)
Typed ==
  /\ grt_last_alloc \in Addr \cup {NULL}
  /\ pc \in [Proc -> PC]
  /\ in_tx \in [Proc -> BOOLEAN]
  /\ allocations \in [Proc -> Seq(Addr)]
  /\ freeing \in SUBSET Addr /\ known \in SUBSET Addr
  /\ mine \in [Proc -> SUBSET Addr]
  /\ result \in [Proc -> Addr \cup {NULL}]

(* A list names what its client has got in the transaction, each once.     *)
ListOK(p) ==
  /\ \A j, k \in DOMAIN allocations[p] : allocations[p][j] = allocations[p][k] => j = k
  /\ mine[p] = IF pc[p] = "abort" THEN {} ELSE On(p)
  /\ ~in_tx[p] => allocations[p] = <<>>
  /\ pc[p] \in {"own", "all", "got", "kept"} => ~in_tx[p]
  /\ pc[p] = "abort" => in_tx[p]

(* One allocation at a time is made and not yet given to who asked for it. *)
PhaseOK(p) ==
  /\ pc[p] = "result" =>
       /\ pc[Home] \notin {"own", "all", "kept"} /\ \A q \in Proc \ {p} : pc[q] # "result"
       /\ in_tx[p] => grt_last_alloc # NULL
  /\ pc[p] = "got" =>
       /\ FirstBarrier /\ result[p] = grt_last_alloc
       /\ grt_last_alloc \in known \cup {NULL}
  /\ pc[p] = "kept" => result[p] = grt_last_alloc
  /\ pc[p] \in {"own", "kept"} => p = Home
  /\ pc[p] \notin {"got", "kept"} => result[p] = NULL

(* Nobody has what somebody else has.                                      *)
Apart ==
  /\ known \cap freeing = {}
  /\ \A p \in Proc : On(p) \cap (known \cup freeing) = {}
  /\ \A p, q \in Proc : p # q => On(p) \cap On(q) = {}

(* What is still to be given to who asked for it nobody has yet.           *)
LastOK ==
  ~Settled =>
    /\ grt_last_alloc \notin freeing /\ \A p \in Proc : grt_last_alloc \notin On(p)
    /\ grt_last_alloc \in known => \E p \in Proc : pc[p] = "got"

(* The lists and who has what on them.                                     *)
Lists == Typed /\ \A p \in Proc : ListOK(p)

(* Where the processors are in their calls; this part needs nothing of the *)
(* heap.                                                                   *)
Phases ==
  /\ pc \in [Proc -> PC] /\ in_tx \in [Proc -> BOOLEAN] /\ DOMAIN result = Proc
  /\ \A p \in Proc : PhaseOK(p)

-----------------------------------------------------------------------------
(* Lists of addresses.                                                     *)

LEMMA Constants ==
  /\ Home \in Proc /\ Collective \subseteq Request
  /\ NULL \notin Addr
  BY AllocAssumption, UmallocAssumption DEF NULL, Addr, Block

LEMMA AppendList ==
  ASSUME NEW s \in Seq(Addr), NEW x \in Addr
  PROVE  /\ Append(s, x) \in Seq(Addr) /\ Range(Append(s, x)) = Range(s) \cup {x}
         /\ (\A j, k \in DOMAIN s : s[j] = s[k] => j = k) /\ x \notin Range(s)
            => \A j, k \in DOMAIN Append(s, x) : Append(s, x)[j] = Append(s, x)[k] => j = k
  <1>1. /\ Append(s, x) \in Seq(Addr) /\ Len(s) \in Nat
        /\ DOMAIN Append(s, x) = 1 .. Len(s) + 1 /\ DOMAIN s = 1 .. Len(s)
        /\ \A k \in 1 .. Len(s) : Append(s, x)[k] = s[k]
        /\ Append(s, x)[Len(s) + 1] = x
    OBVIOUS
  <1>2. 1 .. Len(s) + 1 = (1 .. Len(s)) \cup {Len(s) + 1}
    BY <1>1
  <1> QED
    BY <1>1, <1>2 DEF Range

LEMMA TailList ==
  ASSUME NEW s \in Seq(Addr), s # <<>>, \A j, k \in DOMAIN s : s[j] = s[k] => j = k
  PROVE  /\ Tail(s) \in Seq(Addr) /\ Head(s) \in Range(s) /\ Range(s) \subseteq Addr
         /\ Range(Tail(s)) = Range(s) \ {Head(s)}
         /\ \A j, k \in DOMAIN Tail(s) : Tail(s)[j] = Tail(s)[k] => j = k
  <1>1. /\ Tail(s) \in Seq(Addr) /\ Head(s) = s[1] /\ Len(s) \in Nat \ {0}
        /\ DOMAIN Tail(s) = 1 .. Len(s) - 1 /\ DOMAIN s = 1 .. Len(s)
        /\ \A k \in 1 .. Len(s) - 1 : Tail(s)[k] = s[k + 1]
    OBVIOUS
  <1>2. ASSUME NEW x \in Range(s) \ {Head(s)} PROVE x \in Range(Tail(s))
    <2>1. PICK k \in 1 .. Len(s) : s[k] = x
      <3>1. x \in { s[k] : k \in 1 .. Len(s) }
        BY <1>1, <1>2 DEF Range
      <3> QED
        BY <3>1
    <2>2. k # 1 /\ k - 1 \in 1 .. Len(s) - 1
      BY <1>1, <1>2, <2>1
    <2>3. Tail(s)[k - 1] = s[(k - 1) + 1] /\ (k - 1) + 1 = k
      BY <1>1, <2>2
    <2>4. Tail(s)[k - 1] = x /\ k - 1 \in DOMAIN Tail(s)
      BY <1>1, <2>1, <2>2, <2>3
    <2> QED
      BY <2>4 DEF Range
  <1>3. ASSUME NEW x \in Range(Tail(s)) PROVE x \in Range(s) \ {Head(s)}
    <2>1. PICK k \in 1 .. Len(s) - 1 : s[k + 1] = x
      BY <1>1, <1>3 DEF Range
    <2> QED
      BY <1>1, <2>1 DEF Range
  <1>4. ASSUME NEW j \in DOMAIN Tail(s), NEW k \in DOMAIN Tail(s), Tail(s)[j] = Tail(s)[k]
        PROVE  j = k
    <2>1. j + 1 \in DOMAIN s /\ k + 1 \in DOMAIN s /\ s[j + 1] = s[k + 1]
      BY <1>1, <1>4
    <2>2. j + 1 = k + 1
      BY <2>1
    <2> QED
      BY <1>1, <2>2
  <1>5. Head(s) \in Range(s) /\ Range(s) \subseteq Addr
    BY <1>1 DEF Range
  <1> QED
    BY <1>1, <1>2, <1>3, <1>4, <1>5

-----------------------------------------------------------------------------
(* What an allocation does, and what it finds.                             *)
Allocated ==
  \/ grt_last_alloc' = NULL /\ InUse(heap') = InUse(heap)
  \/ /\ grt_last_alloc' \in Addr \ InUse(heap)
     /\ InUse(heap') = InUse(heap) \cup {grt_last_alloc'}

LEMMA AllocatesServes ==
  ASSUME HeapServes, NEW req \in Request, Allocates(req) PROVE Allocated
  <1> DEFINE r == umalloc(heap, req)
  <1>1. heap' = r.heap /\ grt_last_alloc' = r.ptr
    BY DEF Allocates
  <1>2. \/ r.ptr = NULL /\ InUse(r.heap) = InUse(heap)
        \/ r.ptr \in Addr \ InUse(heap) /\ InUse(r.heap) = InUse(heap) \cup {r.ptr}
    BY DEF HeapServes, Serves
  <1> HIDE DEF r
  <1> QED
    BY <1>1, <1>2 DEF Allocated

(* The steps that allocate: the caller's result is not read yet.           *)
Allocating(p) ==
  /\ pc[p] = "run" /\ (Interleaved \/ Settled) /\ (HeapServes => Allocated)
  /\ UNCHANGED <<in_tx, allocations, freeing, known, mine>>
  /\ \/ /\ pc' = [pc EXCEPT ![p] = "result"] /\ result' = result
        /\ in_tx[p] => grt_last_alloc' # NULL
     \/ /\ p = Home /\ ~in_tx[p] /\ result' = result
        /\ pc' = [pc EXCEPT ![p] = "all"] \/ pc' = [pc EXCEPT ![p] = "own"]

AllocatingHome ==
  /\ pc[Home] = "run" /\ (Interleaved \/ Settled) /\ (HeapServes => Allocated)
  /\ known' = known \cup ({grt_last_alloc'} \ {NULL})
  /\ UNCHANGED <<pc, in_tx, allocations, freeing, mine, result>>

LEMMA RequestsAllocate ==
  ASSUME NEW req \in Request
  PROVE  /\ grt_alloc_home(req) => AllocatingHome
         /\ \A p \in Proc : alloc_handler(p, req) \/ stm_alloc(p, req) => Allocating(p)
         /\ grt_all_alloc_home(req) \/ stm_all_alloc_home(req) => Allocating(Home)
  BY AllocatesServes DEF grt_alloc_home, alloc_handler, stm_alloc, grt_all_alloc_home,
     stm_all_alloc_home, MayAllocate, Known, Goes, Allocating, AllocatingHome

(* Every step, by what it does.                                            *)
LEMMA Steps ==
  ASSUME Next
  PROVE  \/ AllocatingHome
         \/ \E p \in Proc :
              \/ Allocating(p) \/ Result(p) \/ all_alloc_elsewhere(p)
              \/ grt_get_last_allocation(p) \/ stm_start(p) \/ stm_commit(p)
              \/ stm_abort(p) \/ stm_finish_frees(p) \/ stm_restart(p)
              \/ \E x \in known : grt_free(p, x)
         \/ stm_all_alloc_keeps
         \/ SecondBarrier
         \/ \E x \in freeing : free_handler(x)
  BY RequestsAllocate, Constants DEF Next, Requests, CollectiveCalls, Frees, Transactions

-----------------------------------------------------------------------------
(* The parts of the invariant, step by step.                               *)

LEMMA ListsNext ==
  ASSUME HeapServes, Lists, Phases, Apart, LastOK, Next PROVE Lists'
  <1> USE DEF Lists, Typed
  <1>1. CASE AllocatingHome
    BY <1>1, Constants DEF AllocatingHome, Allocated, ListOK, On
  <1>2. ASSUME NEW p \in Proc, Allocating(p) PROVE Lists'
    <2>1. /\ UNCHANGED <<in_tx, allocations, freeing, known, mine>> /\ pc[p] = "run"
          /\ grt_last_alloc' \in Addr \cup {NULL} /\ result' = result
          /\ \/ pc' = [pc EXCEPT ![p] = "result"]
             \/ ~in_tx[p] /\ pc' = [pc EXCEPT ![p] = "all"]
             \/ ~in_tx[p] /\ pc' = [pc EXCEPT ![p] = "own"]
      BY <1>2 DEF Allocating, Allocated
    <2>2. Typed'
      BY <2>1 DEF PC
    <2>3. ASSUME NEW q \in Proc PROVE ListOK(q)'
      BY <2>1, <2>3 DEF ListOK, On
    <2> QED
      BY <2>2, <2>3
  <1>3. ASSUME NEW p \in Proc, Result(p) PROVE Lists'
    <2>1. CASE ~in_tx[p]
      BY <1>3, <2>1, Constants DEF Result, Known, Goes, ListOK, On, PC
    <2>2. CASE in_tx[p]
      <3>1. grt_last_alloc \in Addr
        BY <1>3, <2>2 DEF Result, Phases, PhaseOK
      <3>2. grt_last_alloc \notin On(p)
        BY <1>3 DEF Result, LastOK, Settled
      <3>3. /\ allocations' = [allocations EXCEPT ![p] = Append(allocations[p], grt_last_alloc)]
            /\ mine' = [mine EXCEPT ![p] = mine[p] \cup {grt_last_alloc}]
            /\ pc' = [pc EXCEPT ![p] = "run"] /\ pc[p] = "result"
            /\ UNCHANGED <<heap, grt_last_alloc, in_tx, freeing, known, result>>
        BY <1>3, <2>2 DEF Result, Listed, Goes
      <3>4. Typed'
        BY <3>1, <3>3, AppendList DEF PC
      <3>5. ASSUME NEW q \in Proc PROVE ListOK(q)'
        <4>1. CASE q = p
          <5>1. /\ allocations'[p] = Append(allocations[p], grt_last_alloc)
                /\ mine'[p] = mine[p] \cup {grt_last_alloc} /\ pc'[p] = "run" /\ in_tx'[p]
            BY <2>2, <3>3
          <5>2. /\ \A j, k \in DOMAIN allocations'[p] :
                     allocations'[p][j] = allocations'[p][k] => j = k
                /\ Range(allocations'[p]) = Range(allocations[p]) \cup {grt_last_alloc}
            BY <3>1, <3>2, <5>1, AppendList DEF ListOK, On
          <5> QED
            BY <3>3, <4>1, <5>1, <5>2 DEF ListOK, On
        <4>2. CASE q # p
          BY <3>3, <4>2 DEF ListOK, On
        <4> QED
          BY <4>1, <4>2
      <3> QED
        BY <3>4, <3>5
    <2> QED
      BY <2>1, <2>2
  <1>4. ASSUME NEW p \in Proc, all_alloc_elsewhere(p) PROVE Lists'
    BY <1>4 DEF all_alloc_elsewhere, Goes, ListOK, On, PC
  <1>5. ASSUME NEW p \in Proc, grt_get_last_allocation(p) PROVE Lists'
    <2>1. /\ result' = [result EXCEPT ![p] = grt_last_alloc]
          /\ known' = known \cup ({grt_last_alloc} \ {NULL})
          /\ pc' = [pc EXCEPT ![p] = "got"] /\ pc[p] = "all"
          /\ UNCHANGED <<heap, grt_last_alloc, in_tx, allocations, freeing, mine>>
      BY <1>5 DEF grt_get_last_allocation, Known, Goes
    <2> QED
      BY <2>1 DEF ListOK, On, PC
  <1>6. CASE SecondBarrier
    BY <1>6, Constants DEF SecondBarrier, Known, ListOK, On, PC
  <1>14. CASE stm_all_alloc_keeps
    BY <1>14, Constants DEF stm_all_alloc_keeps, Goes, ListOK, On, PC
  <1>7. ASSUME NEW p \in Proc, NEW x \in known, grt_free(p, x) PROVE Lists'
    BY <1>7 DEF grt_free, ListOK, On
  <1>8. ASSUME NEW x \in freeing, free_handler(x) PROVE Lists'
    BY <1>8 DEF free_handler, ListOK, On
  <1>9. ASSUME NEW p \in Proc, stm_start(p) PROVE Lists'
    BY <1>9 DEF stm_start, ListOK, On
  <1>10. ASSUME NEW p \in Proc, stm_commit(p) PROVE Lists'
    <2>1. /\ allocations' = [allocations EXCEPT ![p] = <<>>] /\ <<>> \in Seq(Addr)
          /\ mine' = [mine EXCEPT ![p] = {}] /\ in_tx' = [in_tx EXCEPT ![p] = FALSE]
          /\ known' = known \cup mine[p] /\ pc[p] = "run"
          /\ UNCHANGED <<grt_last_alloc, pc, freeing, result>>
      BY <1>10 DEF stm_commit, Cleared
    <2>2. Range(<<>>) = {} /\ ~(\E k \in DOMAIN <<>> : TRUE)
      BY DEF Range
    <2>3. ASSUME NEW q \in Proc PROVE ListOK(q)'
      <3>1. CASE q = p
        BY <2>1, <2>2, <3>1 DEF ListOK, On
      <3>2. CASE q # p
        BY <2>1, <3>2 DEF ListOK, On
      <3> QED
        BY <3>1, <3>2
    <2> QED
      BY <2>1, <2>3
  <1>11. ASSUME NEW p \in Proc, stm_abort(p) PROVE Lists'
    BY <1>11 DEF stm_abort, Goes, ListOK, On, PC
  <1>12. ASSUME NEW p \in Proc, stm_finish_frees(p) PROVE Lists'
    <2>1. /\ allocations' = [allocations EXCEPT ![p] = Tail(allocations[p])]
          /\ allocations[p] # <<>> /\ pc[p] = "abort"
          /\ UNCHANGED <<grt_last_alloc, pc, in_tx, freeing, known, mine, result>>
      BY <1>12 DEF stm_finish_frees
    <2>2. /\ Tail(allocations[p]) \in Seq(Addr)
          /\ \A j, k \in DOMAIN Tail(allocations[p]) :
               Tail(allocations[p])[j] = Tail(allocations[p])[k] => j = k
      BY <2>1, TailList DEF ListOK
    <2> QED
      BY <2>1, <2>2 DEF ListOK, On
  <1>13. ASSUME NEW p \in Proc, stm_restart(p) PROVE Lists'
    BY <1>13 DEF stm_restart, Goes, ListOK, On, PC, Range
  <1> QED
    BY <1>1, <1>2, <1>3, <1>4, <1>5, <1>6, <1>7, <1>8, <1>9, <1>10, <1>11, <1>12, <1>13, <1>14,
       Steps

LEMMA NoneGot ==
  ASSUME Phases, NEW p \in Proc, pc[p] \notin {"all", "got", "kept"}
  PROVE  \A q \in Proc : pc[q] # "got"
  BY DEF Phases, PhaseOK, FirstBarrier

LEMMA PhasesNext ==
  ASSUME ~Interleaved, Phases, Next PROVE Phases'
  <1> USE DEF Phases, PC
  <1>1. CASE AllocatingHome
    <2>1. Settled /\ \A q \in Proc : pc[q] # "got"
      BY <1>1, Constants, NoneGot DEF AllocatingHome
    <2> QED
      BY <1>1, <2>1 DEF AllocatingHome, PhaseOK, Settled
  <1>2. ASSUME NEW p \in Proc, Allocating(p) PROVE Phases'
    <2>1. Settled /\ \A q \in Proc : pc[q] # "got"
      BY <1>2, NoneGot DEF Allocating
    <2>2. \A q \in Proc : result[q] = NULL /\ pc[q] # "result"
      BY <2>1 DEF PhaseOK, Settled
    <2>3. in_tx' = in_tx /\ pc[Home] \notin {"own", "all", "kept"} /\ pc[p] = "run"
      BY <1>2, <2>1 DEF Allocating, Settled
    <2>4. CASE pc' = [pc EXCEPT ![p] = "result"] /\ result' = result /\ (in_tx[p] => grt_last_alloc' # NULL)
      BY <2>1, <2>2, <2>3, <2>4, Constants DEF PhaseOK
    <2>5. CASE /\ p = Home /\ result' = result
               /\ pc' = [pc EXCEPT ![p] = "all"] \/ pc' = [pc EXCEPT ![p] = "own"]
      BY <2>1, <2>2, <2>3, <2>5, Constants DEF PhaseOK
    <2> QED
      BY <1>2, <2>4, <2>5 DEF Allocating
  <1>3. ASSUME NEW p \in Proc, Result(p) PROVE Phases'
    BY <1>3, NoneGot DEF Result, Known, Goes, PhaseOK
  <1>4. ASSUME NEW p \in Proc, all_alloc_elsewhere(p) PROVE Phases'
    BY <1>4, NoneGot DEF all_alloc_elsewhere, Goes, PhaseOK
  <1>5. ASSUME NEW p \in Proc, grt_get_last_allocation(p) PROVE Phases'
    <2>1. /\ FirstBarrier /\ pc[p] = "all" /\ pc' = [pc EXCEPT ![p] = "got"]
          /\ known' = known \cup ({grt_last_alloc} \ {NULL})
          /\ result' = [result EXCEPT ![p] = grt_last_alloc]
          /\ UNCHANGED <<in_tx, grt_last_alloc>>
      BY <1>5 DEF grt_get_last_allocation, Known, Goes
    <2>2. result'[p] = grt_last_alloc
      BY <2>1
    <2>3. FirstBarrier'
      BY <2>1 DEF FirstBarrier
    <2>4. ASSUME NEW q \in Proc PROVE PhaseOK(q)'
      <3>1. CASE q = p
        BY <2>1, <2>2, <2>3, <3>1 DEF PhaseOK
      <3>2. CASE q # p
        <4>1. pc[q] \in {"all", "got", "kept"}
          BY <2>1 DEF FirstBarrier
        <4> QED
          BY <2>1, <2>3, <3>2, <4>1 DEF PhaseOK
      <3> QED
        BY <3>1, <3>2
    <2> QED
      BY <2>1, <2>4
  <1>6. CASE SecondBarrier
    BY <1>6 DEF SecondBarrier, PhaseOK
  <1>14. CASE stm_all_alloc_keeps
    <2>1. \A q \in Proc : pc[q] \notin {"got", "result"}
      BY <1>14, NoneGot, Constants DEF stm_all_alloc_keeps, PhaseOK
    <2> QED
      BY <1>14, <2>1, Constants DEF stm_all_alloc_keeps, Goes, PhaseOK
  <1>7. ASSUME NEW p \in Proc, NEW x \in known, grt_free(p, x) PROVE Phases'
    BY <1>7, NoneGot DEF grt_free, PhaseOK
  <1>8. ASSUME NEW x \in freeing, free_handler(x) PROVE Phases'
    BY <1>8 DEF free_handler, PhaseOK, FirstBarrier
  <1>9. ASSUME NEW p \in Proc, stm_start(p) PROVE Phases'
    BY <1>9, NoneGot DEF stm_start, PhaseOK
  <1>10. ASSUME NEW p \in Proc, stm_commit(p) PROVE Phases'
    BY <1>10, NoneGot DEF stm_commit, PhaseOK
  <1>11. ASSUME NEW p \in Proc, stm_abort(p) PROVE Phases'
    BY <1>11, NoneGot DEF stm_abort, Goes, PhaseOK
  <1>12. ASSUME NEW p \in Proc, stm_finish_frees(p) PROVE Phases'
    BY <1>12, NoneGot DEF stm_finish_frees, PhaseOK
  <1>13. ASSUME NEW p \in Proc, stm_restart(p) PROVE Phases'
    <2>1. /\ pc[p] = "abort" /\ pc' = [pc EXCEPT ![p] = "run"]
          /\ UNCHANGED <<grt_last_alloc, in_tx, known, result>>
      BY <1>13 DEF stm_restart, Goes
    <2>2. \A q \in Proc : pc[q] # "got"
      BY <2>1, NoneGot
    <2> QED
      BY <2>1, <2>2 DEF PhaseOK
  <1> QED
    BY <1>1, <1>2, <1>3, <1>4, <1>5, <1>6, <1>7, <1>8, <1>9, <1>10, <1>11, <1>12, <1>13, <1>14,
       Steps

-----------------------------------------------------------------------------
(* The allocation that is made and not yet given to who asked for it.      *)
Pending == IF Settled THEN {} ELSE {grt_last_alloc}

(* The step leaves the lists alone.                                        *)
SameLists == \A q \in Proc : On(q)' = On(q)

LEMMA HeldIsTyped ==
  ASSUME Typed PROVE Held \subseteq Addr /\ \A p \in Proc : On(p) \subseteq Addr
  BY DEF Typed, Held, On, Range

(* What the heap takes to be in use is what somebody has, once, or what is *)
(* still to be given to who asked for it.                                  *)
Whole == Apart /\ LastOK /\ InUse(heap) = (Held \cup Pending) \ {NULL}

LEMMA WholeNext ==
  ASSUME ~Interleaved, HeapServes, Lists, Phases, Whole, Next PROVE Whole'
  <1> USE DEF Lists, Phases
  <1>0. /\ Typed /\ Held \subseteq Addr /\ (\A p \in Proc : On(p) \subseteq Addr)
        /\ known \subseteq Held /\ freeing \subseteq Held /\ \A p \in Proc : On(p) \subseteq Held
        /\ pc \in [Proc -> PC]
    BY HeldIsTyped DEF Typed, Held
  <1>1. CASE AllocatingHome
    <2>1. Settled /\ Settled' /\ SameLists /\ freeing' = freeing
      BY <1>1 DEF AllocatingHome, Settled, SameLists, On
    <2>2. InUse(heap) = Held
      BY <1>0, <2>1, Constants DEF Whole, Pending
    <2>3. Held' = Held \cup ({grt_last_alloc'} \ {NULL})
      BY <1>1, <2>1 DEF AllocatingHome, SameLists, Held
    <2>4. grt_last_alloc' # NULL => grt_last_alloc' \notin Held
      BY <1>1, <2>2 DEF AllocatingHome, Allocated
    <2>5. Apart'
      BY <1>0, <1>1, <2>1, <2>4 DEF AllocatingHome, Apart, Whole, SameLists
    <2>6. InUse(heap') = Held' \ {NULL}
      BY <1>0, <1>1, <2>2, <2>3, Constants DEF AllocatingHome, Allocated
    <2> QED
      BY <2>1, <2>5, <2>6 DEF Whole, LastOK, Pending
  <1>2. ASSUME NEW p \in Proc, Allocating(p) PROVE Whole'
    <2>1. Settled /\ ~Settled' /\ SameLists /\ UNCHANGED <<known, freeing>>
      BY <1>0, <1>2, Constants DEF Allocating, Settled, SameLists, On
    <2>2. InUse(heap) = Held
      BY <1>0, <2>1, Constants DEF Whole, Pending
    <2>3. Held' = Held
      BY <2>1 DEF SameLists, Held
    <2>4. grt_last_alloc' \notin Held
      BY <1>0, <1>2, <2>2, Constants DEF Allocating, Allocated
    <2>5. Apart' /\ LastOK'
      BY <1>0, <2>1, <2>4 DEF Apart, Whole, SameLists, LastOK
    <2>6. InUse(heap') = (Held \cup {grt_last_alloc'}) \ {NULL}
      BY <1>0, <1>2, <2>2, Constants DEF Allocating, Allocated
    <2> QED
      BY <2>1, <2>3, <2>5, <2>6 DEF Whole, Pending
  <1>3. ASSUME NEW p \in Proc, Result(p) PROVE Whole'
    <2>1. ~Settled /\ Settled' /\ UNCHANGED <<heap, grt_last_alloc, freeing>>
      BY <1>0, <1>3 DEF Result, Goes, Settled, PhaseOK
    <2>2. grt_last_alloc \notin Held
      BY <1>3, <2>1, NoneGot DEF Result, Whole, LastOK, Held
    <2>3. CASE ~in_tx[p]
      <3>1. SameLists /\ known' = known \cup ({grt_last_alloc} \ {NULL})
        BY <1>3, <2>3 DEF Result, Known, SameLists, On
      <3>2. Held' = Held \cup ({grt_last_alloc} \ {NULL})
        BY <2>1, <3>1 DEF Held, SameLists
      <3>3. Apart'
        BY <1>0, <2>1, <2>2, <3>1 DEF Apart, Whole, SameLists
      <3> QED
        BY <2>1, <3>2, <3>3 DEF Whole, LastOK, Pending
    <2>4. CASE in_tx[p]
      <3>1. /\ known' = known /\ grt_last_alloc \in Addr
            /\ allocations' = [allocations EXCEPT ![p] = Append(allocations[p], grt_last_alloc)]
        BY <1>3, <2>4 DEF Result, Listed, Typed, PhaseOK
      <3>2. /\ On(p)' = On(p) \cup {grt_last_alloc}
            /\ \A q \in Proc \ {p} : On(q)' = On(q)
        BY <3>1, AppendList DEF On, Typed
      <3>3. Held' = Held \cup {grt_last_alloc}
        BY <2>1, <3>1, <3>2 DEF Held
      <3>4. Apart'
        BY <1>0, <2>1, <2>2, <3>1, <3>2 DEF Apart, Whole
      <3> QED
        BY <2>1, <3>3, <3>4 DEF Whole, LastOK, Pending
    <2> QED
      BY <2>3, <2>4
  <1>4. ASSUME NEW p \in Proc, all_alloc_elsewhere(p) PROVE Whole'
    <2>1. /\ (Settled' <=> Settled) /\ SameLists /\ \A q \in Proc : pc[q] # "got"
          /\ UNCHANGED <<heap, grt_last_alloc, known, freeing>>
      BY <1>0, <1>4, NoneGot, Constants DEF all_alloc_elsewhere, Goes, Settled, SameLists, On
    <2> QED
      BY <2>1 DEF Whole, Apart, LastOK, Held, Pending, SameLists
  <1>5. ASSUME NEW p \in Proc, grt_get_last_allocation(p) PROVE Whole'
    <2>1. /\ FirstBarrier /\ pc[p] = "all" /\ pc' = [pc EXCEPT ![p] = "got"]
          /\ UNCHANGED <<heap, grt_last_alloc, freeing>> /\ SameLists
          /\ known' = known \cup ({grt_last_alloc} \ {NULL})
      BY <1>0, <1>5 DEF grt_get_last_allocation, Known, Goes, PhaseOK, SameLists, On, Typed
    <2>2. Settled <=> pc[Home] = "got"
      BY <2>1, Constants DEF FirstBarrier, Settled
    <2>3. Settled' <=> (p = Home \/ pc[Home] = "got")
      BY <1>0, <2>1, Constants DEF FirstBarrier, Settled
    <2>4. Settled => known' = known
      BY <2>1, <2>2, Constants DEF PhaseOK
    <2>5. Held' = Held \cup ({grt_last_alloc} \ {NULL})
      BY <2>1 DEF Held, SameLists
    <2>6. Apart'
      BY <2>1, <2>4 DEF Apart, Whole, LastOK, SameLists
    <2>7. pc'[p] = "got"
      BY <1>0, <2>1
    <2>8. LastOK'
      BY <2>1, <2>2, <2>3, <2>7 DEF LastOK, Whole, SameLists
    <2>9. Settled => Held' = Held
      BY <2>1, <2>4 DEF Held, SameLists
    <2> QED
      BY <2>1, <2>2, <2>3, <2>5, <2>6, <2>8, <2>9 DEF Whole, Pending
  <1>6. CASE SecondBarrier
    <2>1. /\ Settled' /\ SameLists /\ UNCHANGED <<heap, grt_last_alloc, freeing>>
          /\ pc[Home] \in {"got", "kept"} /\ result[Home] = grt_last_alloc
          /\ known' = known \cup ({grt_last_alloc} \ {NULL})
      BY <1>0, <1>6, Constants DEF SecondBarrier, Known, Settled, SameLists, On, PhaseOK
    <2>2. Held' = Held \cup ({grt_last_alloc} \ {NULL})
      BY <2>1 DEF Held, SameLists
    <2>3. Settled <=> pc[Home] = "got"
      BY <1>6, <2>1 DEF SecondBarrier, Settled
    <2>4. Settled => known' = known /\ Held' = Held
      BY <2>1, <2>2, <2>3, <1>0, Constants DEF PhaseOK
    <2>5. Apart'
      BY <2>1, <2>4 DEF Apart, Whole, LastOK, SameLists
    <2> QED
      BY <2>1, <2>2, <2>4, <2>5 DEF Whole, LastOK, Pending
  <1>13. CASE stm_all_alloc_keeps
    <2>1. /\ ~Settled' /\ ~Settled /\ SameLists /\ \A q \in Proc : pc[q] # "got"
          /\ UNCHANGED <<heap, grt_last_alloc, known, freeing>>
      BY <1>0, <1>13, NoneGot, Constants DEF stm_all_alloc_keeps, Goes, Settled, SameLists, On
    <2> QED
      BY <2>1 DEF Whole, Apart, LastOK, Held, Pending, SameLists
  <1>7. ASSUME NEW p \in Proc, NEW x \in known, grt_free(p, x) PROVE Whole'
    <2>1. /\ (Settled' <=> Settled) /\ SameLists /\ (\A q \in Proc : pc[q] # "got")
          /\ UNCHANGED <<grt_last_alloc, pc>> /\ known' = known \ {x}
      BY <1>7, NoneGot DEF grt_free, Settled, SameLists, On
    <2>2. x \in Addr /\ x \in InUse(heap) /\ x # NULL
      BY <1>0, Constants DEF Whole, Typed
    <2>3. x \notin Pending /\ x \notin freeing /\ \A q \in Proc : x \notin On(q)
      BY <2>1 DEF Whole, LastOK, Apart, Pending
    <2>4. CASE p = Home
      <3>1. InUse(heap') = InUse(heap) \ {x} /\ freeing' = freeing
        BY <1>7, <2>2, <2>4 DEF grt_free, HeapServes, Serves
      <3>2. Held' = Held \ {x}
        BY <2>1, <2>3, <3>1 DEF Held, SameLists
      <3> QED
        BY <2>1, <2>3, <3>1, <3>2 DEF Whole, Apart, LastOK, Pending, SameLists
    <2>5. CASE p # Home
      <3>1. heap' = heap /\ freeing' = freeing \cup {x}
        BY <1>7, <2>5 DEF grt_free
      <3>2. Held' = Held
        BY <2>1, <3>1 DEF Held, SameLists
      <3> QED
        BY <2>1, <2>3, <3>1, <3>2 DEF Whole, Apart, LastOK, Pending, SameLists
    <2> QED
      BY <2>4, <2>5
  <1>8. ASSUME NEW x \in freeing, free_handler(x) PROVE Whole'
    <2>1. /\ (Settled' <=> Settled) /\ SameLists /\ freeing' = freeing \ {x}
          /\ UNCHANGED <<grt_last_alloc, pc, known>>
      BY <1>8 DEF free_handler, Settled, SameLists, On
    <2>2. x \in Addr /\ x \in InUse(heap) /\ x # NULL
      BY <1>0, Constants DEF Whole, Typed
    <2>3. x \notin Pending /\ x \notin known /\ \A q \in Proc : x \notin On(q)
      BY DEF Whole, LastOK, Apart, Pending
    <2>4. InUse(heap') = InUse(heap) \ {x}
      BY <1>8, <2>2 DEF free_handler, HeapServes, Serves
    <2>5. Held' = Held \ {x}
      BY <2>1, <2>3 DEF Held, SameLists
    <2> QED
      BY <2>1, <2>3, <2>4, <2>5 DEF Whole, Apart, LastOK, Pending, SameLists
  <1>9. ASSUME NEW p \in Proc, stm_start(p) PROVE Whole'
    BY <1>9 DEF stm_start, Whole, Apart, LastOK, Held, On, Pending, Settled
  <1>10. ASSUME NEW p \in Proc, stm_commit(p) PROVE Whole'
    <2>1. /\ UNCHANGED <<heap, grt_last_alloc, pc, freeing>> /\ mine[p] = On(p)
          /\ known' = known \cup On(p)
          /\ allocations' = [allocations EXCEPT ![p] = <<>>] /\ pc[p] = "run"
      BY <1>10 DEF stm_commit, Cleared, ListOK
    <2>2. On(p)' = {} /\ \A q \in Proc \ {p} : On(q)' = On(q)
      BY <1>0, <2>1 DEF On, Range, Typed
    <2>3. Held' = Held
      BY <2>1, <2>2 DEF Held
    <2>4. Apart'
      BY <2>1, <2>2 DEF Whole, Apart
    <2>5. Settled' <=> Settled
      BY <2>1 DEF Settled
    <2>6. LastOK'
      BY <2>1, <2>2, <2>5, NoneGot DEF Whole, LastOK
    <2> QED
      BY <2>1, <2>3, <2>4, <2>5, <2>6 DEF Whole, Pending
  <1>11. ASSUME NEW p \in Proc, stm_abort(p) \/ stm_restart(p) PROVE Whole'
    <2>1. /\ UNCHANGED <<heap, grt_last_alloc, freeing, known>> /\ SameLists
          /\ (Settled' <=> Settled) /\ \A q \in Proc : pc[q] # "got"
      BY <1>0, <1>11, NoneGot, Constants DEF stm_abort, stm_restart, Goes, Settled, SameLists, On
    <2> QED
      BY <2>1 DEF Whole, Apart, LastOK, Held, Pending, SameLists
  <1>12. ASSUME NEW p \in Proc, stm_finish_frees(p) PROVE Whole'
    <2> DEFINE x == Head(allocations[p])
    <2>1. /\ allocations' = [allocations EXCEPT ![p] = Tail(allocations[p])]
          /\ allocations[p] # <<>> /\ heap' = ufree(heap, x)
          /\ UNCHANGED <<grt_last_alloc, pc, freeing, known>>
      BY <1>12 DEF stm_finish_frees
    <2>2. /\ x \in On(p) /\ On(p)' = On(p) \ {x} /\ \A q \in Proc \ {p} : On(q)' = On(q)
      BY <1>0, <2>1, TailList DEF Typed, On, ListOK
    <2>3. x \in Held /\ x \in InUse(heap) /\ x # NULL
      BY <1>0, <2>2, Constants DEF Whole
    <2> HIDE DEF x
    <2>4. x \notin Pending /\ x \notin known /\ x \notin freeing
          /\ \A q \in Proc \ {p} : x \notin On(q)
      BY <2>2 DEF Whole, LastOK, Apart, Pending
    <2>5. InUse(heap') = InUse(heap) \ {x}
      BY <2>1, <2>3 DEF HeapServes, Serves
    <2>6. Held' = Held \ {x}
      BY <2>1, <2>2, <2>4 DEF Held
    <2>7. Settled' <=> Settled
      BY <2>1 DEF Settled
    <2>8. Apart'
      BY <2>1, <2>2 DEF Whole, Apart
    <2>9. LastOK'
      BY <2>1, <2>2, <2>7 DEF Whole, LastOK
    <2> QED
      BY <2>1, <2>4, <2>5, <2>6, <2>7, <2>8, <2>9 DEF Whole, Pending
  <1> QED
    BY <1>1, <1>2, <1>3, <1>4, <1>5, <1>6, <1>7, <1>8, <1>9, <1>10, <1>11, <1>12, <1>13, Steps

-----------------------------------------------------------------------------
(* The invariant: NoLeak says whose the memory in use is, and this who may *)
(* have how much of it, in each phase of a call.                           *)
AllocInv == Lists /\ Phases /\ Whole

LEMMA AllocInit == Init => AllocInv
  <1> SUFFICES ASSUME Init PROVE AllocInv
    OBVIOUS
  <1>1. Range(<<>>) = {} /\ <<>> \in Seq(Addr) /\ DOMAIN <<>> = {}
    BY DEF Range
  <1>2. /\ Lists /\ Phases /\ \A p \in Proc : On(p) = {}
    BY <1>1, Constants DEF Init, Lists, Typed, ListOK, Phases, PhaseOK, On, PC
  <1>3. Settled /\ Held = {}
    BY <1>2, Constants DEF Init, Settled, Held
  <1>4. InUse(heap) = {}
    <2>1. \A b \in Block : heap.heapinfo[b] = NoInfo
      BY UmallocAssumption DEF Init, initialize, Block, Index
    <2>2. LargeClusters(heap) = {} /\ FragBlocks(heap) = {}
      BY <2>1 DEF LargeClusters, FragBlocks, NoInfo
    <2> QED
      BY <2>2 DEF InUse
  <1> QED
    BY <1>2, <1>3, <1>4 DEF AllocInv, Whole, Apart, LastOK, Pending, Init

LEMMA AllocNext ==
  ASSUME ~Interleaved, HeapServes, AllocInv, [Next]_vars PROVE AllocInv'
  <1>1. CASE UNCHANGED vars
    BY <1>1 DEF vars, AllocInv, Lists, Typed, ListOK, Phases, PhaseOK, FirstBarrier, Whole, Apart,
                LastOK, Pending, Held, On, Settled
  <1>2. CASE Next
    BY <1>2, ListsNext, PhasesNext, WholeNext DEF AllocInv, Whole
  <1> QED
    BY <1>1, <1>2

(* Only what is in use is freed, so the heap's books stay right.           *)
LEMMA BooksNext ==
  ASSUME Books(heap), AllocInv, [Next]_vars PROVE Books(heap')
  <1> USE DEF AllocInv, Lists
  <1>1. ASSUME NEW req \in Request, Allocates(req) PROVE Books(heap')
    <2>1. heap' = umalloc(heap, req).heap
      BY <1>1 DEF Allocates
    <2> QED
      BY <2>1, UmallocIs DEF Gets
  <1>2. ASSUME NEW x \in Held, heap' = ufree(heap, x) PROVE Books(heap')
    <2>1. x \in InUse(heap)
      BY HeldIsTyped, Constants DEF Whole
    <2> QED
      BY <1>2, <2>1, UfreeIs
  <1>3. CASE Requests
    BY <1>1, <1>3 DEF Requests, grt_alloc_home, alloc_handler, stm_alloc
  <1>4. CASE CollectiveCalls
    <2>1. ASSUME NEW req \in Collective, grt_all_alloc_home(req) \/ stm_all_alloc_home(req)
          PROVE  Books(heap')
      BY <1>1, <2>1, Constants DEF grt_all_alloc_home, stm_all_alloc_home
    <2>2. CASE UNCHANGED heap
      BY <2>2
    <2> QED
      BY <1>4, <2>1, <2>2 DEF CollectiveCalls, stm_all_alloc_keeps, all_alloc_elsewhere,
         grt_get_last_allocation, SecondBarrier
  <1>5. CASE Frees
    <2>1. ASSUME NEW p \in Proc, NEW x \in known, grt_free(p, x) PROVE Books(heap')
      <3>1. x \in Held
        BY DEF Held
      <3>2. heap' = heap \/ heap' = ufree(heap, x)
        BY <2>1 DEF grt_free
      <3> QED
        BY <1>2, <3>1, <3>2
    <2>2. ASSUME NEW x \in freeing, free_handler(x) PROVE Books(heap')
      BY <1>2, <2>2 DEF free_handler, Held
    <2> QED
      BY <1>5, <2>1, <2>2 DEF Frees
  <1>6. ASSUME NEW p \in Proc, stm_finish_frees(p) PROVE Books(heap')
    <2>1. Head(allocations[p]) \in On(p)
      BY <1>6, TailList DEF stm_finish_frees, Typed, ListOK, On
    <2>2. Head(allocations[p]) \in Held
      BY <2>1 DEF Held
    <2> QED
      BY <1>2, <1>6, <2>2 DEF stm_finish_frees
  <1>7. CASE Transactions
    BY <1>6, <1>7 DEF Transactions, stm_start, stm_commit, stm_abort, stm_restart
  <1>8. CASE UNCHANGED vars \/ \E p \in Proc : Result(p)
    BY <1>8 DEF vars, Result
  <1> QED
    BY <1>3, <1>4, <1>5, <1>7, <1>8 DEF Next

LEMMA AllocInvariant == ASSUME ~Interleaved PROVE Spec => [](AllocInv /\ Books(heap))
  <1>1. Init => AllocInv /\ Books(heap)
    BY AllocInit, InitializeBooks DEF Init
  <1>2. AllocInv /\ Books(heap) /\ [Next]_vars => (AllocInv /\ Books(heap))'
    <2> SUFFICES ASSUME AllocInv, Books(heap), [Next]_vars PROVE AllocInv' /\ Books(heap')
      OBVIOUS
    <2>1. HeapServes
      BY BooksServe DEF HeapServes
    <2> QED
      BY <2>1, AllocNext, BooksNext
  <1> QED
    BY <1>1, <1>2, PTL DEF Spec

(* The heap's own books stay right - blocks, table, the list of free       *)
(* clusters both ways, the lists of fragments - through every split, join, *)
(* return to the system and move of the table, whatever clients allocate   *)
(* and free (umalloc, morecore, __umalloc_free).                           *)
THEOREM BooksStaySound == ASSUME ~Interleaved PROVE Spec => []BooksSound
  <1>1. Books(heap) => BooksSound
    BY BooksPartition, BooksListed, BooksFragged DEF BooksSound
  <1> QED
    BY <1>1, AllocInvariant, PTL

(* In every state the heap would serve any request, and any free of what   *)
(* is in use, rightly (umalloc, __umalloc_free).                           *)
THEOREM HeapAlwaysServes == ASSUME ~Interleaved PROVE Spec => []HeapServes
  <1>1. Books(heap) => HeapServes
    BY BooksServe DEF HeapServes
  <1> QED
    BY <1>1, AllocInvariant, PTL

(* The state has its shape; outside an abort the list of a transaction on  *)
(* Home names just what its client has got in it (stm_alloc_local,         *)
(* stm_finish_local).                                                      *)
THEOREM AllocTypes == ASSUME ~Interleaved PROVE Spec => []TypeOK
  <1>1. AllocInv => TypeOK
    BY DEF AllocInv, Lists, Typed, TypeOK, ListOK, On, Range
  <1> QED
    BY <1>1, AllocInvariant, PTL

(* Nothing leaks and nothing is freed under a client, through collective   *)
(* calls, aborts and frees on their way (stm_alloc_local, stm_finish_local, *)
(* grt_free, free_handler).                                                *)
THEOREM NothingLeaks == ASSUME ~Interleaved PROVE Spec => []NoLeak
  <1>1. AllocInv => NoLeak
    <2> SUFFICES ASSUME AllocInv PROVE NoLeak
      OBVIOUS
    <2> DEFINE Mine == UNION { mine[p] : p \in Proc }
               Everyones == UNION { On(p) : p \in Proc }
               Aborting == UNION { On(p) : p \in { q \in Proc : pc[q] = "abort" } }
    <2>1. \A p \in Proc : mine[p] = IF pc[p] = "abort" THEN {} ELSE On(p)
      BY DEF AllocInv, Lists, ListOK
    <2>2. ASSUME NEW p \in Proc PROVE mine[p] \subseteq Everyones /\ On(p) \subseteq Mine \cup Aborting
      BY <2>1
    <2>3. Mine \subseteq Everyones /\ Everyones \subseteq Mine \cup Aborting
      BY <2>2
    <2>4. Aborting \subseteq Everyones
      OBVIOUS
    <2>5. Clients = known \cup Mine /\ Held = known \cup freeing \cup Everyones
      BY DEF Clients, Held
    <2>6. UnderWay = freeing \cup Pending \cup Aborting
      BY DEF UnderWay, Pending, On
    <2> HIDE DEF Mine, Everyones, Aborting
    <2>7. Clients \cup UnderWay = Held \cup Pending
      BY <2>3, <2>4, <2>5, <2>6
    <2> QED
      BY <2>7 DEF NoLeak, AllocInv, Whole
  <1> QED
    BY <1>1, AllocInvariant, PTL

(* No client is given, by grt_alloc or stm_alloc, what another has: a call *)
(* reads its own allocation off grt_last_alloc.                            *)
THEOREM EachAllocationNew ==
  ASSUME ~Interleaved PROVE Spec => DistinctAllocations
  <1>1. ASSUME AllocInv, NEW p \in Proc, pc[p] = "result" PROVE grt_last_alloc \notin Clients
    <2>1. ~Settled /\ \A q \in Proc : pc[q] # "got"
      BY <1>1, NoneGot DEF AllocInv, Settled
    <2>2. grt_last_alloc \notin known /\ \A q \in Proc : grt_last_alloc \notin On(q)
      BY <1>1, <2>1 DEF AllocInv, Whole, LastOK
    <2>3. \A q \in Proc : mine[q] \subseteq On(q)
      BY <1>1 DEF AllocInv, Lists, ListOK
    <2> QED
      BY <2>2, <2>3 DEF Clients
  <1>2. AllocInv => [\A p \in Proc : /\ pc[p] = "result" /\ pc'[p] = "run"
                                     /\ grt_last_alloc # NULL
                                     => grt_last_alloc \notin Clients]_vars
    BY <1>1
  <1> QED
    BY <1>2, AllocInvariant, PTL DEF DistinctAllocations

-----------------------------------------------------------------------------
(* A collective call, whatever is allocated beside it: while somebody has  *)
(* read grt_last_alloc and others are to read it, everybody is between the *)
(* barriers and nobody allocates.                                          *)
Gathered ==
  /\ pc \in [Proc -> PC] /\ DOMAIN result = Proc
  /\ \A p \in Proc : pc[p] = "got" => FirstBarrier /\ result[p] = grt_last_alloc

LEMMA GatheredNext ==
  ASSUME Gathered, Next PROVE Gathered'
  <1> USE DEF Gathered, PC
  <1>1. ASSUME NEW p \in Proc, pc[p] \notin {"all", "got", "kept"}
        PROVE  \A q \in Proc : pc[q] # "got"
    BY <1>1 DEF FirstBarrier
  <1>2. CASE AllocatingHome
    <2>1. \A q \in Proc : pc[q] # "got"
      BY <1>1, <1>2, Constants DEF AllocatingHome
    <2> QED
      BY <1>2, <2>1 DEF AllocatingHome
  <1>3. ASSUME NEW p \in Proc, Allocating(p) PROVE Gathered'
    <2>1. \A q \in Proc : pc[q] # "got"
      BY <1>1, <1>3 DEF Allocating
    <2> QED
      BY <1>3, <2>1 DEF Allocating
  <1>4. ASSUME NEW p \in Proc, NEW at \in PC \ {"got"},
               pc[p] \notin {"all", "got", "kept"}, Goes(p, at) \/ pc' = pc,
               DOMAIN result' = Proc
        PROVE  Gathered'
    <2>1. \A q \in Proc : pc[q] # "got"
      BY <1>1, <1>4
    <2> QED
      BY <1>4, <2>1 DEF Goes
  <1>5. ASSUME NEW p \in Proc,
               \/ Result(p) \/ all_alloc_elsewhere(p) \/ stm_start(p) \/ stm_commit(p)
               \/ stm_abort(p) \/ stm_finish_frees(p) \/ stm_restart(p)
               \/ \E x \in known : grt_free(p, x)
        PROVE  Gathered'
    BY <1>4, <1>5 DEF Result, all_alloc_elsewhere, stm_start, stm_commit, stm_abort,
       stm_finish_frees, stm_restart, grt_free
  <1>6. CASE stm_all_alloc_keeps
    BY <1>4, <1>6, Constants DEF stm_all_alloc_keeps
  <1>7. ASSUME NEW p \in Proc, grt_get_last_allocation(p) PROVE Gathered'
    BY <1>7 DEF grt_get_last_allocation, Goes, FirstBarrier
  <1>8. CASE SecondBarrier
    BY <1>8 DEF SecondBarrier
  <1>9. ASSUME NEW x \in freeing, free_handler(x) PROVE Gathered'
    BY <1>9 DEF free_handler, FirstBarrier
  <1> QED
    BY <1>2, <1>3, <1>5, <1>6, <1>7, <1>8, <1>9, Steps

(* All who read grt_last_alloc between the barriers of a collective call   *)
(* get the same, although others may allocate on Home until they come to   *)
(* the first and as soon as they leave the second (grt_all_alloc,          *)
(* stm_all_alloc, grt_get_last_allocation).                                *)
THEOREM ReadersAlwaysAgree == Spec => []ReadersAgree
  <1>1. Init => Gathered
    BY DEF Init, Gathered, PC
  <1>2. Gathered /\ [Next]_vars => Gathered'
    <2>1. CASE UNCHANGED vars
      BY <2>1 DEF vars, Gathered, FirstBarrier
    <2> QED
      BY <2>1, GatheredNext
  <1>3. Gathered => ReadersAgree
    BY DEF Gathered, ReadersAgree
  <1> QED
    BY <1>1, <1>2, <1>3, PTL DEF Spec
=============================================================================

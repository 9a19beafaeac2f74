--------------------------- MODULE StmBaseProofs ---------------------------
(***************************************************************************)
(* Theorems about StmBase: types, that no block stays owned for good, that *)
(* ownership is exact, that a version names one value of a word, that no   *)
(* update is lost, and that transactions are strictly serializable.        *)
(*                                                                         *)
(* The last four are about blocks of one word (OneWordBlocks), as          *)
(* version_set releases a block with the first of its words, and about     *)
(* blocks no acquire was overtaken on: acquire_local looks at the version  *)
(* outside its lock.                                                       *)
(***************************************************************************)
EXTENDS StmBase, FiniteSetTheorems, TLAPS

(* Proofs about the effect of a step say what it does to one entry e of    *)
(* the cache, and that it leaves the others alone.                         *)
SetsEntry(p, w, e) ==
  /\ cache' \in [Proc -> [Word -> Entry]]
  /\ cache'[p][w] = e
  /\ \A q \in Proc, x \in Word : q # p \/ x # w => cache'[q][x] = cache[q][x]

-----------------------------------------------------------------------------
(* Bags and versions.                                                      *)

LEMMA BagAdd ==
  ASSUME NEW B, IsABag(B), NEW T
  PROVE  LET C == B (+) SetToBag(T) IN
         /\ IsABag(C) /\ BagToSet(C) = BagToSet(B) \cup T
         /\ \A m \in BagToSet(C) : C[m] = (IF m \in BagToSet(B) THEN B[m] ELSE 0)
                                       + (IF m \in T THEN 1 ELSE 0)
  BY DEF IsABag, SetToBag, (+), BagToSet

LEMMA BagTake ==
  ASSUME NEW B, IsABag(B), NEW m \in BagToSet(B)
  PROVE  LET C == B (-) SetToBag({m}) IN
         /\ IsABag(C) /\ BagToSet(C) \subseteq BagToSet(B)
         /\ \A x \in BagToSet(B) \ {m} : x \in BagToSet(C) /\ C[x] = B[x]
         /\ B[m] = 1 => m \notin BagToSet(C)
  BY DEF IsABag, SetToBag, (-), BagToSet

LEMMA BagSwap ==
  ASSUME NEW B, IsABag(B), NEW m \in BagToSet(B), NEW x
  PROVE  LET C == (B (-) SetToBag({m})) (+) SetToBag({x}) IN
         /\ IsABag(C) /\ x \in BagToSet(C) /\ BagToSet(C) \subseteq BagToSet(B) \cup {x}
         /\ \A y \in BagToSet(B) \ {m, x} : y \in BagToSet(C) /\ C[y] = B[y]
         /\ B[m] = 1 /\ m # x => m \notin BagToSet(C)
         /\ x \notin BagToSet(B) => C[x] = 1
  <1> DEFINE D == B (-) SetToBag({m})
  <1> HIDE DEF D
  <1>1. /\ IsABag(D) /\ BagToSet(D) \subseteq BagToSet(B)
        /\ \A y \in BagToSet(B) \ {m} : y \in BagToSet(D) /\ D[y] = B[y]
        /\ B[m] = 1 => m \notin BagToSet(D)
    BY BagTake DEF D
  <1> DEFINE C == D (+) SetToBag({x})
  <1> HIDE DEF C
  <1>2. /\ IsABag(C) /\ BagToSet(C) = BagToSet(D) \cup {x}
        /\ \A y \in BagToSet(C) : C[y] = (IF y \in BagToSet(D) THEN D[y] ELSE 0)
                                       + (IF y \in {x} THEN 1 ELSE 0)
    BY <1>1, BagAdd DEF C
  <1>3. \A y \in BagToSet(D) : D[y] \in Nat
    BY <1>1 DEF IsABag, BagToSet
  <1>4. /\ IsABag(C) /\ x \in BagToSet(C) /\ BagToSet(C) \subseteq BagToSet(B) \cup {x}
        /\ \A y \in BagToSet(B) \ {m, x} : y \in BagToSet(C) /\ C[y] = B[y]
        /\ B[m] = 1 /\ m # x => m \notin BagToSet(C)
        /\ x \notin BagToSet(B) => C[x] = 1
    BY <1>1, <1>2, <1>3
  <1> QED
    BY <1>4 DEF C, D

(* So for the messages, one of which becomes another.                      *)
LEMMA BecomesSwap ==
  ASSUME IsABag(net), NEW m \in BagToSet(net), NEW x, Becomes(m, x)
  PROVE  /\ IsABag(net') /\ x \in BagToSet(net') /\ BagToSet(net') \subseteq BagToSet(net) \cup {x}
         /\ \A y \in BagToSet(net) \ {m, x} : y \in BagToSet(net') /\ net'[y] = net[y]
         /\ net[m] = 1 /\ m # x => m \notin BagToSet(net')
         /\ x \notin BagToSet(net) => net'[x] = 1
  <1> DEFINE C == (net (-) SetToBag({m})) (+) SetToBag({x})
  <1>1. /\ IsABag(C) /\ x \in BagToSet(C) /\ BagToSet(C) \subseteq BagToSet(net) \cup {x}
        /\ \A y \in BagToSet(net) \ {m, x} : y \in BagToSet(C) /\ C[y] = net[y]
        /\ net[m] = 1 /\ m # x => m \notin BagToSet(C)
        /\ x \notin BagToSet(net) => C[x] = 1
    BY BagSwap, ZenonT(60)
  <1>2. net' = C
    BY DEF Becomes
  <1> HIDE DEF C
  <1> QED
    BY <1>1, <1>2

LEMMA Versions ==
  ASSUME NEW v \in Nat
  PROVE  /\ make_unowned(v) \in Nat /\ ~is_owned(make_unowned(v)) /\ make_unowned(v) <= v
         /\ make_owned(v) \in Nat /\ is_owned(make_owned(v))
         /\ make_unowned(make_owned(v)) = make_unowned(v)
         /\ make_unowned(make_unowned(v)) = make_unowned(v)
         /\ NextVersion(v) \in Nat /\ ~is_owned(NextVersion(v))
         /\ make_unowned(NextVersion(v)) > make_unowned(v)
         /\ ~is_owned(v) => make_unowned(v) = v
  BY DEF make_unowned, make_owned, is_owned, NextVersion

LEMMA BlockTyped == ASSUME NEW w \in Word PROVE BlockOf(w) \in Block
  BY DEF Block

-----------------------------------------------------------------------------
(* What the steps do to the cache.                                         *)

Versioned(p, w) == [cache[p][w] EXCEPT !.version = version[BlockOf(w)],
                                       !.state = "open_value"]
Opened(p, w) == [cache[p][w] EXCEPT !.value = mem[w], !.state = "DONE"]
Looked(p, w) == [cache[p][w] EXCEPT !.old_version = version[BlockOf(w)],
                                    !.state = "acquire_set"]
Answered(p, w) == [cache[p][w] EXCEPT !.state = "DONE", !.old_version = 0,
                     !.status = IF is_owned(cache[p][w].old_version) THEN "FAIL" ELSE "SUCCEED"]
Checked(p, w) == [cache[p][w] EXCEPT !.new_version = version[BlockOf(w)], !.state = "DONE"]
Opening == [NoEntry EXCEPT !.read = TRUE, !.state = "open"]
Storing(p, w, v) == [cache[p][w] EXCEPT !.value = v, !.written = TRUE]
Asking(p, w) == [cache[p][w] EXCEPT !.state = "version"]

LEMMA HandlerSets ==
  ASSUME Typed, NEW p \in Proc, NEW w \in Word
  PROVE  /\ open_looks(p, w) => SetsEntry(p, w, Versioned(p, w))
         /\ open_for_read(p, w) => SetsEntry(p, w, Opened(p, w))
         /\ acquire_looks(p, w) => SetsEntry(p, w, Looked(p, w))
         /\ acquire_local(p, w) => SetsEntry(p, w, Answered(p, w))
         /\ read_version(p, w) => SetsEntry(p, w, Checked(p, w))
  <1>1. /\ BlockOf(w) \in Block /\ mem[w] \in Value /\ version[BlockOf(w)] \in Nat
        /\ cache \in [Proc -> [Word -> Entry]] /\ cache[p][w] \in Entry
    BY BlockTyped DEF Typed
  <1>2. /\ Versioned(p, w) \in Entry /\ Opened(p, w) \in Entry /\ Looked(p, w) \in Entry
        /\ Answered(p, w) \in Entry /\ Checked(p, w) \in Entry
    BY <1>1 DEF Entry, EntryState, Versioned, Opened, Looked, Answered, Checked
  <1>7. ASSUME open_looks(p, w) PROVE SetsEntry(p, w, Versioned(p, w))
    <2>1. cache' = [cache EXCEPT ![p][w] = Versioned(p, w)]
      BY <1>1, <1>7 DEF open_looks, Versioned
    <2> QED
      BY <1>1, <1>2, <2>1 DEF SetsEntry
  <1>3. ASSUME open_for_read(p, w) PROVE SetsEntry(p, w, Opened(p, w))
    <2>1. cache' = [cache EXCEPT ![p][w] = Opened(p, w)]
      BY <1>1, <1>3 DEF open_for_read, Opened
    <2> QED
      BY <1>1, <1>2, <2>1 DEF SetsEntry
  <1>4. ASSUME acquire_looks(p, w) PROVE SetsEntry(p, w, Looked(p, w))
    <2>1. cache' = [cache EXCEPT ![p][w] = Looked(p, w)]
      BY <1>1, <1>4 DEF acquire_looks, Looked
    <2> QED
      BY <1>1, <1>2, <2>1 DEF SetsEntry
  <1>5. ASSUME acquire_local(p, w) PROVE SetsEntry(p, w, Answered(p, w))
    <2>1. cache' = [cache EXCEPT ![p][w] = Answered(p, w)]
      BY <1>1, <1>5 DEF acquire_local, Answered
    <2> QED
      BY <1>1, <1>2, <2>1 DEF SetsEntry
  <1>6. ASSUME read_version(p, w) PROVE SetsEntry(p, w, Checked(p, w))
    <2>1. cache' = [cache EXCEPT ![p][w] = Checked(p, w)]
      BY <1>1, <1>6 DEF read_version, Checked
    <2> QED
      BY <1>1, <1>2, <2>1 DEF SetsEntry
  <1> QED
    BY <1>3, <1>4, <1>5, <1>6, <1>7

LEMMA ClientSets ==
  ASSUME Typed, NEW p \in Proc, NEW w \in Word
  PROVE  /\ stm_open_for_read(p, w) => SetsEntry(p, w, Opening)
         /\ \A v \in Val : stm_write(p, w, v) => SetsEntry(p, w, Storing(p, w, v))
         /\ ask_version(p, w) => SetsEntry(p, w, Asking(p, w))
  <1>1. cache \in [Proc -> [Word -> Entry]] /\ cache[p][w] \in Entry
    BY DEF Typed
  <1>2. /\ Opening \in Entry /\ Asking(p, w) \in Entry
        /\ \A v \in Val : Storing(p, w, v) \in Entry
    BY <1>1 DEF Entry, EntryState, Opening, NoEntry, Asking, Storing, Value
  <1>3. ASSUME stm_open_for_read(p, w) PROVE SetsEntry(p, w, Opening)
    BY <1>1, <1>2, <1>3 DEF stm_open_for_read, Opening, SetsEntry
  <1>4. ASSUME NEW v \in Val, stm_write(p, w, v) PROVE SetsEntry(p, w, Storing(p, w, v))
    <2>1. cache' = [cache EXCEPT ![p][w] = Storing(p, w, v)]
      BY <1>1, <1>4 DEF stm_write, Storing
    <2> QED
      BY <1>1, <1>2, <2>1 DEF SetsEntry
  <1>5. ASSUME ask_version(p, w) PROVE SetsEntry(p, w, Asking(p, w))
    <2>1. cache' = [cache EXCEPT ![p][w] = Asking(p, w)]
      BY <1>1, <1>5 DEF ask_version, Asking
    <2> QED
      BY <1>1, <1>2, <2>1 DEF SetsEntry
  <1> QED
    BY <1>3, <1>4, <1>5

LEMMA CommitSets ==
  ASSUME Typed, NEW p \in Proc, stm_commit(p), nesting_count[p] = 1
  PROVE  \E ws \in SUBSET Written(p) :
           /\ BlocksOf(ws) = BlocksOf(Written(p))
           /\ \A w, x \in ws : w # x => BlockOf(w) # BlockOf(x)
           /\ acquired_list' = [acquired_list EXCEPT ![p] = ws]
           /\ pc' = [pc EXCEPT ![p] = "acquire"]
           /\ cache' \in [Proc -> [Word -> Entry]]
           /\ \A q \in Proc \ {p} : cache'[q] = cache[q]
           /\ \A x \in ws : cache'[p][x] = [cache[p][x] EXCEPT !.state = "acquire"]
           /\ \A x \in Word \ ws : cache'[p][x] = cache[p][x]
  <1>1. PICK ws \in SUBSET Written(p) :
          /\ BlocksOf(ws) = BlocksOf(Written(p))
          /\ \A w, x \in ws : w # x => BlockOf(w) # BlockOf(x)
          /\ acquired_list' = [acquired_list EXCEPT ![p] = ws]
          /\ pc' = [pc EXCEPT ![p] = "acquire"]
          /\ cache' = [cache EXCEPT ![p] =
               [w \in Word |-> IF w \in ws THEN [@[w] EXCEPT !.state = "acquire"] ELSE @[w]]]
    BY DEF stm_commit
  <1>2. ASSUME NEW x \in Word PROVE [cache[p][x] EXCEPT !.state = "acquire"] \in Entry
    <2>1. cache[p][x] \in Entry
      BY DEF Typed
    <2> QED
      BY <2>1 DEF Entry, EntryState
  <1>3. /\ cache' \in [Proc -> [Word -> Entry]]
        /\ \A q \in Proc \ {p} : cache'[q] = cache[q]
        /\ \A x \in Word : cache'[p][x] = IF x \in ws THEN [cache[p][x] EXCEPT !.state = "acquire"]
                                           ELSE cache[p][x]
    BY <1>1, <1>2 DEF Typed
  <1> QED
    BY <1>1, <1>3 DEF Written

Forgotten(p, w) == [NoEntry EXCEPT !.state = cache[p][w].state]

LEMMA ForgetSets ==
  ASSUME Typed, NEW p \in Proc, Forget(p)
  PROVE  /\ cache' \in [Proc -> [Word -> Entry]]
         /\ \A x \in Word : cache'[p][x] = Forgotten(p, x)
         /\ \A q \in Proc \ {p} : cache'[q] = cache[q]
  <1>1. ASSUME NEW x \in Word PROVE Forgotten(p, x) \in Entry
    <2>1. cache[p][x] \in Entry
      BY DEF Typed
    <2> QED
      BY <2>1 DEF Entry, EntryState, Forgotten, NoEntry
  <1> QED
    BY <1>1 DEF Typed, Forget, Forgotten

LEMMA CleanupSets ==
  ASSUME Typed, NEW p \in Proc, stm_cleanup(p)
  PROVE  /\ cache' \in [Proc -> [Word -> Entry]]
         /\ \A x \in Word : cache'[p][x] = NoEntry
         /\ \A q \in Proc \ {p} : cache'[q] = cache[q]
  <1>1. NoEntry \in Entry
    BY DEF Entry, EntryState, NoEntry
  <1> QED
    BY <1>1 DEF Typed, stm_cleanup

-----------------------------------------------------------------------------
(* A step of a processor, or of a handler for it, leaves what is kept for  *)
(* the others alone.                                                       *)

SameFor(q) ==
  /\ cache'[q] = cache[q] /\ read_list'[q] = read_list[q]
  /\ acquired_list'[q] = acquired_list[q] /\ todo'[q] = todo[q]
  /\ pc'[q] = pc[q] /\ rset'[q] = rset[q]

StepOf(p) == ClientStep(p) \/ StmStep(p) \/ \E w \in Word : Handler(p, w)

LEMMA EntrySame ==
  ASSUME Typed, NEW p \in Proc, NEW w \in Word, NEW e, SetsEntry(p, w, e), NEW q \in Proc \ {p}
  PROVE  cache'[q] = cache[q]
  BY DEF Typed, SetsEntry

LEMMA OthersSame ==
  ASSUME Typed, NEW p \in Proc, StepOf(p), NEW q \in Proc \ {p} PROVE SameFor(q)
  <1> USE DEF Typed, lists, ghosts
  <1>1. CASE \E w \in Word : Handler(p, w)
    <2> PICK w \in Word : Handler(p, w)
      BY <1>1
    <2>1. \E e : SetsEntry(p, w, e)
      BY HandlerSets DEF Handler
    <2>2. cache'[q] = cache[q]
      BY <2>1, EntrySame
    <2> QED
      BY <2>2 DEF SameFor, Handler, open_looks, open_for_read, acquire_looks, acquire_local,
         read_version
  <1>2. CASE \E w \in Word : \/ stm_open_for_read(p, w) \/ ask_version(p, w)
                            \/ \E v \in Val : stm_write(p, w, v)
    <2> PICK w \in Word : \/ stm_open_for_read(p, w) \/ ask_version(p, w)
                          \/ \E v \in Val : stm_write(p, w, v)
      BY <1>2
    <2>1. \E e : SetsEntry(p, w, e)
      BY ClientSets
    <2>2. cache'[q] = cache[q]
      BY <2>1, EntrySame
    <2> QED
      BY <2>2 DEF SameFor, stm_open_for_read, ask_version, stm_write
  <1>3. CASE stm_start(p)
    BY <1>3 DEF stm_start, SameFor
  <1>4. CASE \E w \in Word : stm_read(p, w)
    BY <1>4 DEF stm_read, SameFor
  <1>5. CASE stm_commit(p)
    <2>1. CASE nesting_count[p] = 1
      BY <1>5, <2>1, CommitSets DEF stm_commit, SameFor
    <2>2. CASE nesting_count[p] > 1
      BY <1>5, <2>2 DEF stm_commit, SameFor
    <2> QED
      BY <1>5, <2>1, <2>2 DEF stm_commit
  <1>6. CASE acquired(p)
    BY <1>6 DEF acquired, SameFor
  <1>7. CASE validated(p)
    <2>1. CASE Forget(p)
      BY <1>7, <2>1, ForgetSets DEF Forget, SameFor
    <2>2. CASE ~Forget(p)
      BY <1>7, <2>2 DEF validated, SameFor
    <2> QED
      BY <2>1, <2>2
  <1>8. CASE stm_abort(p)
    BY <1>8, ForgetSets DEF stm_abort, Forget, SameFor
  <1>9. CASE stm_cleanup(p)
    BY <1>9, CleanupSets DEF stm_cleanup, SameFor
  <1> QED
    BY <1>1, <1>2, <1>3, <1>4, <1>5, <1>6, <1>7, <1>8, <1>9 DEF StepOf, ClientStep, StmStep

LEMMA DeliverSame ==
  ASSUME NEW m, Deliver(m), NEW q \in Proc PROVE SameFor(q)
  BY DEF Deliver, commit_value, version_looks, version_set, SameFor, lists, ghosts

-----------------------------------------------------------------------------
(* Types and entries.                                                      *)

Committing(p) == pc[p] \in {"acquire", "validate", "abort"}

(* What an entry of the cache looks like, by where its transaction is.     *)
EntryOK(p, w) ==
  LET e == cache[p][w] IN
  /\ e.written => e.state \notin {"open", "open_value"} /\ e.value \in Val
  /\ InCache(p, w) /\ e.state \notin {"open", "open_value"} => e.value \in Value
  /\ e.state \in {"acquire", "acquire_set"} =>
       pc[p] \in {"acquire", "abort"} /\ w \in acquired_list[p]
  /\ w \in acquired_list[p] => Committing(p) /\ e.written
  /\ e.state = "version" => pc[p] \in {"validate", "abort", "cleanup"}
  /\ pc[p] = "idle" => e = NoEntry
  /\ pc[p] = "cleanup" => ~e.read /\ ~e.written
  /\ rset[p][w] # NoVal => e.read /\ e.state \notin {"open", "open_value"}
  /\ e.read => \E x \in read_list[p] : BlockOf(x) = BlockOf(w)
  /\ pc[p] = "validate" /\ w \in acquired_list[p] => e.status = "SUCCEED"
  /\ w \in todo[p] => pc[p] \in {"validate", "abort"}

(* A commit acquires each block it writes, once.                           *)
AcquiresOK(p) ==
  /\ pc[p] \in {"acquire", "validate"} => \A w \in Word : cache[p][w].written =>
       \E x \in acquired_list[p] : BlockOf(x) = BlockOf(w)
  /\ \A w, x \in acquired_list[p] : BlockOf(w) = BlockOf(x) => w = x

EntriesOK(p) == (\A w \in Word : EntryOK(p, w)) /\ AcquiresOK(p)
EntriesInv == \A p \in Proc : EntriesOK(p)

LEMMA InitHolds == Init => Typed /\ EntriesInv
  <1> SUFFICES ASSUME Init PROVE Typed /\ EntriesInv
    OBVIOUS
  <1>1. NoEntry \in Entry /\ InitVal \in Value /\ 0 \in Proc
    BY StmBaseAssumption DEF NoEntry, Entry, EntryState, Value, Proc
  <1>2. IsABag(net) /\ BagToSet(net) \subseteq Message
    BY DEF Init, EmptyBag, SetToBag, IsABag, BagToSet
  <1>3. Typed
    BY <1>1, <1>2, StmBaseAssumption DEF Init, Typed, PC, Untouched
  <1>4. \A p \in Proc : EntriesOK(p)
    BY <1>1 DEF Init, EntriesOK, EntryOK, AcquiresOK, Committing, InCache, NoEntry, Untouched
  <1> QED
    BY <1>3, <1>4 DEF EntriesInv

(* The messages of a commit and of an abort.                               *)
LEMMA MessagesTyped ==
  ASSUME Typed, NEW p \in Proc, EntriesOK(p)
  PROVE  Writes(p) \subseteq Message /\ Releases(p) \subseteq Message
  <1>1. Writes(p) \subseteq Message
    BY DEF Writes, Message, Written, EntriesOK, EntryOK
  <1>2. Releases(p) \subseteq Message
    BY DEF Releases, Message, Typed
  <1> QED
    BY <1>1, <1>2

LEMMA BecomesTyped ==
  ASSUME Typed, NEW m \in BagToSet(net), NEW x \in Message, Becomes(m, x)
  PROVE  IsABag(net') /\ BagToSet(net') \subseteq Message
  <1>1. IsABag(net) /\ BagToSet(net) \subseteq Message
    BY DEF Typed
  <1> QED
    BY <1>1, BecomesSwap

LEMMA TypedNext ==
  ASSUME Typed, EntriesInv, [Next]_vars PROVE Typed'
  <1> USE DEF Typed, shared, lists, ghosts
  <1>1. CASE UNCHANGED vars
    BY <1>1 DEF vars
  <1>0. MaxDepth \in Nat /\ 1 <= MaxDepth
    BY StmBaseAssumption
  <1>2. ASSUME NEW m \in BagToSet(net), Deliver(m) PROVE Typed'
    <2>1. /\ m \in Message /\ m.word \in Word /\ m.seen \in Nat
          /\ m.type = "WRITE" => m.val \in Val
          /\ version[BlockOf(m.word)] \in Nat
      BY BlockTyped DEF Message
    <2>2. ASSUME NEW x \in Message, Becomes(m, x) PROVE IsABag(net') /\ BagToSet(net') \subseteq Message
      BY <2>2, BecomesTyped
    <2>3. CASE commit_value(m)
      <3>1. [m EXCEPT !.at = "stored"] \in Message
        BY <2>1, <2>3 DEF commit_value, Message
      <3>2. mem' \in [Word -> Value]
        BY <2>1, <2>3 DEF commit_value, Value
      <3> QED
        BY <2>2, <2>3, <3>1, <3>2 DEF commit_value
    <2>4. CASE version_looks(m)
      <3>1. [m EXCEPT !.at = "seen", !.seen = version[BlockOf(m.word)]] \in Message
        BY <2>1 DEF Message
      <3> QED
        BY <2>2, <2>4, <3>1 DEF version_looks
    <2>5. CASE version_set(m)
      <3>1. IsABag(net') /\ BagToSet(net') \subseteq Message
        <4> HIDE DEF Message
        <4> QED
          BY <2>5, BagTake DEF version_set
      <3>2. version' \in [Block -> Nat]
        <4>1. make_unowned(m.seen) \in Nat /\ NextVersion(m.seen) \in Nat
          BY <2>1, Versions
        <4> QED
          BY <2>5, <4>1 DEF version_set
      <3> QED
        BY <2>5, <3>1, <3>2 DEF version_set
    <2> QED
      BY <1>2, <2>3, <2>4, <2>5 DEF Deliver
  <1>3. ASSUME NEW p \in Proc, NEW w \in Word, Handler(p, w) PROVE Typed'
    <2>1. cache' \in [Proc -> [Word -> Entry]]
      BY <1>3, HandlerSets DEF Handler, SetsEntry
    <2>2. version' \in [Block -> Nat] /\ overtaken' \subseteq Block
      <3>1. BlockOf(w) \in Block /\ make_owned(cache[p][w].old_version) \in Nat
        BY Versions, BlockTyped DEF Entry
      <3>2. CASE acquire_local(p, w)
        BY <3>1, <3>2 DEF acquire_local
      <3> QED
        BY <1>3, <3>2 DEF Handler, open_looks, open_for_read, acquire_looks, read_version
    <2>3. /\ UNCHANGED <<mem, read_list, acquired_list, todo, pc, nesting_count, net, rset>>
      BY <1>3 DEF Handler, open_looks, open_for_read, acquire_looks, acquire_local, read_version
    <2> QED
      BY <2>1, <2>2, <2>3
  <1>4. ASSUME NEW p \in Proc, ClientStep(p) PROVE Typed'
    <2>1. CASE stm_start(p)
      <3>1. nesting_count' \in [Proc -> 0 .. MaxDepth]
        BY <2>1, <1>0 DEF stm_start
      <3>2. pc' \in [Proc -> PC]
        BY <2>1 DEF stm_start, PC
      <3> QED
        BY <2>1, <3>1, <3>2 DEF stm_start
    <2>2. CASE stm_commit(p)
      <3>1. CASE nesting_count[p] = 1
        <4>1. PICK ws \in SUBSET Written(p) :
                /\ acquired_list' = [acquired_list EXCEPT ![p] = ws]
                /\ pc' = [pc EXCEPT ![p] = "acquire"] /\ cache' \in [Proc -> [Word -> Entry]]
          BY <2>2, <3>1, CommitSets
        <4>2. acquired_list' \in [Proc -> SUBSET Word] /\ pc' \in [Proc -> PC]
          BY <4>1 DEF Written, PC
        <4>3. nesting_count' \in [Proc -> 0 .. MaxDepth]
          BY <2>2, <3>1, <1>0 DEF stm_commit
        <4> QED
          BY <2>2, <4>1, <4>2, <4>3 DEF stm_commit
      <3>2. CASE nesting_count[p] > 1
        <4>1. nesting_count' \in [Proc -> 0 .. MaxDepth]
          BY <2>2, <3>2, <1>0 DEF stm_commit
        <4> QED
          BY <2>2, <3>2, <4>1 DEF stm_commit
      <3> QED
        BY <2>2, <3>1, <3>2 DEF stm_commit
    <2>3. ASSUME NEW w \in Word, stm_open_for_read(p, w) PROVE Typed'
      <3>1. cache' \in [Proc -> [Word -> Entry]]
        BY <2>3, ClientSets DEF SetsEntry
      <3> QED
        BY <2>3, <3>1 DEF stm_open_for_read
    <2>4. ASSUME NEW w \in Word, stm_read(p, w) PROVE Typed'
      <3>1. cache[p][w].value \in Value \cup {NoVal}
        BY DEF Entry
      <3>2. rset' \in [Proc -> [Word -> Value \cup {NoVal}]] /\ pc' \in [Proc -> PC]
        <4>1. CASE cache[p][w].read /\ is_owned(cache[p][w].version)
          BY <2>4, <4>1 DEF stm_read, PC
        <4>2. CASE rset' = [rset EXCEPT ![p][w] = cache[p][w].value] /\ pc' = pc
          BY <3>1, <4>2
        <4> QED
          BY <2>4, <4>1, <4>2 DEF stm_read
      <3> QED
        BY <2>4, <3>2 DEF stm_read
    <2>5. ASSUME NEW w \in Word, NEW v \in Val, stm_write(p, w, v) PROVE Typed'
      BY <2>5, ClientSets DEF stm_write, SetsEntry
    <2> QED
      BY <1>4, <2>1, <2>2, <2>3, <2>4, <2>5 DEF ClientStep
  <1>5. ASSUME NEW p \in Proc, StmStep(p) PROVE Typed'
    <2> USE DEF EntriesInv
    <2>1. CASE acquired(p)
      BY <2>1 DEF acquired, PC
    <2>2. ASSUME NEW w \in Word, ask_version(p, w) PROVE Typed'
      BY <2>2, ClientSets DEF ask_version, SetsEntry
    <2>3. CASE validated(p)
      <3>1. CASE Forget(p) /\ net' = net (+) SetToBag(Writes(p))
        <4>1. Writes(p) \subseteq Message
          BY MessagesTyped
        <4>2. IsABag(net') /\ BagToSet(net') \subseteq Message
          BY <3>1, <4>1, BagAdd
        <4>3. cache' \in [Proc -> [Word -> Entry]]
          BY <3>1, ForgetSets
        <4> QED
          BY <2>3, <3>1, <4>2, <4>3 DEF validated, Forget, PC, Untouched
      <3>2. CASE pc' = [pc EXCEPT ![p] = "abort"] /\ UNCHANGED <<cache, lists, net, ghosts>>
        BY <2>3, <3>2 DEF validated, PC
      <3> QED
        BY <2>3, <3>1, <3>2 DEF validated
    <2>4. CASE stm_abort(p)
      <3>1. Releases(p) \subseteq Message
        BY MessagesTyped
      <3>2. IsABag(net') /\ BagToSet(net') \subseteq Message
        BY <2>4, <3>1, BagAdd DEF stm_abort
      <3>3. cache' \in [Proc -> [Word -> Entry]]
        BY <2>4, ForgetSets DEF stm_abort
      <3> QED
        BY <2>4, <3>2, <3>3 DEF stm_abort, Forget, PC, Untouched
    <2>5. CASE stm_cleanup(p)
      <3>1. cache' \in [Proc -> [Word -> Entry]]
        BY <2>5, CleanupSets
      <3> QED
        BY <2>5, <3>1, <1>0 DEF stm_cleanup, PC
    <2> QED
      BY <1>5, <2>1, <2>2, <2>3, <2>4, <2>5 DEF StmStep
  <1> QED
    BY <1>1, <1>2, <1>3, <1>4, <1>5 DEF Next

LEMMA EntriesSame ==
  ASSUME NEW q \in Proc, EntriesOK(q), SameFor(q) PROVE EntriesOK(q)'
  BY DEF SameFor, EntriesOK, EntryOK, AcquiresOK, InCache, Committing

LEMMA EntriesHandler ==
  ASSUME Typed, NEW p \in Proc, EntriesOK(p), NEW w \in Word, Handler(p, w)
  PROVE  EntriesOK(p)'
  <1> DEFINE e == cache[p][w]
             f == cache'[p][w]
  <1>0. /\ \E u : SetsEntry(p, w, u)
        /\ UNCHANGED <<pc, read_list, acquired_list, todo, rset>>
    BY HandlerSets DEF Handler, open_looks, open_for_read, acquire_looks, acquire_local,
         read_version,
       lists, ghosts
  <1>1. /\ e \in Entry /\ version[BlockOf(w)] \in Nat /\ mem[w] \in Value
        /\ cache \in [Proc -> [Word -> Entry]] /\ cache' \in [Proc -> [Word -> Entry]]
        /\ \A x \in Word \ {w} : cache'[p][x] = cache[p][x]
        /\ UNCHANGED <<pc, read_list, acquired_list, todo, rset>>
    BY <1>0, BlockTyped DEF Typed, SetsEntry
  <1>2. /\ f.read = e.read /\ f.written = e.written /\ f.state # "open"
        /\ f.value = IF e.state = "open_value" THEN mem[w] ELSE e.value
        /\ f.state = "open_value" <=> e.state = "open"
        /\ f.state = "acquire_set" => e.state = "acquire"
        /\ f.state \notin {"acquire", "version"}
        /\ f.status = e.status \/ e.state = "acquire_set"
        /\ e.state # "DONE"
    <2>5. CASE open_looks(p, w)
      <3>1. SetsEntry(p, w, Versioned(p, w))
        BY <2>5, HandlerSets
      <3>2. f = Versioned(p, w)
        BY <3>1 DEF SetsEntry
      <3>3. e.state = "open"
        BY <2>5 DEF open_looks
      <3> QED
        BY <1>1, <3>2, <3>3 DEF Versioned, Entry
    <2>1. CASE open_for_read(p, w)
      <3>1. SetsEntry(p, w, Opened(p, w))
        BY <2>1, HandlerSets
      <3>2. f = Opened(p, w)
        BY <3>1 DEF SetsEntry
      <3>3. e.state = "open_value"
        BY <2>1 DEF open_for_read
      <3> QED
        BY <1>1, <3>2, <3>3 DEF Opened, Entry
    <2>2. CASE acquire_looks(p, w)
      <3>1. SetsEntry(p, w, Looked(p, w))
        BY <2>2, HandlerSets
      <3>2. f = Looked(p, w)
        BY <3>1 DEF SetsEntry
      <3>3. e.state = "acquire"
        BY <2>2 DEF acquire_looks
      <3> QED
        BY <1>1, <3>2, <3>3 DEF Looked, Entry
    <2>3. CASE acquire_local(p, w)
      <3>1. SetsEntry(p, w, Answered(p, w))
        BY <2>3, HandlerSets
      <3>2. f = Answered(p, w)
        BY <3>1 DEF SetsEntry
      <3>3. e.state = "acquire_set"
        BY <2>3 DEF acquire_local
      <3> QED
        BY <1>1, <3>2, <3>3 DEF Answered, Entry
    <2>4. CASE read_version(p, w)
      <3>1. SetsEntry(p, w, Checked(p, w))
        BY <2>4, HandlerSets
      <3>2. f = Checked(p, w)
        BY <3>1 DEF SetsEntry
      <3>3. e.state = "version"
        BY <2>4 DEF read_version
      <3> QED
        BY <1>1, <3>2, <3>3 DEF Checked, Entry
    <2> QED
      BY <2>1, <2>2, <2>3, <2>4, <2>5 DEF Handler
  <1> HIDE DEF e, f
  <1>3. EntryOK(p, w)'
    <2>1. EntryOK(p, w)
      BY DEF EntriesOK
    <2> QED
      BY <1>1, <1>2, <2>1 DEF EntryOK, InCache, Committing, NoEntry, e, f
  <1>4. \A x \in Word \ {w} : EntryOK(p, x)'
    BY <1>1 DEF EntriesOK, EntryOK, InCache, Committing
  <1>5. AcquiresOK(p)'
    BY <1>1, <1>2 DEF EntriesOK, AcquiresOK, e, f
  <1> QED
    BY <1>3, <1>4, <1>5 DEF EntriesOK

LEMMA EntriesClient ==
  ASSUME Typed, NEW p \in Proc, EntriesOK(p), ClientStep(p) PROVE EntriesOK(p)'
  <1> USE DEF EntriesOK
  <1>1. CASE stm_start(p)
    <2>1. /\ UNCHANGED <<cache, read_list, acquired_list, todo, rset>>
          /\ (pc[p] = "idle" /\ pc'[p] = "run") \/ pc'[p] = pc[p]
      BY <1>1 DEF stm_start, lists, Typed
    <2>2. CASE pc'[p] = pc[p]
      BY <2>1, <2>2 DEF EntryOK, AcquiresOK, InCache, Committing
    <2>3. CASE pc[p] = "idle" /\ pc'[p] = "run"
      BY <2>1, <2>3 DEF EntryOK, AcquiresOK, InCache, Committing
    <2> QED
      BY <2>1, <2>2, <2>3
  <1>2. CASE stm_commit(p)
    <2>1. CASE nesting_count[p] > 1
      BY <1>2, <2>1 DEF stm_commit, lists, ghosts, EntryOK, AcquiresOK, InCache, Committing
    <2>2. CASE nesting_count[p] = 1
      <3>1. PICK ws \in SUBSET Written(p) :
           /\ BlocksOf(ws) = BlocksOf(Written(p))
           /\ \A w, x \in ws : w # x => BlockOf(w) # BlockOf(x)
           /\ acquired_list' = [acquired_list EXCEPT ![p] = ws]
           /\ pc' = [pc EXCEPT ![p] = "acquire"]
           /\ \A x \in ws : cache'[p][x] = [cache[p][x] EXCEPT !.state = "acquire"]
           /\ \A x \in Word \ ws : cache'[p][x] = cache[p][x]
        BY <1>2, <2>2, CommitSets
      <3>2. /\ pc[p] = "run" /\ pc'[p] = "acquire" /\ acquired_list'[p] = ws
            /\ read_list' = read_list /\ todo' = todo /\ rset' = rset /\ acquired_list[p] = {}
        BY <1>2, <3>1 DEF stm_commit, Running, Typed, ghosts, EntryOK, Committing
      <3>3. ASSUME NEW x \in Word PROVE EntryOK(p, x)'
        <4>1. cache[p][x] \in Entry /\ EntryOK(p, x)
          BY DEF Typed
        <4>2. CASE x \in ws
          <5>1. cache[p][x].written /\ cache'[p][x] = [cache[p][x] EXCEPT !.state = "acquire"]
            BY <3>1, <4>2 DEF Written
          <5> QED
            BY <3>2, <4>1, <4>2, <5>1 DEF EntryOK, Entry, InCache, Committing
        <4>3. CASE x \notin ws
          BY <3>1, <3>2, <4>1, <4>3 DEF EntryOK, InCache, Committing
        <4> QED
          BY <4>2, <4>3
      <3>4. AcquiresOK(p)'
        <4>1. ASSUME NEW w \in Word, cache'[p][w].written
              PROVE  \E x \in ws : BlockOf(x) = BlockOf(w)
          <5>1. cache[p][w] \in Entry
            BY DEF Typed
          <5>2. w \in Written(p)
            BY <3>1, <4>1, <5>1 DEF Entry, Written
          <5> QED
            BY <3>1, <5>2 DEF BlocksOf
        <4> QED
          BY <3>1, <3>2, <4>1 DEF AcquiresOK
      <3> QED
        BY <3>3, <3>4
    <2> QED
      BY <1>2, <2>1, <2>2 DEF stm_commit
  <1>3. ASSUME NEW w \in Word, stm_open_for_read(p, w) PROVE EntriesOK(p)'
    <2>1. /\ cache'[p][w] = Opening /\ \A x \in Word \ {w} : cache'[p][x] = cache[p][x]
          /\ UNCHANGED <<pc, acquired_list, todo, rset>> /\ pc[p] = "run"
          /\ ~cache[p][w].read /\ ~cache[p][w].written
      <3>1. SetsEntry(p, w, Opening)
        BY <1>3, ClientSets
      <3>2. cache'[p][w] = Opening /\ \A x \in Word \ {w} : cache'[p][x] = cache[p][x]
        BY <3>1 DEF SetsEntry
      <3> QED
        BY <1>3, <3>2 DEF stm_open_for_read, ghosts, Running, InCache
    <2>2. /\ \E x \in read_list'[p] : BlockOf(x) = BlockOf(w)
          /\ read_list[p] \subseteq read_list'[p]
      BY <1>3 DEF stm_open_for_read, BlocksOf, Typed
    <2>3. EntryOK(p, w)'
      BY <2>1, <2>2 DEF EntryOK, InCache, Committing, Opening, NoEntry
    <2>4. \A x \in Word \ {w} : EntryOK(p, x)'
      BY <2>1, <2>2 DEF EntryOK, InCache, Committing
    <2>5. AcquiresOK(p)'
      BY <2>1 DEF AcquiresOK
    <2> QED
      BY <2>3, <2>4, <2>5
  <1>4. ASSUME NEW w \in Word, stm_read(p, w) PROVE EntriesOK(p)'
    <2>1. /\ UNCHANGED <<cache, read_list, acquired_list, todo>> /\ pc[p] = "run"
          /\ \A x \in Word \ {w} : rset'[p][x] = rset[p][x]
          /\ pc'[p] \in {"run", "abort"}
      BY <1>4 DEF stm_read, lists, Running, Typed
    <2>2. rset'[p][w] # rset[p][w] => cache[p][w].read /\ cache[p][w].state = "DONE"
      BY <1>4 DEF stm_read, InCache
    <2>3. \A x \in Word : EntryOK(p, x)'
      BY <2>1, <2>2 DEF EntryOK, InCache, Committing
    <2>4. AcquiresOK(p)'
      BY <2>1 DEF AcquiresOK
    <2> QED
      BY <2>3, <2>4
  <1>5. ASSUME NEW w \in Word, NEW v \in Val, stm_write(p, w, v) PROVE EntriesOK(p)'
    <2>1. /\ cache'[p][w] = Storing(p, w, v) /\ \A x \in Word \ {w} : cache'[p][x] = cache[p][x]
          /\ UNCHANGED <<pc, read_list, acquired_list, todo, rset>> /\ pc[p] = "run"
          /\ cache[p][w].state = "DONE" /\ cache[p][w] \in Entry
      <3>1. SetsEntry(p, w, Storing(p, w, v))
        BY <1>5, ClientSets
      <3> QED
        BY <1>5, <3>1 DEF SetsEntry, stm_write, ghosts, lists, Running, Typed
    <2>2. EntryOK(p, w)'
      BY <2>1 DEF EntryOK, InCache, Committing, Storing, Entry, Value
    <2>3. \A x \in Word \ {w} : EntryOK(p, x)'
      BY <2>1 DEF EntryOK, InCache, Committing
    <2>4. AcquiresOK(p)'
      BY <2>1 DEF AcquiresOK
    <2> QED
      BY <2>2, <2>3, <2>4
  <1> QED
    BY <1>1, <1>2, <1>3, <1>4, <1>5 DEF ClientStep

LEMMA EntriesForget ==
  ASSUME Typed, NEW p \in Proc, EntriesOK(p), Forget(p),
         \A w \in acquired_list[p] : cache[p][w].state \notin {"acquire", "acquire_set"}
  PROVE  EntriesOK(p)'
  <1>1. /\ \A x \in Word : cache'[p][x] = Forgotten(p, x)
        /\ pc'[p] = "cleanup" /\ acquired_list'[p] = {} /\ todo'[p] = {} /\ rset'[p] = Untouched
    BY ForgetSets DEF Forget, Typed
  <1>2. ASSUME NEW x \in Word PROVE EntryOK(p, x)'
    <2>1. /\ cache'[p][x] = Forgotten(p, x) /\ rset'[p][x] = NoVal /\ EntryOK(p, x)
          /\ x \in acquired_list[p] => cache[p][x].state \notin {"acquire", "acquire_set"}
      BY <1>1 DEF EntriesOK, Untouched
    <2> QED
      BY <1>1, <2>1 DEF EntryOK, Forgotten, NoEntry, InCache, Committing
  <1>3. AcquiresOK(p)'
    BY <1>1 DEF AcquiresOK
  <1> QED
    BY <1>2, <1>3 DEF EntriesOK

LEMMA EntriesStm ==
  ASSUME Typed, NEW p \in Proc, EntriesOK(p), StmStep(p) PROVE EntriesOK(p)'
  <1> USE DEF EntriesOK
  <1>1. CASE acquired(p)
    <2>1. /\ UNCHANGED <<cache, read_list, acquired_list, rset>> /\ pc[p] = "acquire"
          /\ \/ pc'[p] = "abort" /\ todo' = todo
             \/ /\ pc'[p] = "validate"
                /\ \A w \in acquired_list[p] : cache[p][w].state = "DONE" /\ ~Failed(p, w)
      BY <1>1 DEF acquired, ghosts, Typed
    <2>2. \A w \in acquired_list[p] : ~Failed(p, w) /\ cache[p][w].state = "DONE"
                                     => cache[p][w].status = "SUCCEED"
      BY DEF Failed, Typed, Entry
    <2>3. ASSUME NEW x \in Word PROVE EntryOK(p, x)'
      BY <2>1, <2>2 DEF EntryOK, InCache, Committing
    <2>4. AcquiresOK(p)'
      BY <2>1 DEF AcquiresOK
    <2> QED
      BY <2>3, <2>4
  <1>2. ASSUME NEW w \in Word, ask_version(p, w) PROVE EntriesOK(p)'
    <2>1. /\ cache'[p][w] = Asking(p, w) /\ \A x \in Word \ {w} : cache'[p][x] = cache[p][x]
          /\ UNCHANGED <<pc, read_list, acquired_list, rset>> /\ pc[p] = "validate"
          /\ todo'[p] \subseteq todo[p] /\ cache[p][w] \in Entry
          /\ cache[p][w].state = "DONE"
      <3>1. SetsEntry(p, w, Asking(p, w))
        BY <1>2, ClientSets
      <3> QED
        BY <1>2, <3>1 DEF SetsEntry, ask_version, ghosts, Typed
    <2>2. EntryOK(p, w)'
      BY <2>1 DEF EntryOK, InCache, Committing, Asking, Entry
    <2>3. \A x \in Word \ {w} : EntryOK(p, x)'
      BY <2>1 DEF EntryOK, InCache, Committing
    <2>4. AcquiresOK(p)'
      BY <2>1 DEF AcquiresOK, Asking, Entry
    <2> QED
      BY <2>2, <2>3, <2>4
  <1>3. CASE validated(p)
    <2>1. CASE Forget(p)
      <3>1. \A w \in acquired_list[p] : cache[p][w].state \notin {"acquire", "acquire_set"}
        BY <1>3 DEF validated, EntryOK, Typed
      <3> QED
        BY <2>1, <3>1, EntriesForget
    <2>2. CASE UNCHANGED <<cache, lists, ghosts>> /\ pc[p] = "validate" /\ pc'[p] = "abort"
      BY <2>2 DEF lists, ghosts, EntryOK, AcquiresOK, InCache, Committing
    <2> QED
      BY <1>3, <2>1, <2>2 DEF validated, Typed
  <1>4. CASE stm_abort(p)
    BY <1>4, EntriesForget DEF stm_abort
  <1>5. CASE stm_cleanup(p)
    <2>1. /\ \A x \in Word : cache'[p][x] = NoEntry
          /\ UNCHANGED <<read_list, acquired_list, todo, rset>>
          /\ pc[p] = "cleanup" /\ pc'[p] = "idle"
      BY <1>5, CleanupSets DEF stm_cleanup, lists, ghosts, Typed
    <2>2. ASSUME NEW x \in Word PROVE EntryOK(p, x)'
      <3>1. cache'[p][x] = NoEntry /\ EntryOK(p, x)
        BY <2>1
      <3> QED
        BY <2>1, <3>1 DEF EntryOK, NoEntry, InCache, Committing
    <2>3. AcquiresOK(p)'
      BY <2>1 DEF AcquiresOK
    <2> QED
      BY <2>2, <2>3
  <1> QED
    BY <1>1, <1>2, <1>3, <1>4, <1>5 DEF StmStep

LEMMA EntriesNext ==
  ASSUME Typed, EntriesInv, [Next]_vars PROVE EntriesInv'
  <1> SUFFICES ASSUME NEW q \in Proc PROVE EntriesOK(q)'
    BY DEF EntriesInv
  <1>1. EntriesOK(q)
    BY DEF EntriesInv
  <1>2. CASE StepOf(q)
    BY <1>1, <1>2, EntriesHandler, EntriesClient, EntriesStm DEF StepOf
  <1>3. CASE SameFor(q)
    BY <1>1, <1>3, EntriesSame
  <1>4. CASE UNCHANGED vars
    BY <1>3, <1>4 DEF vars, SameFor, lists, ghosts
  <1> QED
    BY <1>2, <1>3, <1>4, OthersSame, DeliverSame DEF Next, StepOf

Inv == Typed /\ EntriesInv

LEMMA Invariant == Spec => []Inv
  <1>1. Init => Inv
    BY InitHolds DEF Inv
  <1>2. Inv /\ [Next]_vars => Inv'
    BY TypedNext, EntriesNext DEF Inv
  <1> QED
    BY <1>1, <1>2, PTL DEF Spec

(* Types; and what client code can read has a value.                       *)
THEOREM OldStmTypes == Spec => []TypeOK
  <1>1. Inv => TypeOK
    BY DEF Inv, TypeOK, EntriesInv, EntriesOK, EntryOK
  <1> QED
    BY <1>1, Invariant, PTL

-----------------------------------------------------------------------------
(* Who changes memory and versions: an acquire that succeeds, and messages. *)
Succeeds(p, w) ==
  /\ acquire_local(p, w) /\ ~is_owned(cache[p][w].old_version)
  /\ version' = [version EXCEPT ![BlockOf(w)] = make_owned(cache[p][w].old_version)]
  /\ mem' = mem
  /\ overtaken' = overtaken \cup (IF version[BlockOf(w)] # cache[p][w].old_version
                                 THEN {BlockOf(w)} ELSE {})

LEMMA SharedStep ==
  ASSUME Inv, Next
  PROVE  \/ UNCHANGED <<shared, overtaken>>
         \/ \E p \in Proc, w \in Word : Succeeds(p, w)
         \/ \E m \in BagToSet(net) : Deliver(m)
  <1>1. ASSUME NEW p \in Proc, ClientStep(p) PROVE UNCHANGED <<shared, overtaken>>
    BY <1>1 DEF ClientStep, stm_start, stm_commit, stm_open_for_read, stm_read, stm_write
  <1>2. ASSUME NEW p \in Proc, StmStep(p) PROVE UNCHANGED <<shared, overtaken>>
    BY <1>2 DEF StmStep, acquired, ask_version, validated, stm_abort, stm_cleanup
  <1>3. ASSUME NEW p \in Proc, NEW w \in Word, Handler(p, w)
        PROVE  UNCHANGED <<shared, overtaken>> \/ Succeeds(p, w)
    <2>1. CASE acquire_local(p, w)
      BY <2>1 DEF acquire_local, Succeeds, shared
    <2> QED
      BY <1>3, <2>1 DEF Handler, open_looks, open_for_read, acquire_looks, read_version
  <1> QED
    BY <1>1, <1>2, <1>3 DEF Next

-----------------------------------------------------------------------------
(* Ownership.                                                              *)

(* p has acquired the block of w with an acquire of w.                     *)
Has(p, w) ==
  /\ Committing(p) /\ w \in acquired_list[p]
  /\ cache[p][w].state \notin {"acquire", "acquire_set"}
  /\ cache[p][w].status = "SUCCEED"

(* p has acquired b.                                                        *)
HasBlock(p, b) == \E w \in Word : BlockOf(w) = b /\ Has(p, w)

SameOwners(p) == \A w \in Word : Has(p, w)' <=> Has(p, w)

(* The messages M take the place of what p has acquired.                   *)
HandsOver(p, M) ==
  /\ version' = version /\ net' = net (+) SetToBag(M)
  /\ \A w \in Word : ~Has(p, w)'
  /\ \A w \in Word : Has(p, w) => \E m \in M : m.word = w
  /\ \A m \in M : m.word \in Word /\ m.at = "sent" /\ HasBlock(p, BlockOf(m.word))
  /\ \A m, n \in M : m.word = n.word => m = n

(* No two words share a block (as with a share size of one).               *)
OneWordBlocks == \A v, w \in Word : BlockOf(v) = BlockOf(w) => v = w

LEMMA OwnersSame ==
  ASSUME NEW q \in Proc, SameFor(q) PROVE SameOwners(q)
  BY DEF SameFor, SameOwners, Has, Committing

LEMMA OwnersHandler ==
  ASSUME Inv, NEW p \in Proc, NEW w \in Word, Handler(p, w)
  PROVE  /\ net' = net
         /\ \A x \in Word \ {w} : Has(p, x)' <=> Has(p, x)
         /\ \/ /\ version' = version /\ overtaken' = overtaken
               /\ Has(p, w)' <=> Has(p, w)
            \/ Succeeds(p, w) /\ Has(p, w)'
  <1>1. /\ net' = net /\ pc' = pc /\ acquired_list' = acquired_list
        /\ \A x \in Word \ {w} : cache'[p][x] = cache[p][x]
    <2>1. \E e : SetsEntry(p, w, e)
      BY HandlerSets DEF Handler, Inv
    <2>2. net' = net /\ pc' = pc /\ acquired_list' = acquired_list
      BY DEF Handler, open_looks, open_for_read, acquire_looks, acquire_local,
         read_version, lists
    <2> QED
      BY <2>1, <2>2 DEF SetsEntry
  <1>2. \A x \in Word \ {w} : Has(p, x)' <=> Has(p, x)
    BY <1>1 DEF Has, Committing
  <1>3. /\ cache[p][w] \in Entry /\ cache \in [Proc -> [Word -> Entry]]
        /\ EntryOK(p, w)
    BY DEF Inv, Typed, EntriesInv, EntriesOK
  <1>4. CASE acquire_local(p, w)
    <2>1. cache'[p][w] = Answered(p, w)
      BY <1>4, HandlerSets DEF Inv, SetsEntry
    <2>2. /\ Answered(p, w).state = "DONE"
          /\ Answered(p, w).status = IF is_owned(cache[p][w].old_version) THEN "FAIL" ELSE "SUCCEED"
      BY <1>3 DEF Answered, Entry
    <2>3. cache[p][w].state = "acquire_set" /\ Committing(p) /\ w \in acquired_list[p]
      BY <1>3, <1>4 DEF acquire_local, EntryOK, Committing
    <2>4. CASE is_owned(cache[p][w].old_version)
      BY <1>1, <1>2, <1>4, <2>1, <2>2, <2>3, <2>4 DEF Has, acquire_local
    <2>5. CASE ~is_owned(cache[p][w].old_version)
      <3>1. Succeeds(p, w)
        BY <1>4, <2>5 DEF acquire_local, Succeeds
      <3>2. ~Has(p, w) /\ Has(p, w)'
        BY <1>1, <2>1, <2>2, <2>3, <2>5 DEF Has, Committing
      <3> QED
        BY <1>1, <1>2, <3>1, <3>2
    <2> QED
      BY <2>4, <2>5
  <1>5. CASE ~acquire_local(p, w)
    <2>1. version' = version /\ overtaken' = overtaken
      BY <1>5 DEF Handler, open_looks, open_for_read, acquire_looks, read_version, shared
    <2>2. Has(p, w)' <=> Has(p, w)
      <3>4. CASE open_looks(p, w)
        <4>1. cache'[p][w] = Versioned(p, w)
          BY <3>4, HandlerSets DEF Inv, SetsEntry
        <4> QED
          BY <1>1, <1>3, <3>4, <4>1 DEF Has, Committing, Versioned, Entry, open_looks
      <3>1. CASE open_for_read(p, w)
        <4>1. cache'[p][w] = Opened(p, w)
          BY <3>1, HandlerSets DEF Inv, SetsEntry
        <4> QED
          BY <1>1, <1>3, <3>1, <4>1 DEF Has, Committing, Opened, Entry, open_for_read
      <3>2. CASE acquire_looks(p, w)
        <4>1. cache'[p][w] = Looked(p, w)
          BY <3>2, HandlerSets DEF Inv, SetsEntry
        <4> QED
          BY <1>1, <1>3, <3>2, <4>1 DEF Has, Committing, Looked, Entry, acquire_looks
      <3>3. CASE read_version(p, w)
        <4>1. cache'[p][w] = Checked(p, w)
          BY <3>3, HandlerSets DEF Inv, SetsEntry
        <4> QED
          BY <1>1, <1>3, <3>3, <4>1 DEF Has, Committing, Checked, Entry, read_version
      <3> QED
        BY <1>5, <3>1, <3>2, <3>3, <3>4 DEF Handler
    <2> QED
      BY <1>1, <1>2, <2>1, <2>2
  <1> QED
    BY <1>4, <1>5

LEMMA OwnersClient ==
  ASSUME Inv, NEW p \in Proc, ClientStep(p)
  PROVE  SameOwners(p) /\ UNCHANGED <<version, net, overtaken>>
  <1>1. UNCHANGED <<version, net, overtaken>>
    BY DEF ClientStep, stm_start, stm_commit, stm_open_for_read, stm_read, stm_write, shared
  <1>2. pc \in [Proc -> PC] /\ \A w \in Word : EntryOK(p, w)
    BY DEF Inv, Typed, EntriesInv, EntriesOK
  <1>3. \A w \in Word : ~Has(p, w)
    BY DEF ClientStep, stm_start, stm_commit, stm_open_for_read, stm_read, stm_write, Running,
           Has, Committing
  <1>4. CASE stm_commit(p) /\ nesting_count[p] = 1
    <2>1. PICK ws \in SUBSET Written(p) :
            /\ acquired_list' = [acquired_list EXCEPT ![p] = ws]
            /\ \A x \in ws : cache'[p][x] = [cache[p][x] EXCEPT !.state = "acquire"]
      BY <1>4, CommitSets DEF Inv
    <2>2. ASSUME NEW w \in Word PROVE ~Has(p, w)'
      <3>1. acquired_list'[p] = ws
        BY <2>1 DEF Inv, Typed
      <3>2. cache \in [Proc -> [Word -> Entry]] /\ cache[p][w] \in Entry
        BY DEF Inv, Typed
      <3>3. ASSUME w \in ws PROVE cache'[p][w].state = "acquire"
        <4>1. cache'[p][w] = [cache[p][w] EXCEPT !.state = "acquire"]
          BY <2>1, <3>3
        <4> QED
          BY <3>2, <4>1 DEF Entry
      <3> QED
        BY <3>1, <3>3 DEF Has
    <2> QED
      BY <1>1, <1>3, <2>2 DEF SameOwners
  <1>5. CASE ~(stm_commit(p) /\ nesting_count[p] = 1)
    <2>1. acquired_list'[p] = {}
      <3>1. acquired_list' = acquired_list
        BY <1>5 DEF ClientStep, stm_start, stm_commit, stm_open_for_read, stm_read, stm_write, lists
      <3>2. ~Committing(p)
        BY DEF ClientStep, stm_start, stm_commit, stm_open_for_read, stm_read, stm_write, Running,
               Committing
      <3>3. acquired_list[p] \subseteq Word
        BY DEF Inv, Typed
      <3> QED
        BY <1>2, <3>1, <3>2, <3>3 DEF EntryOK
    <2> QED
      BY <1>1, <1>3, <2>1 DEF SameOwners, Has
  <1> QED
    BY <1>4, <1>5

LEMMA WriteMessages ==
  ASSUME NEW p \in Proc
  PROVE  /\ \A m \in Writes(p) : m.word \in Written(p) /\ m.at = "sent"
         /\ \A w \in Written(p) : \E m \in Writes(p) : m.word = w
         /\ \A m, n \in Writes(p) : m.word = n.word => m = n
  <1> DEFINE Msg(w) == [type |-> "WRITE", proc |-> p, word |-> w, val |-> cache[p][w].value,
                    at |-> "sent", seen |-> 0]
  <1>1. \A w : Msg(w).word = w /\ Msg(w).at = "sent"
    OBVIOUS
  <1>2. Writes(p) = { Msg(w) : w \in Written(p) }
    BY DEF Writes
  <1> HIDE DEF Msg
  <1> QED
    BY <1>1, <1>2

LEMMA ReleaseMessages ==
  ASSUME NEW p \in Proc
  PROVE  /\ \A m \in Releases(p) : /\ m.word \in acquired_list[p] /\ m.at = "sent"
                                   /\ cache[p][m.word].status = "SUCCEED"
         /\ \A w \in acquired_list[p] : cache[p][w].status = "SUCCEED"
              => \E m \in Releases(p) : m.word = w
         /\ \A m, n \in Releases(p) : m.word = n.word => m = n
  <1> DEFINE Msg(w) == [type |-> "RELEASE", proc |-> p, word |-> w, val |-> NoVal,
                    at |-> "sent", seen |-> 0]
             Own == { x \in acquired_list[p] : cache[p][x].status = "SUCCEED" }
  <1>1. \A w : Msg(w).word = w /\ Msg(w).at = "sent"
    OBVIOUS
  <1>2. Releases(p) = { Msg(w) : w \in Own }
    BY DEF Releases
  <1> HIDE DEF Msg
  <1> QED
    BY <1>1, <1>2

LEMMA OwnersStm ==
  ASSUME Inv, NEW p \in Proc, StmStep(p)
  PROVE  /\ overtaken' = overtaken
         /\ \/ SameOwners(p) /\ UNCHANGED <<version, net>>
            \/ \E M : HandsOver(p, M)
  <1>0. overtaken' = overtaken
    BY DEF StmStep, acquired, ask_version, validated, stm_abort, stm_cleanup
  <1>1. /\ pc \in [Proc -> PC] /\ cache \in [Proc -> [Word -> Entry]]
        /\ \A w \in Word : EntryOK(p, w) /\ cache[p][w] \in Entry
        /\ AcquiresOK(p) /\ acquired_list[p] \subseteq Word
    BY DEF Inv, Typed, EntriesInv, EntriesOK
  <1>2. CASE acquired(p)
    BY <1>1, <1>2 DEF acquired, SameOwners, Has, Committing, shared
  <1>3. ASSUME NEW w \in Word, ask_version(p, w)
        PROVE  SameOwners(p) /\ UNCHANGED <<version, net>>
    <2>1. UNCHANGED <<pc, acquired_list, version, net>> /\ cache[p][w].state = "DONE"
      BY <1>3 DEF ask_version, shared
    <2>2. SetsEntry(p, w, Asking(p, w))
      BY <1>3, ClientSets DEF Inv
    <2>3. cache'[p][w] = Asking(p, w) /\ \A x \in Word \ {w} : cache'[p][x] = cache[p][x]
      BY <2>2 DEF SetsEntry
    <2> QED
      BY <1>1, <2>1, <2>3 DEF SameOwners, Has, Committing, Asking, Entry
  <1>4. ASSUME Forget(p) PROVE \A w \in Word : ~Has(p, w)'
    BY <1>1, <1>4 DEF Forget, Has, Committing
  <1>5. CASE validated(p) /\ Forget(p)
    <2>1. net' = net (+) SetToBag(Writes(p)) /\ version' = version /\ pc[p] = "validate"
      BY <1>1, <1>5 DEF validated, Forget, shared
    <2>2. \A w \in acquired_list[p] : Has(p, w) /\ w \in Written(p)
      BY <1>1, <2>1 DEF EntryOK, Has, Committing, Written
    <2>3. /\ \A m \in Writes(p) : m.word \in Written(p) /\ m.at = "sent"
          /\ \A w \in Written(p) : \E m \in Writes(p) : m.word = w
          /\ \A m, n \in Writes(p) : m.word = n.word => m = n
      BY WriteMessages
    <2>4. Written(p) \subseteq Word
      BY DEF Written
    <2>5. \A w \in Written(p) : HasBlock(p, BlockOf(w))
      <3> SUFFICES ASSUME NEW w \in Written(p) PROVE HasBlock(p, BlockOf(w))
        OBVIOUS
      <3>1. PICK x \in acquired_list[p] : BlockOf(x) = BlockOf(w)
        BY <1>1, <2>1, <2>4 DEF AcquiresOK, Written
      <3> QED
        BY <1>1, <2>2, <3>1 DEF HasBlock
    <2>6. \A w \in Word : Has(p, w) => w \in Written(p)
      BY <2>2 DEF Has
    <2>7. HandsOver(p, Writes(p))
      BY <1>4, <1>5, <2>1, <2>3, <2>4, <2>5, <2>6 DEF HandsOver
    <2> QED
      BY <1>0, <2>7
  <1>6. CASE validated(p) /\ ~Forget(p)
    BY <1>1, <1>6 DEF validated, SameOwners, Has, Committing, shared, lists
  <1>7. CASE stm_abort(p)
    <2>1. net' = net (+) SetToBag(Releases(p)) /\ version' = version /\ pc[p] = "abort" /\ Forget(p)
          /\ \A w \in acquired_list[p] : cache[p][w].state = "DONE"
      BY <1>7 DEF stm_abort, shared
    <2>2. \A w \in Word : Has(p, w) <=> w \in acquired_list[p] /\ cache[p][w].status = "SUCCEED"
      BY <2>1 DEF Has, Committing
    <2>3. /\ \A m \in Releases(p) : /\ m.word \in acquired_list[p] /\ m.at = "sent"
                                    /\ cache[p][m.word].status = "SUCCEED"
          /\ \A w \in acquired_list[p] : cache[p][w].status = "SUCCEED"
               => \E m \in Releases(p) : m.word = w
          /\ \A m, n \in Releases(p) : m.word = n.word => m = n
      BY ReleaseMessages
    <2>4. \A m \in Releases(p) : HasBlock(p, BlockOf(m.word))
      BY <1>1, <2>2, <2>3 DEF HasBlock
    <2>5. HandsOver(p, Releases(p))
      BY <1>1, <1>4, <2>1, <2>2, <2>3, <2>4 DEF HandsOver
    <2> QED
      BY <1>0, <2>5
  <1>8. CASE stm_cleanup(p)
    BY <1>1, <1>8 DEF stm_cleanup, SameOwners, Has, Committing, shared, lists
  <1> QED
    BY <1>0, <1>2, <1>3, <1>5, <1>6, <1>7, <1>8 DEF StmStep

-----------------------------------------------------------------------------
(* No block stays owned for good.                                          *)

OwnedInv == \A b \in Block :
  is_owned(version[b]) => (\E p \in Proc : HasBlock(p, b)) \/ Departing(b) # {}

(* A message that is served stays under way, or unsets the ownership bit.  *)
LEMMA DeliverOwned ==
  ASSUME Typed, OwnedInv, NEW m \in BagToSet(net), Deliver(m) PROVE OwnedInv'
  <1> SUFFICES ASSUME NEW b \in Block, is_owned(version'[b]),
                      ~(\E p \in Proc : HasBlock(p, b)')
               PROVE  Departing(b)' # {}
    BY DEF OwnedInv
  <1>1. /\ IsABag(net) /\ version \in [Block -> Nat] /\ m \in Message
        /\ BlockOf(m.word) \in Block /\ m.seen \in Nat
    BY BlockTyped DEF Typed, Message
  <1>2. UNCHANGED <<cache, pc, acquired_list>>
    BY DEF Deliver, commit_value, version_looks, version_set, lists
  <1>3. \A q \in Proc : HasBlock(q, b)' <=> HasBlock(q, b)
    BY <1>2 DEF HasBlock, Has, Committing
  <1>4. ASSUME NEW x, x.word = m.word, Becomes(m, x), version' = version
        PROVE  Departing(b)' # {}
    <2>1. PICK n \in BagToSet(net) : BlockOf(n.word) = b
      BY <1>3, <1>4 DEF OwnedInv, Departing
    <2>2. x \in BagToSet(net') /\ \A y \in BagToSet(net) \ {m, x} : y \in BagToSet(net')
      BY <1>1, <1>4, BecomesSwap
    <2> QED
      BY <1>4, <2>1, <2>2 DEF Departing
  <1>5. CASE commit_value(m)
    <2>1. [m EXCEPT !.at = "stored"].word = m.word
      BY <1>1 DEF Message
    <2> QED
      BY <1>4, <1>5, <2>1 DEF commit_value
  <1>6. CASE version_looks(m)
    <2>1. [m EXCEPT !.at = "seen", !.seen = version[BlockOf(m.word)]].word = m.word
      BY <1>1 DEF Message
    <2> QED
      BY <1>4, <1>6, <2>1 DEF version_looks, shared
  <1>7. CASE version_set(m)
    <2>1. ~is_owned(version'[BlockOf(m.word)])
      BY <1>1, <1>7, Versions DEF version_set
    <2>2. version'[b] = version[b] /\ b # BlockOf(m.word)
      BY <1>1, <1>7, <2>1 DEF version_set
    <2>3. PICK n \in BagToSet(net) : BlockOf(n.word) = b
      BY <1>3, <2>2 DEF OwnedInv, Departing
    <2>4. n \in BagToSet(net')
      BY <1>1, <1>7, <2>2, <2>3, BagTake DEF version_set
    <2> QED
      BY <2>3, <2>4 DEF Departing
  <1> QED
    BY <1>5, <1>6, <1>7 DEF Deliver

LEMMA OwnedNext ==
  ASSUME Inv, OwnedInv, [Next]_vars PROVE OwnedInv'
  <1>1. CASE UNCHANGED vars
    BY <1>1 DEF vars, shared, lists, OwnedInv, HasBlock, Has, Committing, Departing
  <1>2. ASSUME NEW p \in Proc, StepOf(p) PROVE OwnedInv'
    <2>1. \A q \in Proc \ {p} : SameOwners(q)
      BY <1>2, OthersSame, OwnersSame DEF Inv
    <2>2. CASE SameOwners(p) /\ UNCHANGED <<version, net>>
      BY <2>1, <2>2 DEF OwnedInv, HasBlock, SameOwners, Departing
    <2>3. ASSUME NEW M, HandsOver(p, M) PROVE OwnedInv'
      <3> SUFFICES ASSUME NEW b \in Block, is_owned(version'[b]),
                          ~(\E q \in Proc : HasBlock(q, b)')
                   PROVE  Departing(b)' # {}
        BY DEF OwnedInv
      <3>1. version' = version /\ BagToSet(net') = BagToSet(net) \cup M
        BY <2>3, BagAdd DEF HandsOver, Inv, Typed
      <3>2. CASE HasBlock(p, b)
        BY <2>3, <3>1, <3>2 DEF HandsOver, HasBlock, Departing
      <3>3. CASE ~HasBlock(p, b)
        <4>1. \A q \in Proc : ~HasBlock(q, b)
          BY <2>1, <3>3 DEF HasBlock, SameOwners
        <4> QED
          BY <3>1, <4>1 DEF OwnedInv, Departing
      <3> QED
        BY <3>2, <3>3
    <2>4. CASE StmStep(p)
      BY <2>2, <2>3, <2>4, OwnersStm
    <2>5. ASSUME NEW w \in Word, Handler(p, w) PROVE OwnedInv'
      <3>1. /\ net' = net /\ \A x \in Word \ {w} : Has(p, x)' <=> Has(p, x)
            /\ \/ version' = version /\ (Has(p, w)' <=> Has(p, w))
               \/ Succeeds(p, w) /\ Has(p, w)'
        BY <2>5, OwnersHandler
      <3>2. CASE Succeeds(p, w) /\ Has(p, w)'
        <4>1. /\ HasBlock(p, BlockOf(w))' /\ \A b \in Block : HasBlock(p, b) => HasBlock(p, b)'
              /\ \A b \in Block \ {BlockOf(w)} : version'[b] = version[b]
          BY <3>1, <3>2 DEF HasBlock, Succeeds, Inv, Typed
        <4>2. \A b \in Block : Departing(b)' = Departing(b)
          BY <3>1 DEF Departing
        <4>3. \A q \in Proc \ {p}, b \in Block : HasBlock(q, b) => HasBlock(q, b)'
          BY <2>1 DEF HasBlock, SameOwners
        <4> QED
          BY <4>1, <4>2, <4>3 DEF OwnedInv
      <3>3. CASE version' = version /\ (Has(p, w)' <=> Has(p, w))
        <4>1. SameOwners(p)
          BY <3>1, <3>3 DEF SameOwners
        <4> QED
          BY <2>2, <3>1, <3>3, <4>1
      <3> QED
        BY <3>1, <3>2, <3>3
    <2> QED
      BY <1>2, <2>2, <2>4, <2>5, OwnersClient DEF StepOf
  <1>3. ASSUME NEW m \in BagToSet(net), Deliver(m) PROVE OwnedInv'
    BY <1>3, DeliverOwned DEF Inv
  <1> QED
    BY <1>1, <1>2, <1>3 DEF Next, StepOf

LEMMA AcquiredIsHas ==
  ASSUME Inv, NEW p \in Proc, NEW b PROVE Acquired(p, b) <=> HasBlock(p, b)
  BY DEF Inv, Typed, Acquired, HasBlock, Has, Committing

(* Whatever the threads of a node do to each other and however many words  *)
(* share a block: who has set an ownership bit will unset it.              *)
THEOREM NoBlockStaysOwned == Spec => []OwnedBySomebody
  <1>1. Init => OwnedInv
    BY DEF Init, OwnedInv, is_owned
  <1>2. Inv /\ OwnedInv => OwnedBySomebody
    BY AcquiredIsHas DEF OwnedInv, OwnedBySomebody
  <1> QED
    BY <1>1, <1>2, OwnedNext, Invariant, PTL DEF Spec

-----------------------------------------------------------------------------
(* Exact ownership.                                                        *)

(* Whose b is; and a message that has seen its version is about to change  *)
(* the version it has.                                                     *)
OwnersOK(b) ==
  /\ is_owned(version[b]) <=> (\E p \in Proc : HasBlock(p, b)) \/ Departing(b) # {}
  /\ \A p, q \in Proc : HasBlock(p, b) /\ HasBlock(q, b) => p = q
  /\ \A m \in Departing(b) :
       /\ Departing(b) = {m} /\ net[m] = 1
       /\ \A p \in Proc : ~HasBlock(p, b)
       /\ m.at = "seen" => m.seen = version[b]

OwnersInv == \A b \in Block \ overtaken : OwnersOK(b)

LEMMA OvertakenGrows ==
  ASSUME Next PROVE overtaken \subseteq overtaken'
  <1>1. CASE \E m \in BagToSet(net) : Deliver(m)
    BY <1>1 DEF Deliver, commit_value, version_looks, version_set
  <1>2. ASSUME NEW p \in Proc, ClientStep(p) PROVE overtaken' = overtaken
    BY <1>2 DEF ClientStep, stm_start, stm_commit, stm_open_for_read, stm_read, stm_write
  <1>3. ASSUME NEW p \in Proc, StmStep(p) PROVE overtaken' = overtaken
    BY <1>3 DEF StmStep, acquired, ask_version, validated, stm_abort, stm_cleanup
  <1>4. ASSUME NEW p \in Proc, NEW w \in Word, Handler(p, w) PROVE overtaken \subseteq overtaken'
    BY <1>4 DEF Handler, open_looks, open_for_read, acquire_looks, acquire_local, read_version
  <1> QED
    BY <1>1, <1>2, <1>3, <1>4 DEF Next

(* A step of which one processor's owners ...                              *)
LEMMA OwnersKept ==
  ASSUME OwnersInv, \A q \in Proc : SameOwners(q), UNCHANGED <<version, net, overtaken>>
  PROVE  OwnersInv'
  <1> SUFFICES ASSUME NEW b \in Block \ overtaken PROVE OwnersOK(b)'
    BY DEF OwnersInv
  <1>1. \A q \in Proc : HasBlock(q, b)' <=> HasBlock(q, b)
    BY DEF HasBlock, SameOwners
  <1>2. Departing(b)' = Departing(b) /\ version' = version /\ net' = net
    BY DEF Departing
  <1> QED
    BY <1>1, <1>2 DEF OwnersInv, OwnersOK

LEMMA OwnersSucceed ==
  ASSUME Typed, OwnersInv, NEW p \in Proc, NEW w \in Word, Succeeds(p, w),
         Has(p, w)', \A x \in Word \ {w} : Has(p, x)' <=> Has(p, x),
         \A q \in Proc \ {p} : SameOwners(q), net' = net
  PROVE  OwnersInv'
  <1> SUFFICES ASSUME NEW b \in Block \ overtaken' PROVE OwnersOK(b)'
    BY DEF OwnersInv
  <1>1. BlockOf(w) \in Block /\ version \in [Block -> Nat] /\ b \in Block \ overtaken
    BY BlockTyped DEF Typed, Succeeds
  <1>2. Departing(b)' = Departing(b) /\ net' = net
    BY DEF Departing
  <1>3. CASE b = BlockOf(w)
    <2>1. version[b] \in Nat /\ cache[p][w].old_version = version[b]
      BY <1>1, <1>3 DEF Succeeds
    <2>2. ~is_owned(version[b]) /\ is_owned(version'[b])
      BY <1>1, <1>3, <2>1, Versions DEF Succeeds
    <2>3. Departing(b) = {} /\ \A q \in Proc : ~HasBlock(q, b)
      BY <1>1, <2>2 DEF OwnersInv, OwnersOK
    <2>4. HasBlock(p, b)' /\ \A q \in Proc \ {p} : ~HasBlock(q, b)'
      BY <1>3, <2>3 DEF HasBlock, SameOwners
    <2> QED
      BY <1>2, <2>2, <2>3, <2>4 DEF OwnersOK
  <1>4. CASE b # BlockOf(w)
    <2>1. version'[b] = version[b]
      BY <1>1, <1>4 DEF Succeeds
    <2>2. \A q \in Proc : HasBlock(q, b)' <=> HasBlock(q, b)
      BY <1>4 DEF HasBlock, SameOwners
    <2> QED
      BY <1>1, <1>2, <2>1, <2>2 DEF OwnersInv, OwnersOK
  <1> QED
    BY <1>3, <1>4

LEMMA OwnersHandOver ==
  ASSUME OneWordBlocks, Typed, OwnersInv, NEW p \in Proc, NEW M, HandsOver(p, M),
         \A q \in Proc \ {p} : SameOwners(q), overtaken' = overtaken
  PROVE  OwnersInv'
  <1> SUFFICES ASSUME NEW b \in Block \ overtaken PROVE OwnersOK(b)'
    BY DEF OwnersInv
  <1>1. /\ IsABag(net) /\ IsABag(net') /\ BagToSet(net') = BagToSet(net) \cup M
        /\ \A m \in BagToSet(net') : net'[m] = (IF m \in BagToSet(net) THEN net[m] ELSE 0)
                                             + (IF m \in M THEN 1 ELSE 0)
    BY BagAdd DEF Typed, HandsOver
  <1>2. /\ \A q \in Proc \ {p} : HasBlock(q, b)' <=> HasBlock(q, b)
        /\ ~HasBlock(p, b)'
    BY DEF HasBlock, SameOwners, HandsOver
  <1>3. OwnersOK(b) /\ version' = version
    BY DEF OwnersInv, HandsOver
  <1>4. CASE HasBlock(p, b)
    <2>1. PICK w \in Word : BlockOf(w) = b /\ Has(p, w)
      BY <1>4 DEF HasBlock
    <2>2. PICK m \in M : m.word = w /\ m.at = "sent"
      BY <2>1 DEF HandsOver
    <2>3. Departing(b) = {} /\ is_owned(version[b]) /\ \A q \in Proc \ {p} : ~HasBlock(q, b)
      BY <1>3, <1>4 DEF OwnersOK
    <2>4. \A n \in M : BlockOf(n.word) = b => n = m
      BY <2>1, <2>2 DEF HandsOver, OneWordBlocks
    <2>5. Departing(b)' = {m} /\ m \in BagToSet(net') /\ m \notin BagToSet(net)
      BY <1>1, <2>1, <2>2, <2>3, <2>4 DEF Departing
    <2>6. net'[m] = 1
      BY <1>1, <2>2, <2>5
    <2> QED
      BY <1>2, <1>3, <2>2, <2>3, <2>5, <2>6 DEF OwnersOK
  <1>5. CASE ~HasBlock(p, b)
    <2>1. \A m \in M : BlockOf(m.word) # b
      BY <1>5 DEF HandsOver
    <2>2. Departing(b)' = Departing(b)
      BY <1>1, <2>1 DEF Departing
    <2>3. \A m \in Departing(b) : net'[m] = net[m]
      <3> SUFFICES ASSUME NEW m \in Departing(b) PROVE net'[m] = net[m]
        OBVIOUS
      <3>1. m \in BagToSet(net) /\ m \in BagToSet(net') /\ m \notin M
        BY <1>1, <2>1 DEF Departing
      <3>2. net[m] \in Nat
        BY <1>1, <3>1 DEF IsABag, BagToSet
      <3> QED
        BY <1>1, <3>1, <3>2
    <2> QED
      BY <1>2, <1>3, <1>5, <2>2, <2>3 DEF OwnersOK
  <1> QED
    BY <1>4, <1>5

(* Half a request: m has become x, and owns b as before.                   *)
LEMMA OwnersBecome ==
  ASSUME Typed, OwnersInv, NEW m \in BagToSet(net), NEW x, Becomes(m, x),
         x.word = m.word, x # m, x.at = "seen" => x.seen = version[BlockOf(m.word)],
         UNCHANGED <<version, cache, pc, acquired_list, overtaken>>
  PROVE  OwnersInv'
  <1> SUFFICES ASSUME NEW b \in Block \ overtaken PROVE OwnersOK(b)'
    BY DEF OwnersInv
  <1>0. IsABag(net)
    BY DEF Typed
  <1>1. /\ x \in BagToSet(net') /\ BagToSet(net') \subseteq BagToSet(net) \cup {x}
        /\ \A y \in BagToSet(net) \ {m, x} : y \in BagToSet(net') /\ net'[y] = net[y]
        /\ net[m] = 1 => m \notin BagToSet(net')
        /\ x \notin BagToSet(net) => net'[x] = 1
    BY <1>0, BecomesSwap
  <1>2. \A q \in Proc : HasBlock(q, b)' <=> HasBlock(q, b)
    BY DEF HasBlock, Has, Committing
  <1>3. OwnersOK(b) /\ version' = version
    BY DEF OwnersInv
  <1>4. CASE b = BlockOf(m.word)
    <2>1. /\ Departing(b) = {m} /\ net[m] = 1 /\ \A p \in Proc : ~HasBlock(p, b)
          /\ is_owned(version[b])
      BY <1>3, <1>4 DEF OwnersOK, Departing
    <2>2. Departing(b)' = {x} /\ net'[x] = 1
      BY <1>1, <1>4, <2>1 DEF Departing
    <2> QED
      BY <1>2, <1>3, <1>4, <2>1, <2>2 DEF OwnersOK
  <1>5. CASE b # BlockOf(m.word)
    <2>1. Departing(b)' = Departing(b) /\ \A y \in Departing(b) : net'[y] = net[y]
      BY <1>1, <1>5 DEF Departing
    <2> QED
      BY <1>2, <1>3, <2>1 DEF OwnersOK
  <1> QED
    BY <1>4, <1>5

LEMMA OwnersReleased ==
  ASSUME Typed, OwnersInv, NEW m \in BagToSet(net), version_set(m)
  PROVE  OwnersInv'
  <1> SUFFICES ASSUME NEW b \in Block \ overtaken PROVE OwnersOK(b)'
    BY DEF OwnersInv, version_set
  <1>1. /\ m.word \in Word /\ BlockOf(m.word) \in Block /\ version \in [Block -> Nat]
        /\ m.seen \in Nat
    BY BlockTyped DEF Typed, Message
  <1>2. /\ net' = net (-) SetToBag({m}) /\ UNCHANGED <<cache, pc, acquired_list>>
        /\ \A c \in Block \ {BlockOf(m.word)} : version'[c] = version[c]
        /\ ~is_owned(version'[BlockOf(m.word)])
    BY <1>1, Versions DEF version_set, lists
  <1>3. /\ BagToSet(net') \subseteq BagToSet(net)
        /\ \A x \in BagToSet(net) \ {m} : x \in BagToSet(net') /\ net'[x] = net[x]
        /\ net[m] = 1 => m \notin BagToSet(net')
    BY <1>2, BagTake DEF Typed
  <1>4. \A q \in Proc : HasBlock(q, b)' <=> HasBlock(q, b)
    BY <1>2 DEF HasBlock, Has, Committing
  <1>5. CASE b = BlockOf(m.word)
    <2>1. Departing(b) = {m} /\ net[m] = 1 /\ \A p \in Proc : ~HasBlock(p, b)
      BY <1>5 DEF OwnersInv, OwnersOK, Departing
    <2>2. Departing(b)' = {}
      BY <1>3, <2>1 DEF Departing
    <2> QED
      BY <1>2, <1>4, <1>5, <2>1, <2>2 DEF OwnersOK
  <1>6. CASE b # BlockOf(m.word)
    <2>1. Departing(b)' = Departing(b) /\ \A x \in Departing(b) : net'[x] = net[x]
      BY <1>3, <1>6 DEF Departing
    <2>2. version'[b] = version[b] /\ OwnersOK(b)
      BY <1>2, <1>6 DEF OwnersInv
    <2> QED
      BY <1>4, <2>1, <2>2 DEF OwnersOK
  <1> QED
    BY <1>5, <1>6

LEMMA OwnersDeliver ==
  ASSUME Typed, OwnersInv, NEW m \in BagToSet(net), Deliver(m)
  PROVE  OwnersInv'
  <1>1. m \in Message
    BY DEF Typed
  <1>2. CASE commit_value(m)
    <2> DEFINE x == [m EXCEPT !.at = "stored"]
    <2>1. x.word = m.word /\ x.at = "stored" /\ m.at = "sent"
      BY <1>1, <1>2 DEF commit_value, Message
    <2>2. Becomes(m, x) /\ UNCHANGED <<version, cache, pc, acquired_list, overtaken>>
      BY <1>2 DEF commit_value, lists
    <2>3. x # m
      BY <2>1
    <2> HIDE DEF x
    <2> QED
      BY <2>1, <2>2, <2>3, OwnersBecome
  <1>3. CASE version_looks(m)
    <2> DEFINE x == [m EXCEPT !.at = "seen", !.seen = version[BlockOf(m.word)]]
    <2>1. x.word = m.word /\ x.at = "seen" /\ m.at # "seen" /\ x.seen = version[BlockOf(m.word)]
      BY <1>1, <1>3 DEF version_looks, Message
    <2>2. Becomes(m, x) /\ UNCHANGED <<version, cache, pc, acquired_list, overtaken>>
      BY <1>3 DEF version_looks, lists, shared
    <2>3. x # m
      BY <2>1
    <2> HIDE DEF x
    <2> QED
      BY <2>1, <2>2, <2>3, OwnersBecome
  <1> QED
    BY <1>2, <1>3, OwnersReleased DEF Deliver

LEMMA OwnersNext ==
  ASSUME OneWordBlocks, Inv, OwnersInv, [Next]_vars PROVE OwnersInv'
  <1>1. CASE UNCHANGED vars
    BY <1>1 DEF vars, shared, lists, OwnersInv, OwnersOK, HasBlock, Has, Committing, Departing
  <1>2. ASSUME NEW p \in Proc, StepOf(p) PROVE OwnersInv'
    <2>1. \A q \in Proc \ {p} : SameOwners(q)
      BY <1>2, OthersSame, OwnersSame DEF Inv
    <2>2. CASE SameOwners(p) /\ UNCHANGED <<version, net, overtaken>>
      BY <2>1, <2>2, OwnersKept
    <2>3. CASE ClientStep(p)
      BY <2>2, <2>3, OwnersClient
    <2>4. CASE StmStep(p)
      BY <2>1, <2>2, <2>4, OwnersStm, OwnersHandOver DEF Inv
    <2>5. ASSUME NEW w \in Word, Handler(p, w) PROVE OwnersInv'
      <3>1. /\ net' = net /\ \A x \in Word \ {w} : Has(p, x)' <=> Has(p, x)
            /\ \/ /\ version' = version /\ overtaken' = overtaken
                  /\ Has(p, w)' <=> Has(p, w)
               \/ Succeeds(p, w) /\ Has(p, w)'
        BY <2>5, OwnersHandler
      <3>2. CASE Succeeds(p, w) /\ Has(p, w)'
        BY <2>1, <3>1, <3>2, OwnersSucceed DEF Inv
      <3>3. CASE version' = version /\ overtaken' = overtaken /\ (Has(p, w)' <=> Has(p, w))
        <4>1. SameOwners(p)
          BY <3>1, <3>3 DEF SameOwners
        <4> QED
          BY <2>2, <3>1, <3>3, <4>1
      <3> QED
        BY <3>1, <3>2, <3>3
    <2> QED
      BY <1>2, <2>3, <2>4, <2>5 DEF StepOf
  <1>3. ASSUME NEW m \in BagToSet(net), Deliver(m) PROVE OwnersInv'
    BY <1>3, OwnersDeliver DEF Inv
  <1> QED
    BY <1>1, <1>2, <1>3 DEF Next, StepOf

LEMMA OwnersInvariant == ASSUME OneWordBlocks PROVE Spec => []OwnersInv
  <1>1. Init => OwnersInv
    <2> SUFFICES ASSUME Init, NEW b \in Block PROVE OwnersOK(b)
      BY DEF OwnersInv
    <2>1. ~is_owned(version[b]) /\ \A p \in Proc : ~HasBlock(p, b)
      BY DEF Init, is_owned, HasBlock, Has
    <2>2. Departing(b) = {}
      BY DEF Init, Departing, EmptyBag, SetToBag, BagToSet
    <2> QED
      BY <2>1, <2>2 DEF OwnersOK
  <1>2. Inv /\ OwnersInv /\ [Next]_vars => OwnersInv'
    BY OwnersNext
  <1> QED
    BY <1>1, <1>2, Invariant, PTL DEF Spec

(* When no two words share a block, then however the two threads of each   *)
(* node interleave, a block no acquire has been overtaken on is owned by   *)
(* one transaction at most, its ownership bit is set exactly while one     *)
(* owns it, and a message on its way to it is the only one.                *)
THEOREM OwnershipIsExact == ASSUME OneWordBlocks PROVE Spec => []ExactUnlessOvertaken
  <1>1. Inv /\ OwnersInv => ExactUnlessOvertaken
    BY AcquiredIsHas DEF OwnersInv, OwnersOK, ExactUnlessOvertaken, Exact
  <1> QED
    BY <1>1, Invariant, OwnersInvariant, PTL

-----------------------------------------------------------------------------
(* Versions.                                                               *)

(* What every step does to every entry but one that is being opened.       *)
Keeps(p, w) ==
  LET e == cache[p][w]
      f == cache'[p][w] IN
  f.read /\ f.state # "open" =>
    /\ e.read /\ e.state # "open" /\ f.version = e.version
    /\ f.state = "open_value" <=> e.state = "open_value"
    /\ ~f.written => ~e.written /\ f.value = e.value
    /\ \/ rset'[p][w] = rset[p][w]
       \/ /\ e.state # "open_value" /\ ~e.written /\ ~is_owned(e.version)
          /\ rset'[p][w] = e.value

LEMMA KeepsSame ==
  ASSUME NEW p \in Proc, NEW w \in Word,
         cache'[p][w] = cache[p][w] /\ rset'[p][w] = rset[p][w]
  PROVE  Keeps(p, w)
  BY DEF Keeps

LEMMA KeepsStep ==
  ASSUME Inv, NEW p \in Proc, StepOf(p), NEW w \in Word
  PROVE  Keeps(p, w) \/ open_looks(p, w) \/ open_for_read(p, w)
  <1>1. Typed /\ EntryOK(p, w) /\ cache[p][w] \in Entry /\ cache \in [Proc -> [Word -> Entry]]
    BY DEF Inv, EntriesInv, EntriesOK, Typed
  <1>2. ASSUME NEW x \in Word, Handler(p, x) PROVE Keeps(p, w) \/ open_looks(p, w) \/ open_for_read(p, w)
    <2>1. rset' = rset
      BY <1>2 DEF Handler, open_looks, open_for_read, acquire_looks, acquire_local,
         read_version, ghosts
    <2>2. CASE x # w
      <3>1. \E e : SetsEntry(p, x, e)
        BY <1>1, <1>2, HandlerSets DEF Handler
      <3> QED
        BY <2>1, <2>2, <3>1, KeepsSame DEF SetsEntry
    <2>3. CASE x = w /\ acquire_looks(p, w)
      <3>1. cache'[p][w] = Looked(p, w)
        BY <1>1, <2>3, HandlerSets DEF SetsEntry
      <3> QED
        BY <1>1, <2>1, <2>3, <3>1 DEF Keeps, Looked, Entry, acquire_looks
    <2>4. CASE x = w /\ acquire_local(p, w)
      <3>1. cache'[p][w] = Answered(p, w)
        BY <1>1, <2>4, HandlerSets DEF SetsEntry
      <3> QED
        BY <1>1, <2>1, <2>4, <3>1 DEF Keeps, Answered, Entry, acquire_local
    <2>5. CASE x = w /\ read_version(p, w)
      <3>1. cache'[p][w] = Checked(p, w)
        BY <1>1, <2>5, HandlerSets DEF SetsEntry
      <3> QED
        BY <1>1, <2>1, <2>5, <3>1 DEF Keeps, Checked, Entry, read_version
    <2> QED
      BY <1>2, <2>2, <2>3, <2>4, <2>5 DEF Handler
  <1>3. CASE ClientStep(p)
    <2>1. CASE stm_start(p)
      BY <2>1, KeepsSame DEF stm_start
    <2>2. CASE stm_commit(p)
      <3>1. rset' = rset
        BY <2>2 DEF stm_commit, ghosts
      <3>2. \/ cache'[p][w] = cache[p][w]
            \/ w \in Written(p) /\ cache'[p][w] = [cache[p][w] EXCEPT !.state = "acquire"]
        <4>1. CASE nesting_count[p] = 1
          BY <1>1, <2>2, <4>1, CommitSets
        <4>2. CASE nesting_count[p] > 1
          BY <2>2, <4>2 DEF stm_commit
        <4> QED
          BY <2>2, <4>1, <4>2 DEF stm_commit
      <3>3. CASE w \in Written(p) /\ cache'[p][w] = [cache[p][w] EXCEPT !.state = "acquire"]
        BY <1>1, <3>1, <3>3 DEF Keeps, Entry, Written, EntryOK
      <3> QED
        BY <3>1, <3>2, <3>3, KeepsSame
    <2>3. ASSUME NEW x \in Word, stm_open_for_read(p, x) PROVE Keeps(p, w)
      <3>1. rset' = rset /\ SetsEntry(p, x, Opening)
        BY <1>1, <2>3, ClientSets DEF stm_open_for_read, ghosts
      <3>2. CASE x = w
        <4>1. cache'[p][w] = Opening
          BY <3>1, <3>2 DEF SetsEntry
        <4>2. Opening.state = "open"
          BY DEF Opening, NoEntry
        <4> QED
          BY <4>1, <4>2 DEF Keeps
      <3> QED
        BY <3>1, <3>2, KeepsSame DEF SetsEntry
    <2>4. ASSUME NEW x \in Word, stm_read(p, x) PROVE Keeps(p, w)
      <3>1. cache' = cache
        BY <2>4 DEF stm_read
      <3>2. CASE rset'[p][w] = rset[p][w]
        BY <3>1, <3>2, KeepsSame
      <3>3. CASE x = w /\ rset'[p][w] = cache[p][w].value /\ ~cache[p][w].written
                 /\ ~(cache[p][w].read /\ is_owned(cache[p][w].version))
                 /\ cache[p][w].state = "DONE"
        BY <3>1, <3>3 DEF Keeps
      <3> QED
        BY <1>1, <2>4, <3>2, <3>3 DEF stm_read, Typed
    <2>5. ASSUME NEW x \in Word, NEW v \in Val, stm_write(p, x, v) PROVE Keeps(p, w)
      <3>1. rset' = rset /\ SetsEntry(p, x, Storing(p, x, v)) /\ cache[p][x].state = "DONE"
        BY <1>1, <2>5, ClientSets DEF stm_write, ghosts
      <3>2. CASE x = w
        <4>1. cache'[p][w] = Storing(p, w, v)
          BY <3>1, <3>2 DEF SetsEntry
        <4> QED
          BY <1>1, <3>1, <3>2, <4>1 DEF Keeps, Storing, Entry
      <3> QED
        BY <3>1, <3>2, KeepsSame DEF SetsEntry
    <2> QED
      BY <1>3, <2>1, <2>2, <2>3, <2>4, <2>5 DEF ClientStep
  <1>4. ASSUME Forget(p) PROVE Keeps(p, w)
    <2>1. cache'[p][w] = Forgotten(p, w)
      BY <1>1, <1>4, ForgetSets
    <2>2. ~Forgotten(p, w).read
      BY DEF Forgotten, NoEntry
    <2> QED
      BY <2>1, <2>2 DEF Keeps
  <1>5. CASE StmStep(p)
    <2>1. CASE acquired(p)
      BY <2>1, KeepsSame DEF acquired, ghosts
    <2>2. ASSUME NEW x \in Word, ask_version(p, x) PROVE Keeps(p, w)
      <3>1. rset' = rset /\ SetsEntry(p, x, Asking(p, x)) /\ cache[p][x].state = "DONE"
        BY <1>1, <2>2, ClientSets DEF ask_version, ghosts
      <3>2. CASE x = w
        <4>1. cache'[p][w] = Asking(p, w)
          BY <3>1, <3>2 DEF SetsEntry
        <4> QED
          BY <1>1, <3>1, <3>2, <4>1 DEF Keeps, Asking, Entry
      <3> QED
        BY <3>1, <3>2, KeepsSame DEF SetsEntry
    <2>3. CASE validated(p)
      <3>1. CASE Forget(p)
        BY <1>4, <3>1
      <3> QED
        BY <2>3, <3>1, KeepsSame DEF validated, ghosts
    <2>4. CASE stm_abort(p)
      BY <1>4, <2>4 DEF stm_abort
    <2>5. CASE stm_cleanup(p)
      <3>1. cache'[p][w] = NoEntry
        BY <1>1, <2>5, CleanupSets
      <3>2. ~NoEntry.read /\ NoEntry.state = "DONE"
        BY DEF NoEntry
      <3> QED
        BY <3>1, <3>2 DEF Keeps
    <2> QED
      BY <1>5, <2>1, <2>2, <2>3, <2>4, <2>5 DEF StmStep
  <1> QED
    BY <1>2, <1>3, <1>5 DEF StepOf

LEMMA KeepsNext ==
  ASSUME Inv, Next, NEW p \in Proc, NEW w \in Word
  PROVE  Keeps(p, w) \/ open_looks(p, w) \/ open_for_read(p, w)
  <1>1. SameFor(p) \/ StepOf(p)
    BY OthersSame, DeliverSame DEF Next, StepOf, Inv
  <1> QED
    BY <1>1, KeepsStep, KeepsSame DEF SameFor

(* Every step leaves a version that no acquire is overtaken on, or lets it *)
(* grow; and a word changes only while its write is half done.             *)
LEMMA VersionGrows ==
  ASSUME Inv, OwnersInv, Next, NEW w \in Word, BlockOf(w) \notin overtaken'
  PROVE  LET now == make_unowned(version[BlockOf(w)])
             then == make_unowned(version'[BlockOf(w)]) IN
         /\ now <= then
         /\ HalfWritten(w)' \/ now < then \/ (mem'[w] = mem[w] /\ ~HalfWritten(w))
  <1> DEFINE b == BlockOf(w)
             now == make_unowned(version[b])
             then == make_unowned(version'[b])
             Goal == /\ now <= then
                     /\ HalfWritten(w)' \/ now < then \/ (mem'[w] = mem[w] /\ ~HalfWritten(w))
  <1>1. /\ b \in Block \ overtaken /\ version \in [Block -> Nat] /\ mem \in [Word -> Value]
        /\ version[b] \in Nat /\ now \in Nat /\ IsABag(net)
        /\ OwnersOK(b) /\ Typed'
    BY BlockTyped, OvertakenGrows, Versions, TypedNext DEF Inv, Typed, OwnersInv
  <1>2. version'[b] \in Nat /\ then \in Nat
    BY <1>1, Versions DEF Typed
  <1>3. ASSUME version'[b] = version[b], mem'[w] = mem[w], HalfWritten(w) => HalfWritten(w)'
        PROVE  Goal
    BY <1>1, <1>3
  <1>4. ASSUME NEW p \in Proc, ClientStep(p) \/ StmStep(p) PROVE Goal
    <2>1. UNCHANGED shared
      BY <1>4 DEF ClientStep, StmStep, stm_start, stm_commit, stm_open_for_read, stm_read, stm_write,
                  acquired, ask_version, validated, stm_abort, stm_cleanup
    <2>2. BagToSet(net) \subseteq BagToSet(net')
      <3>1. CASE UNCHANGED net
        BY <3>1
      <3>2. ASSUME NEW M, HandsOver(p, M) PROVE BagToSet(net) \subseteq BagToSet(net')
        BY <1>1, <3>2, BagAdd DEF HandsOver
      <3> QED
        BY <1>4, <3>1, <3>2, OwnersClient, OwnersStm
    <2> QED
      BY <1>3, <2>1, <2>2 DEF HalfWritten, shared
  <1>5. ASSUME NEW p \in Proc, NEW x \in Word, Handler(p, x) PROVE Goal
    <2>1. net' = net /\ mem' = mem
      BY <1>5 DEF Handler, open_looks, open_for_read, acquire_looks, acquire_local, read_version,
                  shared
    <2>2. HalfWritten(w)' <=> HalfWritten(w)
      BY <2>1 DEF HalfWritten
    <2>3. CASE Succeeds(p, x) /\ BlockOf(x) = b
      <3>1. version'[b] = make_owned(version[b])
        BY <1>1, <2>3 DEF Succeeds
      <3>2. then = now
        BY <1>1, <3>1, Versions
      <3> QED
        BY <1>1, <2>1, <2>2, <3>2
    <2>4. CASE ~(Succeeds(p, x) /\ BlockOf(x) = b)
      <3>1. version'[b] = version[b]
        BY <1>1, <1>5, <2>4, OwnersHandler DEF Succeeds
      <3> QED
        BY <1>3, <2>1, <2>2, <3>1
    <2> QED
      BY <2>3, <2>4
  <1>6. ASSUME NEW m \in BagToSet(net), Deliver(m) PROVE Goal
    <2>1. m \in Message /\ m.word \in Word
      BY DEF Inv, Typed, Message
    <2>2. CASE commit_value(m)
      <3> DEFINE x == [m EXCEPT !.at = "stored"]
      <3>1. /\ x.word = m.word /\ x.at = "stored" /\ x.type = "WRITE" /\ m.at = "sent"
        BY <2>1, <2>2 DEF commit_value, Message
      <3>2. Becomes(m, x) /\ version' = version /\ mem' = [mem EXCEPT ![m.word] = m.val]
        BY <2>2 DEF commit_value
      <3> HIDE DEF x
      <3>3. x \in BagToSet(net') /\ \A y \in BagToSet(net) \ {m, x} : y \in BagToSet(net')
        BY <1>1, <3>2, BecomesSwap
      <3>4. HalfWritten(w) => HalfWritten(w)'
        BY <3>1, <3>3 DEF HalfWritten
      <3>5. m.word = w => HalfWritten(w)'
        BY <3>1, <3>3 DEF HalfWritten
      <3> QED
        BY <1>1, <1>3, <2>1, <3>2, <3>4, <3>5
    <2>3. CASE version_looks(m)
      <3> DEFINE x == [m EXCEPT !.at = "seen", !.seen = version[BlockOf(m.word)]]
      <3>1. x.word = m.word /\ x.type = m.type /\ x.at = "seen"
        BY <2>1 DEF Message
      <3>2. Becomes(m, x) /\ version' = version /\ mem' = mem
        BY <2>3 DEF version_looks, shared
      <3> HIDE DEF x
      <3>3. x \in BagToSet(net') /\ \A y \in BagToSet(net) \ {m, x} : y \in BagToSet(net')
        BY <1>1, <3>2, BecomesSwap
      <3>4. HalfWritten(w) => HalfWritten(w)'
        BY <3>1, <3>3 DEF HalfWritten
      <3> QED
        BY <1>3, <3>2, <3>4
    <2>4. CASE version_set(m) /\ BlockOf(m.word) = b
      <3>1. m.seen = version[b] /\ Departing(b) = {m}
        BY <1>1, <2>4 DEF OwnersOK, Departing, version_set
      <3>2. CASE m.type = "WRITE"
        <4>1. version'[b] = NextVersion(version[b])
          BY <1>1, <2>4, <3>1, <3>2 DEF version_set
        <4>2. now < then
          BY <1>1, <1>2, <4>1, Versions
        <4> QED
          BY <1>1, <1>2, <4>2
      <3>3. CASE m.type # "WRITE"
        <4>1. version'[b] = make_unowned(version[b]) /\ mem' = mem
          BY <1>1, <2>4, <3>1, <3>3 DEF version_set
        <4>2. then = now
          BY <1>1, <4>1, Versions
        <4>3. ~HalfWritten(w)
          BY <3>1, <3>3 DEF HalfWritten, Departing
        <4> QED
          BY <1>1, <4>1, <4>2, <4>3
      <3> QED
        BY <3>2, <3>3
    <2>5. CASE version_set(m) /\ BlockOf(m.word) # b
      <3>1. version'[b] = version[b] /\ mem' = mem /\ net' = net (-) SetToBag({m})
        BY <1>1, <2>5 DEF version_set
      <3>2. \A y \in BagToSet(net) \ {m} : y \in BagToSet(net')
        BY <1>1, <3>1, BagTake
      <3>3. HalfWritten(w) => HalfWritten(w)'
        BY <2>5, <3>2 DEF HalfWritten
      <3> QED
        BY <1>3, <3>1, <3>3
    <2> QED
      BY <1>6, <2>2, <2>3, <2>4, <2>5 DEF Deliver
  <1> HIDE DEF Goal
  <1>7. Goal
    BY <1>4, <1>5, <1>6 DEF Next
  <1> QED
    BY <1>7 DEF Goal

(* A version that was not owned is at most the block's, and names what it  *)
(* was opened with for as long as it is the block's and no write of the    *)
(* word is half done.                                                      *)
VersionOK(p, w) ==
  LET e == cache[p][w]
      now == make_unowned(version[BlockOf(w)]) IN
  e.read /\ e.state # "open" /\ ~is_owned(e.version) =>
    /\ e.version <= now
    /\ e.version = now /\ e.state # "open_value" /\ ~HalfWritten(w) =>
         /\ ~e.written => e.value = mem[w]
         /\ rset[p][w] \in {NoVal, mem[w]}

VersionInv == \A p \in Proc, w \in Word : BlockOf(w) \notin overtaken => VersionOK(p, w)

LEMMA VersionNext ==
  ASSUME Inv, OwnersInv, VersionInv, [Next]_vars PROVE VersionInv'
  <1>1. CASE UNCHANGED vars
    BY <1>1 DEF vars, shared, ghosts, VersionInv, VersionOK, HalfWritten
  <1>2. CASE Next
    <2> SUFFICES ASSUME NEW p \in Proc, NEW w \in Word, BlockOf(w) \notin overtaken'
                 PROVE  VersionOK(p, w)'
      BY DEF VersionInv
    <2> DEFINE e == cache[p][w]
               f == cache'[p][w]
               now == make_unowned(version[BlockOf(w)])
               then == make_unowned(version'[BlockOf(w)])
    <2>1. /\ e \in Entry /\ version[BlockOf(w)] \in Nat /\ version'[BlockOf(w)] \in Nat
          /\ now \in Nat /\ then \in Nat /\ mem[w] \in Value
          /\ cache \in [Proc -> [Word -> Entry]] /\ cache' \in [Proc -> [Word -> Entry]]
      BY <1>2, TypedNext, BlockTyped, Versions DEF Inv, Typed
    <2>2. e.version \in Nat
      BY <2>1 DEF Entry
    <2>3. /\ now <= then
          /\ HalfWritten(w)' \/ now < then \/ (mem'[w] = mem[w] /\ ~HalfWritten(w))
      BY <1>2, VersionGrows
    <2>4. VersionOK(p, w)
      BY <1>2, OvertakenGrows DEF VersionInv
    <2>5. CASE Keeps(p, w)
      <3> SUFFICES ASSUME f.read, f.state # "open", ~is_owned(f.version)
                   PROVE  /\ f.version <= then
                          /\ f.version = then /\ f.state # "open_value" /\ ~HalfWritten(w)' =>
                               /\ ~f.written => f.value = mem'[w]
                               /\ rset'[p][w] \in {NoVal, mem'[w]}
        BY DEF VersionOK
      <3>1. /\ e.read /\ e.state # "open" /\ f.version = e.version
            /\ f.state = "open_value" <=> e.state = "open_value"
            /\ ~f.written => ~e.written /\ f.value = e.value
            /\ rset'[p][w] = rset[p][w] \/ (~e.written /\ rset'[p][w] = e.value)
        BY <2>5 DEF Keeps
      <3>2. /\ e.version <= now
            /\ e.version = now /\ e.state # "open_value" /\ ~HalfWritten(w) =>
                 /\ ~e.written => e.value = mem[w]
                 /\ rset[p][w] \in {NoVal, mem[w]}
        BY <2>4, <3>1 DEF VersionOK
      <3> HIDE DEF e, f, now, then
      <3>3. /\ f.version \in Nat /\ now \in Nat /\ then \in Nat
            /\ f.version <= now /\ now <= then
        BY <2>1, <2>2, <2>3, <3>1, <3>2
      <3>4. /\ f.version <= then
            /\ f.version = then => f.version = now /\ ~(now < then)
        BY <3>3
      <3>5. ASSUME f.version = then, f.state # "open_value", ~HalfWritten(w)'
            PROVE  /\ ~f.written => f.value = mem'[w]
                   /\ rset'[p][w] \in {NoVal, mem'[w]}
        BY <2>3, <3>1, <3>2, <3>4, <3>5
      <3> QED
        BY <3>4, <3>5
    <2>6. CASE open_looks(p, w)
      <3>1. f = Versioned(p, w) /\ version' = version
        BY <2>6, HandlerSets DEF Inv, SetsEntry, open_looks, shared
      <3>2. f.version = version[BlockOf(w)] /\ f.state = "open_value"
        BY <2>1, <3>1 DEF Versioned, Entry
      <3>3. ~is_owned(version[BlockOf(w)]) => now = version[BlockOf(w)]
        BY <2>1, Versions
      <3> QED
        BY <2>1, <3>1, <3>2, <3>3 DEF VersionOK
    <2>7. CASE open_for_read(p, w)
      <3>1. /\ f = Opened(p, w) /\ mem' = mem /\ version' = version /\ rset' = rset
            /\ e.state = "open_value"
        BY <2>7, HandlerSets DEF Inv, SetsEntry, open_for_read, shared, ghosts
      <3>2. f.version = e.version /\ f.value = mem[w] /\ f.read = e.read
        BY <2>1, <3>1 DEF Opened, Entry
      <3>3. rset[p][w] = NoVal
        BY <3>1 DEF Inv, EntriesInv, EntriesOK, EntryOK
      <3> QED
        BY <2>1, <2>4, <3>1, <3>2, <3>3 DEF VersionOK
    <2> QED
      BY <1>2, <2>5, <2>6, <2>7, KeepsNext
  <1> QED
    BY <1>1, <1>2

LEMMA VersionInvariant == ASSUME OneWordBlocks PROVE Spec => []VersionInv
  <1>1. Init => VersionInv
    BY InitHolds DEF Init, NoEntry, VersionInv, VersionOK
  <1> QED
    BY <1>1, VersionNext, Invariant, OwnersInvariant, PTL DEF Spec

(* Although an open reads the version and then the word, and a write       *)
(* stores the word and then the version, with another thread in between:   *)
(* a version that no acquire has set back names one value of the word.     *)
THEOREM VersionsNameValues == ASSUME OneWordBlocks PROVE Spec => []VersionNamesValue
  <1>1. Inv /\ VersionInv => VersionNamesValue
    <2> SUFFICES ASSUME Inv, VersionInv, NEW p \in Proc, NEW w \in Word,
                        cache[p][w].read, cache[p][w].state \notin {"open", "open_value"},
                        cache[p][w].version = make_unowned(version[BlockOf(w)]),
                        BlockOf(w) \notin overtaken, ~HalfWritten(w)
                 PROVE  /\ ~cache[p][w].written => cache[p][w].value = mem[w]
                        /\ rset[p][w] \in {NoVal, mem[w]}
      BY DEF VersionNamesValue
    <2>1. VersionOK(p, w) /\ version[BlockOf(w)] \in Nat
      BY BlockTyped DEF VersionInv, Inv, Typed
    <2>2. ~is_owned(cache[p][w].version)
      BY <2>1, Versions
    <2> QED
      BY <2>1, <2>2 DEF VersionOK
  <1> QED
    BY <1>1, Invariant, VersionInvariant, PTL

-----------------------------------------------------------------------------
(* What a commit that writes a word has validated.                         *)

(* The version of a block does not change under the one who owns it.       *)
LEMMA OwnedStable ==
  ASSUME Inv, OwnersInv, Next, NEW p \in Proc, NEW w \in Word, Has(p, w),
         BlockOf(w) \notin overtaken'
  PROVE  version'[BlockOf(w)] = version[BlockOf(w)]
  <1>1. /\ BlockOf(w) \in Block \ overtaken /\ HasBlock(p, BlockOf(w))
        /\ version \in [Block -> Nat]
    BY BlockTyped, OvertakenGrows DEF HasBlock, Inv, Typed
  <1>2. is_owned(version[BlockOf(w)]) /\ Departing(BlockOf(w)) = {}
    BY <1>1 DEF OwnersInv, OwnersOK
  <1>3. ASSUME NEW q \in Proc, NEW x \in Word, Succeeds(q, x)
        PROVE  version'[BlockOf(w)] = version[BlockOf(w)]
    <2>1. BlockOf(x) # BlockOf(w)
      BY <1>2, <1>3 DEF Succeeds
    <2> QED
      BY <1>1, <1>3, <2>1 DEF Succeeds
  <1>4. ASSUME NEW m \in BagToSet(net), Deliver(m)
        PROVE  version'[BlockOf(w)] = version[BlockOf(w)]
    <2>1. BlockOf(m.word) # BlockOf(w)
      BY <1>2 DEF Departing
    <2> QED
      BY <1>1, <1>4, <2>1 DEF Deliver, commit_value, version_looks, version_set, shared
  <1> QED
    BY <1>3, <1>4, SharedStep DEF shared

(* p's commit has asked for the version of w, which it has acquired.       *)
HasChecked(p, w) ==
  /\ pc[p] = "validate" /\ w \in read_list[p] \ todo[p]
  /\ w \in acquired_list[p] /\ cache[p][w].state = "DONE"

CheckedInv ==
  \A p \in Proc, w \in Word :
    HasChecked(p, w) /\ BlockOf(w) \notin overtaken
      => cache[p][w].new_version = version[BlockOf(w)]

LEMMA CheckedStep ==
  ASSUME Inv, NEW p \in Proc, StepOf(p), NEW w \in Word, HasChecked(p, w)'
  PROVE  \/ read_version(p, w)
         \/ HasChecked(p, w) /\ cache'[p][w].new_version = cache[p][w].new_version
  <1>1. /\ pc \in [Proc -> PC] /\ cache \in [Proc -> [Word -> Entry]]
        /\ todo \in [Proc -> SUBSET Word] /\ cache[p][w] \in Entry /\ EntryOK(p, w)
    BY DEF Inv, Typed, EntriesInv, EntriesOK
  <1>2. ASSUME NEW x \in Word, Handler(p, x)
        PROVE  \/ read_version(p, w)
               \/ HasChecked(p, w) /\ cache'[p][w].new_version = cache[p][w].new_version
    <2>1. UNCHANGED <<pc, read_list, acquired_list, todo>>
      BY <1>2 DEF Handler, open_looks, open_for_read, acquire_looks, acquire_local,
         read_version, lists
    <2>2. CASE x # w
      <3>1. \E e : SetsEntry(p, x, e)
        BY <1>2, HandlerSets DEF Handler, Inv
      <3>2. cache'[p][w] = cache[p][w]
        BY <2>2, <3>1 DEF SetsEntry
      <3> QED
        BY <2>1, <3>2 DEF HasChecked
    <2>3. CASE x = w /\ (open_looks(p, w) \/ open_for_read(p, w))
      <3>1. w \in acquired_list[p] /\ cache[p][w].state \in {"open", "open_value"}
        BY <2>1, <2>3 DEF HasChecked, open_looks, open_for_read
      <3> QED
        BY <1>1, <3>1 DEF EntryOK
    <2>4. CASE x = w /\ acquire_looks(p, w)
      <3>1. cache'[p][w] = Looked(p, w)
        BY <2>4, HandlerSets DEF Inv, SetsEntry
      <3> QED
        BY <1>1, <3>1 DEF Looked, Entry, HasChecked
    <2>5. CASE x = w /\ acquire_local(p, w)
      <3>1. pc[p] = "validate" /\ cache[p][w].state = "acquire_set"
        BY <2>1, <2>5 DEF HasChecked, acquire_local
      <3> QED
        BY <1>1, <3>1 DEF EntryOK
    <2> QED
      BY <1>2, <2>2, <2>3, <2>4, <2>5 DEF Handler
  <1>3. ~ClientStep(p)
    <2> SUFFICES ASSUME ClientStep(p) PROVE FALSE
      OBVIOUS
    <2>1. pc'[p] = "validate"
      BY DEF HasChecked
    <2> QED
      BY <1>1, <2>1 DEF ClientStep, stm_start, stm_commit, stm_open_for_read, stm_read, stm_write,
                        Running
  <1>4. CASE acquired(p)
    <2>1. pc'[p] = "validate" /\ w \in read_list'[p] /\ w \notin todo'[p]
      BY DEF HasChecked
    <2> QED
      BY <1>1, <1>4, <2>1 DEF acquired
  <1>5. ASSUME NEW x \in Word, ask_version(p, x)
        PROVE  HasChecked(p, w) /\ cache'[p][w].new_version = cache[p][w].new_version
    <2>1. SetsEntry(p, x, Asking(p, x))
      BY <1>5, ClientSets DEF Inv
    <2>2. CASE x = w
      <3>1. cache'[p][w] = Asking(p, w)
        BY <2>1, <2>2 DEF SetsEntry
      <3> QED
        BY <1>1, <3>1 DEF Asking, Entry, HasChecked
    <2>3. CASE x # w
      <3>1. cache'[p][w] = cache[p][w]
        BY <2>1, <2>3 DEF SetsEntry
      <3>2. /\ UNCHANGED <<pc, read_list, acquired_list>> /\ todo'[p] = todo[p] \ {x}
        BY <1>1, <1>5 DEF ask_version
      <3> QED
        BY <2>3, <3>1, <3>2 DEF HasChecked
    <2> QED
      BY <2>2, <2>3
  <1>6. pc'[p] = "validate"
    BY DEF HasChecked
  <1>7. CASE validated(p)
    BY <1>1, <1>6, <1>7 DEF validated, Forget
  <1>8. CASE stm_abort(p)
    BY <1>1, <1>6, <1>8 DEF stm_abort, Forget
  <1>9. CASE stm_cleanup(p)
    BY <1>1, <1>6, <1>9 DEF stm_cleanup
  <1> QED
    BY <1>2, <1>3, <1>4, <1>5, <1>7, <1>8, <1>9 DEF StepOf, StmStep

LEMMA CheckedNext ==
  ASSUME Inv, OwnersInv, CheckedInv, [Next]_vars PROVE CheckedInv'
  <1>1. CASE UNCHANGED vars
    BY <1>1 DEF vars, shared, lists, CheckedInv, HasChecked
  <1>2. ASSUME Next, NEW p \in Proc, NEW w \in Word, HasChecked(p, w)',
               BlockOf(w) \notin overtaken'
        PROVE  cache'[p][w].new_version = version'[BlockOf(w)]
    <2>1. CASE read_version(p, w)
      <3>1. cache'[p][w] = Checked(p, w) /\ version' = version
        BY <2>1, HandlerSets DEF Inv, SetsEntry, read_version, shared
      <3>2. cache[p][w] \in Entry
        BY DEF Inv, Typed
      <3> QED
        BY <3>1, <3>2 DEF Checked, Entry
    <2>2. CASE HasChecked(p, w) /\ cache'[p][w].new_version = cache[p][w].new_version
      <3>1. Has(p, w)
        BY <2>2 DEF HasChecked, Has, Committing, Inv, EntriesInv, EntriesOK, EntryOK
      <3>2. version'[BlockOf(w)] = version[BlockOf(w)]
        BY <1>2, <3>1, OwnedStable
      <3> QED
        BY <1>2, <2>2, <3>2, OvertakenGrows DEF CheckedInv
    <2>3. SameFor(p) \/ StepOf(p)
      BY <1>2, OthersSame, DeliverSame DEF Next, StepOf, Inv
    <2>4. CASE SameFor(p)
      BY <1>2, <2>2, <2>4 DEF SameFor, HasChecked
    <2> QED
      BY <1>2, <2>1, <2>2, <2>3, <2>4, CheckedStep
  <1> QED
    BY <1>1, <1>2 DEF CheckedInv

(* A transaction that commits a write of a word it has read before has     *)
(* read the value that the word has: no update is lost but by an acquire   *)
(* that was overtaken on the word's block.                                 *)
NoLostUpdate ==
  [][\A p \in Proc, w \in Word :
       /\ pc[p] = "validate" /\ pc'[p] = "cleanup"
       /\ cache[p][w].written /\ rset[p][w] # NoVal /\ BlockOf(w) \notin overtaken
       => rset[p][w] = mem[w]]_vars

THEOREM OldStmLosesNoUpdate ==
  ASSUME OneWordBlocks PROVE Spec => NoLostUpdate
  <1> DEFINE Reads(p, w) ==
        /\ pc[p] = "validate" /\ pc'[p] = "cleanup"
        /\ cache[p][w].written /\ rset[p][w] # NoVal /\ BlockOf(w) \notin overtaken
        => rset[p][w] = mem[w]
  <1>1. Inv /\ OwnersInv /\ VersionInv /\ CheckedInv /\ [Next]_vars
        => \A p \in Proc, w \in Word : Reads(p, w)
    <2> SUFFICES ASSUME Inv, OwnersInv, VersionInv, CheckedInv, [Next]_vars, NEW p \in Proc,
                        NEW w \in Word, pc[p] = "validate", pc'[p] = "cleanup",
                        cache[p][w].written, rset[p][w] # NoVal, BlockOf(w) \notin overtaken
                 PROVE  rset[p][w] = mem[w]
      OBVIOUS
    <2>1. /\ pc \in [Proc -> PC] /\ EntryOK(p, w) /\ AcquiresOK(p)
          /\ cache[p][w] \in Entry
          /\ read_list[p] \subseteq Word /\ acquired_list[p] \subseteq Word
      BY DEF Inv, Typed, EntriesInv, EntriesOK
    <2>2. validated(p) /\ Forget(p)
      <3>1. StepOf(p)
        <4>1. ~SameFor(p) /\ Next
          BY DEF SameFor, vars
        <4> QED
          BY <4>1, OthersSame, DeliverSame DEF Next, StepOf, Inv
      <3>2. ASSUME NEW x \in Word PROVE ~Handler(p, x) /\ ~ask_version(p, x)
        BY <2>1 DEF Handler, open_looks, open_for_read, acquire_looks, acquire_local,
         read_version, ask_version
      <3>3. ~ClientStep(p)
        BY <2>1 DEF ClientStep, stm_start, stm_commit, stm_open_for_read, stm_read, stm_write, Running
      <3>4. ~acquired(p) /\ ~stm_abort(p) /\ ~stm_cleanup(p)
        BY <2>1 DEF acquired, stm_abort, stm_cleanup
      <3>5. validated(p)
        BY <3>1, <3>2, <3>3, <3>4 DEF StepOf, StmStep
      <3> QED
        BY <2>1, <3>5 DEF validated
    <2>3. w \in read_list[p] /\ w \in acquired_list[p]
      BY <2>1 DEF EntryOK, AcquiresOK, OneWordBlocks
    <2>4. cache[p][w].state = "DONE" /\ ~Inconsistent(p, w) /\ todo[p] = {}
      BY <2>1, <2>2, <2>3 DEF validated, Forget
    <2>5. cache[p][w].new_version = version[BlockOf(w)]
      BY <2>3, <2>4 DEF CheckedInv, HasChecked
    <2>6. cache[p][w].version = make_unowned(version[BlockOf(w)])
      BY <2>4, <2>5 DEF Inconsistent
    <2>7. ~is_owned(cache[p][w].version)
      <3>1. version[BlockOf(w)] \in Nat
        BY BlockTyped DEF Inv, Typed
      <3> QED
        BY <2>6, <3>1, Versions
    <2>8. cache[p][w].read
      BY <2>1 DEF EntryOK
    <2>9. ~HalfWritten(w)
      <3>1. HasBlock(p, BlockOf(w)) /\ BlockOf(w) \in Block \ overtaken
        BY <2>1, <2>3, <2>4, BlockTyped DEF HasBlock, Has, Committing, EntryOK
      <3>2. Departing(BlockOf(w)) = {}
        BY <3>1 DEF OwnersInv, OwnersOK
      <3> QED
        BY <3>2 DEF Departing, HalfWritten
    <2> QED
      BY <2>4, <2>6, <2>7, <2>8, <2>9 DEF VersionInv, VersionOK
  <1>2. Init => CheckedInv
    BY DEF Init, CheckedInv, HasChecked
  <1>3. Inv /\ OwnersInv /\ CheckedInv /\ [Next]_vars => CheckedInv'
    BY CheckedNext
  <1> HIDE DEF Reads
  <1>4. Spec => []CheckedInv
    BY <1>2, <1>3, Invariant, OwnersInvariant, PTL DEF Spec
  <1>5. Spec => [][\A p \in Proc, w \in Word : Reads(p, w)]_vars
    BY <1>1, <1>4, Invariant, OwnersInvariant, VersionInvariant, PTL DEF Spec
  <1> QED
    BY <1>5 DEF Reads, NoLostUpdate

-----------------------------------------------------------------------------
(* Strict serializability.  A transaction takes effect, if it commits,     *)
(* when its last acquire is answered: it has then all the blocks it        *)
(* writes, and has still to look at the versions of those it has read.     *)
(* The proof carries an order of these points along: r[a] is that of the   *)
(* a-th transaction of history, t[p] that of the commit p validates, and   *)
(* all are below top.  They exist as long as no acquire has been overtaken *)
(* (OrderInv); history sorted by r is the serial order that the property   *)
(* asks for.                                                               *)

(* What a commit of p appends to history ...                               *)
Record(p) == [reads |-> rset[p], began |-> began[p],
              writes |-> [w \in Word |-> IF w \in Written(p) THEN cache[p][w].value ELSE NoVal]]

(* ... in validated(p), when it passes.                                     *)
Commits(p) ==
  /\ pc[p] = "validate" /\ todo[p] = {}
  /\ \A w \in read_list[p] : cache[p][w].state = "DONE" /\ ~Inconsistent(p, w)
  /\ Forget(p) /\ net' = net (+) SetToBag(Writes(p)) /\ UNCHANGED shared
  /\ history' = Append(history, Record(p))

(* Types of history and began.                                             *)
Transaction == [reads : [Word -> Value \cup {NoVal}], writes : [Word -> Value \cup {NoVal}],
                began : Nat]

HistoryOK ==
  /\ history \in Seq(Transaction) /\ began \in [Proc -> Nat]
  /\ \A p \in Proc : began[p] <= Len(history)
  /\ \A a \in 1 .. Len(history) : history[a].began <= Len(history)

(* Only a commit appends to history, and only starts and ends set began.   *)
LEMMA HistoryStep ==
  ASSUME Next
  PROVE  \/ history' = history
         \/ \E p \in Proc : Commits(p)
  <1>1. ASSUME NEW p \in Proc, ClientStep(p) PROVE history' = history
    BY <1>1 DEF ClientStep, stm_start, stm_commit, stm_open_for_read, stm_read, stm_write, ghosts
  <1>2. ASSUME NEW p \in Proc, StmStep(p) PROVE history' = history \/ Commits(p)
    <2>1. CASE validated(p)
      BY <2>1 DEF validated, Commits, Record, ghosts
    <2> QED
      BY <1>2, <2>1 DEF StmStep, acquired, ask_version, stm_abort, stm_cleanup, ghosts
  <1>3. ASSUME NEW p \in Proc, NEW w \in Word, Handler(p, w) PROVE history' = history
    BY <1>3 DEF Handler, open_looks, open_for_read, acquire_looks, acquire_local,
         read_version, ghosts
  <1>4. ASSUME NEW m \in BagToSet(net), Deliver(m) PROVE history' = history
    BY <1>4 DEF Deliver, commit_value, version_looks, version_set, ghosts
  <1> QED
    BY <1>1, <1>2, <1>3, <1>4 DEF Next

LEMMA BeganStep ==
  ASSUME Typed, HistoryOK, Next
  PROVE  /\ began' \in [Proc -> Nat]
         /\ \A q \in Proc : /\ began'[q] \in {began[q], 0, Len(history)}
                            /\ pc'[q] = "validate" => began'[q] = began[q]
  <1> DEFINE Good == /\ began' \in [Proc -> Nat]
                     /\ \A q \in Proc : /\ began'[q] \in {began[q], 0, Len(history)}
                                        /\ pc'[q] = "validate" => began'[q] = began[q]
  <1> USE DEF ghosts, HistoryOK
  <1>1. CASE began' = began
    BY <1>1
  <1>2. ASSUME NEW p \in Proc, Forget(p) PROVE Good
    BY <1>2 DEF Forget, Typed
  <1>3. ASSUME NEW p \in Proc, stm_start(p) PROVE Good
    <2>1. Len(history) \in Nat
      OBVIOUS
    <2> QED
      BY <1>3, <2>1 DEF stm_start, Typed
  <1>4. ASSUME NEW p \in Proc, ClientStep(p) PROVE Good
    BY <1>1, <1>3, <1>4 DEF ClientStep, stm_commit, stm_open_for_read, stm_read, stm_write
  <1>5. ASSUME NEW p \in Proc, StmStep(p) PROVE Good
    BY <1>1, <1>2, <1>5 DEF StmStep, acquired, ask_version, validated, stm_abort, stm_cleanup
  <1>6. ASSUME NEW p \in Proc, NEW w \in Word, Handler(p, w) PROVE Good
    BY <1>1, <1>6 DEF Handler, open_looks, open_for_read, acquire_looks, acquire_local,
         read_version
  <1>7. ASSUME NEW m \in BagToSet(net), Deliver(m) PROVE Good
    BY <1>1, <1>7 DEF Deliver, commit_value, version_looks, version_set
  <1> HIDE DEF Good
  <1>8. Good
    BY <1>4, <1>5, <1>6, <1>7 DEF Next
  <1> QED
    BY <1>8 DEF Good

LEMMA RecordTyped ==
  ASSUME Typed, HistoryOK, NEW p \in Proc PROVE Record(p) \in Transaction
  <1>1. \A w \in Word : cache[p][w].value \in Value \cup {NoVal}
    BY DEF Typed, Entry
  <1> QED
    BY <1>1 DEF Record, Transaction, HistoryOK, Typed

LEMMA HistoryNext ==
  ASSUME Typed, HistoryOK, [Next]_vars PROVE HistoryOK'
  <1>1. CASE UNCHANGED vars
    BY <1>1 DEF vars, ghosts, HistoryOK
  <1>2. CASE Next
    <2>1. /\ began' \in [Proc -> Nat]
          /\ \A q \in Proc : began'[q] \in {began[q], 0, Len(history)}
      BY <1>2, BeganStep
    <2>2. /\ history' \in Seq(Transaction) /\ Len(history') \in Nat /\ Len(history) \in Nat
          /\ Len(history) <= Len(history')
      <3>1. CASE history' = history
        BY <3>1 DEF HistoryOK
      <3>2. ASSUME NEW p \in Proc, Commits(p)
            PROVE  history' \in Seq(Transaction) /\ Len(history') = Len(history) + 1
        BY <3>2, RecordTyped DEF Commits, HistoryOK
      <3> QED
        BY <1>2, <3>1, <3>2, HistoryStep DEF HistoryOK
    <2>3. ASSUME NEW p \in Proc PROVE began'[p] <= Len(history')
      BY <2>1, <2>2 DEF HistoryOK
    <2>4. ASSUME NEW a \in 1 .. Len(history') PROVE history'[a].began <= Len(history')
      <3>1. CASE history' = history
        BY <3>1 DEF HistoryOK
      <3>2. ASSUME NEW p \in Proc, Commits(p)
            PROVE  \/ a \in 1 .. Len(history) /\ history'[a] = history[a]
                   \/ history'[a].began = began[p]
        <4>1. history' = Append(history, Record(p)) /\ Record(p) \in Transaction
          BY <3>2, RecordTyped DEF Commits
        <4>2. Record(p).began = began[p]
          BY DEF Record
        <4> QED
          BY <4>1, <4>2 DEF HistoryOK
      <3> QED
        <4>1. \A b \in 1 .. Len(history) : history[b] \in Transaction
          BY DEF HistoryOK
        <4>2. \A b \in 1 .. Len(history) : history[b].began \in Nat
          BY <4>1 DEF Transaction
        <4> QED
          BY <1>2, <2>2, <3>1, <3>2, <4>2, HistoryStep DEF HistoryOK
    <2> QED
      BY <2>1, <2>2, <2>3, <2>4 DEF HistoryOK
  <1> QED
    BY <1>1, <1>2

-----------------------------------------------------------------------------
(* A transaction that validates, and the writes of those that have.        *)

Validating(p) == pc[p] = "validate"

(* p has read w; has the answer for it; writes of w have not been stored.  *)
Sees(p, w) == rset[p][w] # NoVal
Asked(p, w) == w \in read_list[p] \ todo[p] /\ cache[p][w].state = "DONE"
Pending(w) == { m \in BagToSet(net) : m.type = "WRITE" /\ m.at = "sent" /\ m.word = w }

(* What a step does to a commit that goes on validating.                   *)
Stays(p) ==
  /\ pc[p] = "validate" /\ pc'[p] = "validate"
  /\ read_list'[p] = read_list[p] /\ acquired_list'[p] = acquired_list[p]
  /\ rset'[p] = rset[p]
  /\ \A w \in Word :
       LET e == cache[p][w]
           f == cache'[p][w] IN
       /\ f.written = e.written
       /\ Sees(p, w) =>
            /\ f.version = e.version
            /\ \/ read_version(p, w)
               \/ (Asked(p, w)' <=> Asked(p, w)) /\ f.new_version = e.new_version

LEMMA StaysSame ==
  ASSUME NEW p \in Proc, SameFor(p), pc'[p] = "validate" PROVE Stays(p)
  BY DEF SameFor, Stays, Asked

LEMMA ValidateStep ==
  ASSUME Inv, Next, NEW p \in Proc, pc'[p] = "validate"
  PROVE  acquired(p) \/ Stays(p)
  <1>1. /\ pc \in [Proc -> PC] /\ cache \in [Proc -> [Word -> Entry]]
        /\ todo \in [Proc -> SUBSET Word]
        /\ \A w \in Word : cache[p][w] \in Entry /\ EntryOK(p, w)
    BY DEF Inv, Typed, EntriesInv, EntriesOK
  <1>2. ASSUME NEW x \in Word, Handler(p, x) PROVE Stays(p)
    <2>1. /\ UNCHANGED <<pc, read_list, acquired_list, todo, rset>>
      BY <1>2 DEF Handler, open_looks, open_for_read, acquire_looks, acquire_local,
         read_version,
         lists, ghosts
    <2>2. ASSUME NEW w \in Word, w # x PROVE cache'[p][w] = cache[p][w]
      <3>1. \E e : SetsEntry(p, x, e)
        BY <1>2, HandlerSets DEF Handler, Inv
      <3> QED
        BY <2>2, <3>1 DEF SetsEntry
    <2>7. CASE open_looks(p, x)
      <3>1. cache'[p][x] = Versioned(p, x) /\ cache[p][x].state = "open"
        BY <2>7, HandlerSets DEF Inv, SetsEntry, open_looks
      <3>2. Versioned(p, x).written = cache[p][x].written
        BY <1>1 DEF Versioned, Entry
      <3>3. ~Sees(p, x)
        BY <1>1, <3>1 DEF Sees, EntryOK
      <3> QED
        BY <2>1, <2>2, <3>1, <3>2, <3>3 DEF Stays, Asked
    <2>3. CASE open_for_read(p, x)
      <3>1. cache'[p][x] = Opened(p, x) /\ cache[p][x].state = "open_value"
        BY <2>3, HandlerSets DEF Inv, SetsEntry, open_for_read
      <3>2. Opened(p, x).written = cache[p][x].written
        BY <1>1 DEF Opened, Entry
      <3>3. ~Sees(p, x)
        BY <1>1, <3>1 DEF Sees, EntryOK
      <3> QED
        BY <2>1, <2>2, <3>1, <3>2, <3>3 DEF Stays, Asked
    <2>4. CASE acquire_looks(p, x)
      BY <1>1, <2>1, <2>4 DEF acquire_looks, EntryOK
    <2>5. CASE acquire_local(p, x)
      BY <1>1, <2>1, <2>5 DEF acquire_local, EntryOK
    <2>6. CASE read_version(p, x)
      <3>1. cache'[p][x] = Checked(p, x)
        BY <2>6, HandlerSets DEF Inv, SetsEntry
      <3>2. /\ Checked(p, x).written = cache[p][x].written
            /\ Checked(p, x).version = cache[p][x].version
        BY <1>1 DEF Checked, Entry
      <3> QED
        BY <2>1, <2>2, <2>6, <3>1, <3>2 DEF Stays, Asked
    <2> QED
      BY <1>2, <2>3, <2>4, <2>5, <2>6, <2>7 DEF Handler
  <1>3. ~ClientStep(p)
    <2> SUFFICES ASSUME ClientStep(p) PROVE FALSE
      OBVIOUS
    <2> QED
      BY <1>1 DEF ClientStep, stm_start, stm_commit, stm_open_for_read, stm_read,
         stm_write, Running, PC
  <1>4. ASSUME NEW x \in Word, ask_version(p, x) PROVE Stays(p)
    <2>1. SetsEntry(p, x, Asking(p, x))
      BY <1>4, ClientSets DEF Inv
    <2>2. /\ cache'[p][x] = Asking(p, x) /\ \A w \in Word \ {x} : cache'[p][w] = cache[p][w]
          /\ UNCHANGED <<pc, read_list, acquired_list, rset>> /\ todo'[p] = todo[p] \ {x}
          /\ x \in todo[p]
      BY <1>1, <1>4, <2>1 DEF SetsEntry, ask_version, ghosts
    <2>3. /\ Asking(p, x).written = cache[p][x].written
          /\ Asking(p, x).version = cache[p][x].version
          /\ Asking(p, x).new_version = cache[p][x].new_version
          /\ Asking(p, x).state = "version"
      BY <1>1 DEF Asking, Entry
    <2>4. pc[p] = "validate"
      BY <1>4 DEF ask_version
    <2> QED
      BY <2>2, <2>3, <2>4 DEF Stays, Asked
  <1>5. ASSUME Forget(p) PROVE FALSE
    BY <1>1, <1>5 DEF Forget
  <1>6. StmStep(p) => acquired(p) \/ Stays(p)
    BY <1>1, <1>4, <1>5 DEF StmStep, validated, stm_abort, stm_cleanup
  <1>7. SameFor(p) \/ StepOf(p)
    BY OthersSame, DeliverSame DEF Next, StepOf, Inv
  <1> QED
    BY <1>2, <1>3, <1>6, <1>7, StaysSame DEF StepOf

(* A validating commit has acquired what it writes.                        *)
LEMMA Validator ==
  ASSUME OneWordBlocks, Inv, NEW p \in Proc, pc[p] = "validate", NEW w \in Word
  PROVE  /\ w \in Written(p) => Has(p, w)
         /\ BlockOf(w) \in BlocksOf(acquired_list[p]) => Has(p, w)
  <1>1. /\ \A x \in Word : EntryOK(p, x)
        /\ AcquiresOK(p) /\ acquired_list[p] \subseteq Word
    BY DEF Inv, Typed, EntriesInv, EntriesOK
  <1>2. w \in Written(p) => w \in acquired_list[p]
    BY <1>1 DEF AcquiresOK, OneWordBlocks, Written
  <1>3. BlockOf(w) \in BlocksOf(acquired_list[p]) => w \in acquired_list[p]
    BY <1>1 DEF BlocksOf, OneWordBlocks
  <1> QED
    BY <1>1, <1>2, <1>3 DEF Has, Committing, EntryOK

LEMMA PendingCommit ==
  ASSUME OneWordBlocks, Inv, OwnersInv, overtaken = {}, NEW p \in Proc, Commits(p),
         NEW w \in Written(p)
  PROVE  \E m \in Message : m.val = cache[p][w].value /\ Pending(w)' = {m}
  <1>1. w \in Word /\ IsABag(net)
    BY DEF Written, Inv, Typed
  <1>2. Has(p, w)
    BY <1>1, Validator DEF Commits
  <1>3. Pending(w) = {}
    BY <1>1, <1>2, BlockTyped DEF OwnersInv, OwnersOK, Departing, HasBlock, Pending
  <1> DEFINE m == [type |-> "WRITE", proc |-> p, word |-> w, val |-> cache[p][w].value,
                   at |-> "sent", seen |-> 0]
  <1>4. /\ m \in Writes(p) /\ m.type = "WRITE" /\ m.at = "sent" /\ m.word = w
        /\ m.val = cache[p][w].value
    BY DEF Writes
  <1>5. m \in Message
    BY <1>4, MessagesTyped DEF Inv, EntriesInv
  <1> HIDE DEF m
  <1>6. { x \in Writes(p) : x.type = "WRITE" /\ x.at = "sent" /\ x.word = w } = {m}
    BY <1>4, WriteMessages
  <1>7. net' = net (+) SetToBag(Writes(p))
    BY DEF Commits
  <1>8. Pending(w)' = {m}
    BY <1>1, <1>3, <1>6, <1>7, BagAdd DEF Pending
  <1> QED
    BY <1>4, <1>5, <1>8

(* A commit that writes a word puts its write on the way, and the only one; *)
(* a write that is stored was the only one.                                 *)
LEMMA PendingStep ==
  ASSUME OneWordBlocks, Inv, OwnersInv, overtaken = {}, Next, NEW w \in Word
  PROVE  \/ Pending(w)' = Pending(w) /\ mem'[w] = mem[w]
         \/ \E p \in Proc, m \in Message :
              /\ Commits(p) /\ w \in Written(p)
              /\ m.val = cache[p][w].value /\ Pending(w)' = {m}
         \/ \E m \in Pending(w) : Pending(w)' = {} /\ mem'[w] = m.val /\ HalfWritten(w)'
  <1>1. /\ IsABag(net) /\ BagToSet(net) \subseteq Message
        /\ mem \in [Word -> Value] /\ version \in [Block -> Nat]
    BY DEF Inv, Typed
  <1>2. ASSUME NEW T, net' = net (+) SetToBag(T)
        PROVE  Pending(w)' = Pending(w) \cup { m \in T : m.type = "WRITE" /\ m.at = "sent" /\ m.word = w }
    BY <1>1, <1>2, BagAdd DEF Pending
  <1>3. CASE UNCHANGED <<net, mem>>
    BY <1>3 DEF Pending
  <1>4. ASSUME NEW p \in Proc, ClientStep(p) PROVE UNCHANGED <<net, mem>>
    BY <1>4 DEF ClientStep, stm_start, stm_commit, stm_open_for_read, stm_read, stm_write, shared
  <1>5. ASSUME NEW p \in Proc, NEW x \in Word, Handler(p, x) PROVE UNCHANGED <<net, mem>>
    BY <1>5 DEF Handler, open_looks, open_for_read, acquire_looks, acquire_local,
         read_version, shared
  <1>6. ASSUME NEW p \in Proc, stm_abort(p) PROVE Pending(w)' = Pending(w) /\ mem'[w] = mem[w]
    <2>1. { m \in Releases(p) : m.type = "WRITE" /\ m.at = "sent" /\ m.word = w } = {}
      BY DEF Releases
    <2>2. net' = net (+) SetToBag(Releases(p)) /\ mem' = mem
      BY <1>6 DEF stm_abort, shared
    <2> QED
      BY <1>2, <2>1, <2>2
  <1>7. ASSUME NEW p \in Proc, Commits(p), w \notin Written(p)
        PROVE  Pending(w)' = Pending(w) /\ mem'[w] = mem[w]
    <2>1. { m \in Writes(p) : m.type = "WRITE" /\ m.at = "sent" /\ m.word = w } = {}
      BY <1>7, WriteMessages
    <2>2. net' = net (+) SetToBag(Writes(p)) /\ mem' = mem
      BY <1>7 DEF Commits, shared
    <2> QED
      BY <1>2, <2>1, <2>2
  <1>8. ASSUME NEW p \in Proc, Commits(p), w \in Written(p)
        PROVE  \E m \in Message : m.val = cache[p][w].value /\ Pending(w)' = {m}
    BY <1>8, PendingCommit
  <1>9. ASSUME NEW p \in Proc, validated(p), net' # net PROVE Commits(p)
    BY <1>9 DEF validated, Commits, Record
  <1>10. ASSUME NEW p \in Proc, StmStep(p) PROVE UNCHANGED <<net, mem>> \/ stm_abort(p) \/ Commits(p)
    BY <1>9, <1>10 DEF StmStep, acquired, ask_version, validated, stm_cleanup, shared
  <1>11. ASSUME NEW m \in BagToSet(net), NEW x, Becomes(m, x), x.word = m.word,
                m \notin Pending(w), x \notin Pending(w), x.at # "sent"
         PROVE  Pending(w)' = Pending(w)
    <2>1. /\ BagToSet(net') \subseteq BagToSet(net) \cup {x}
          /\ \A y \in BagToSet(net) \ {m, x} : y \in BagToSet(net')
      BY <1>1, <1>11, BecomesSwap
    <2> QED
      BY <1>11, <2>1 DEF Pending
  <1>12. ASSUME NEW m \in BagToSet(net), commit_value(m)
         PROVE  \/ Pending(w)' = Pending(w) /\ mem'[w] = mem[w]
                \/ \E n \in Pending(w) : Pending(w)' = {} /\ mem'[w] = n.val /\ HalfWritten(w)'
    <2> DEFINE x == [m EXCEPT !.at = "stored"]
    <2>1. m \in Message /\ m.word \in Word
      BY <1>1 DEF Message
    <2>2. x.word = m.word /\ x.at = "stored" /\ x.type = "WRITE" /\ m.type = "WRITE" /\ m.at = "sent"
      BY <1>12, <2>1 DEF commit_value, Message
    <2>3. Becomes(m, x) /\ mem' = [mem EXCEPT ![m.word] = m.val]
      BY <1>12 DEF commit_value
    <2> HIDE DEF x
    <2>4. CASE m.word # w
      BY <1>1, <1>11, <2>1, <2>2, <2>3, <2>4 DEF Pending
    <2>5. CASE m.word = w
      <3>1. m \in Pending(w) /\ BlockOf(w) \in Block
        BY <2>2, <2>5, BlockTyped DEF Pending
      <3>2. Departing(BlockOf(w)) = {m} /\ net[m] = 1
        BY <2>5, <3>1 DEF OwnersInv, OwnersOK, Departing
      <3>3. /\ x \in BagToSet(net') /\ BagToSet(net') \subseteq BagToSet(net) \cup {x}
            /\ m \notin BagToSet(net')
        BY <1>1, <2>2, <2>3, <3>2, BecomesSwap
      <3>4. Pending(w)' = {}
        BY <2>2, <3>2, <3>3 DEF Departing, Pending
      <3>5. HalfWritten(w)'
        BY <2>2, <2>5, <3>3 DEF HalfWritten
      <3>6. mem'[w] = m.val
        BY <1>1, <2>3, <2>5
      <3> QED
        BY <3>1, <3>4, <3>5, <3>6
    <2> QED
      BY <2>4, <2>5
  <1>13. ASSUME NEW m \in BagToSet(net), version_looks(m)
         PROVE  Pending(w)' = Pending(w) /\ mem'[w] = mem[w]
    <2> DEFINE x == [m EXCEPT !.at = "seen", !.seen = version[BlockOf(m.word)]]
    <2>1. x.word = m.word /\ x.at = "seen" /\ m \notin Pending(w)
      BY <1>1, <1>13 DEF version_looks, Message, Pending
    <2>2. Becomes(m, x) /\ mem' = mem
      BY <1>13 DEF version_looks, shared
    <2> HIDE DEF x
    <2>3. x \notin Pending(w)
      BY <2>1 DEF Pending
    <2> QED
      BY <1>11, <2>1, <2>2, <2>3
  <1>14. ASSUME NEW m \in BagToSet(net), version_set(m)
         PROVE  Pending(w)' = Pending(w) /\ mem'[w] = mem[w]
    <2>1. net' = net (-) SetToBag({m}) /\ mem' = mem /\ m \notin Pending(w)
      BY <1>14 DEF version_set, Pending
    <2>2. BagToSet(net') \subseteq BagToSet(net) /\ \A x \in BagToSet(net) \ {m} : x \in BagToSet(net')
      BY <1>1, <2>1, BagTake
    <2> QED
      BY <2>1, <2>2 DEF Pending
  <1> QED
    BY <1>3, <1>4, <1>5, <1>6, <1>7, <1>8, <1>10, <1>12, <1>13, <1>14 DEF Next, Deliver

-----------------------------------------------------------------------------
(* The order of the points at which transactions take effect.              *)
Committed == 1 .. Len(history)
Writers(w) == { a \in Committed : history[a].writes[w] # NoVal }

(* v is what w has after those of its writers that r places below x.       *)
LastBefore(r, w, x, v) ==
  LET before == { a \in Writers(w) : r[a] < x } IN
  \/ before = {} /\ v = InitVal
  \/ \E a \in before : /\ \A b \in before : r[b] <= r[a]
                       /\ v = history[a].writes[w]

(* What p has learned of the version of w, or would now, lets it commit.    *)
Passes(p, w) ==
  IF Asked(p, w) THEN ~Inconsistent(p, w)
  ELSE /\ cache[p][w].version = make_unowned(version[BlockOf(w)])
       /\ Pending(w) = {} /\ ~HalfWritten(w)

(* No two transactions have one point.                                     *)
Ranks(r, t, top) ==
  /\ r \in [Committed -> Nat] /\ t \in [Proc -> Nat] /\ top \in Nat
  /\ \A a, b \in Committed : r[a] = r[b] => a = b
  /\ \A a \in Committed : r[a] < top
  /\ \A p \in Proc : Validating(p) =>
       /\ t[p] < top
       /\ \A a \in Committed : r[a] # t[p]
       /\ \A q \in Proc : Validating(q) /\ t[q] = t[p] => q = p

(* Each has read what the writers before it wrote ...                      *)
HasRead(r) ==
  \A a \in Committed, w \in Word :
    history[a].reads[w] # NoVal => LastBefore(r, w, r[a], history[a].reads[w])

(* ... and a word has what the last of all wrote, or will have when that  *)
(* is stored.                                                              *)
Latest(r, top) ==
  \A w \in Word :
    /\ Pending(w) = {} => LastBefore(r, w, top, mem[w])
    /\ \A m \in Pending(w) : LastBefore(r, w, top, m.val)

(* A validating writer comes after all who have read or written the word.  *)
After(r, t) ==
  \A p \in Proc, w \in Word, a \in Committed :
    /\ Validating(p) /\ w \in Written(p)
    /\ history[a].writes[w] # NoVal \/ history[a].reads[w] # NoVal
    => r[a] < t[p]

(* Who asks for a version with a writer before it sees that it is owned.   *)
SeesOwner(t) ==
  \A p, q \in Proc, w \in Word :
    Validating(p) /\ Validating(q) /\ p # q /\ Sees(p, w) /\ Asked(p, w)
    /\ w \in Written(q) /\ t[q] < t[p] => is_owned(cache[p][w].new_version)

(* A validating reader that passes has read what the writers before it     *)
(* wrote.                                                                  *)
WillHaveRead(r, t) ==
  \A p \in Proc, w \in Word :
    Validating(p) /\ Sees(p, w) /\ Passes(p, w) => LastBefore(r, w, t[p], rset[p][w])

(* A transaction comes after those that had committed when it began.       *)
Strict(r, t) ==
  /\ \A p \in Proc, a \in Committed : Validating(p) /\ a <= began[p] => r[a] < t[p]
  /\ \A a, b \in Committed : a <= history[b].began => r[a] < r[b]

Ordered(r, t, top) ==
  /\ Ranks(r, t, top) /\ HasRead(r) /\ Latest(r, top) /\ After(r, t)
  /\ SeesOwner(t) /\ WillHaveRead(r, t) /\ Strict(r, t)

OrderInv == HistoryOK /\ (overtaken = {} => \E r, t, top : Ordered(r, t, top))

LEMMA LastSame ==
  ASSUME HistoryOK, NEW r, r \in [Committed -> Nat], NEW w \in Word, NEW x \in Nat, NEW y \in Nat, NEW v,
         LastBefore(r, w, x, v), \A a \in Writers(w) : r[a] < x <=> r[a] < y
  PROVE  LastBefore(r, w, y, v)
  BY DEF LastBefore

LEMMA LastUnchanged ==
  ASSUME history' = history, NEW r, NEW w, NEW x, NEW v, LastBefore(r, w, x, v)
  PROVE  LastBefore(r, w, x, v)'
  BY DEF LastBefore, Writers, Committed

(* The order after the commit of p, and what it makes of the history.      *)
Extended(r, p, t) == [a \in 1 .. Len(history) + 1 |-> IF a = Len(history) + 1 THEN t[p] ELSE r[a]]

LEMMA HistoryCommit ==
  ASSUME Typed, HistoryOK, NEW p \in Proc, Commits(p),
         NEW r \in [Committed -> Nat], NEW t \in [Proc -> Nat],
         NEW s, s = Extended(r, p, t)
  PROVE  LET n == Len(history) IN
         /\ n \in Nat /\ Len(history') = n + 1
         /\ Committed' = Committed \cup {n + 1} /\ n + 1 \notin Committed
         /\ history'[n + 1] = Record(p)
         /\ \A a \in Committed : history'[a] = history[a] /\ s[a] = r[a]
         /\ s \in [Committed' -> Nat] /\ s[n + 1] = t[p]
         /\ \A w \in Word : Writers(w)' = Writers(w) \cup
               (IF w \in Written(p) /\ cache[p][w].value # NoVal THEN {n + 1} ELSE {})
  <1> DEFINE n == Len(history)
  <1>1. n \in Nat /\ history' = Append(history, Record(p)) /\ Record(p) \in Transaction
    BY RecordTyped DEF HistoryOK, Commits
  <1>2. /\ Len(history') = n + 1 /\ history'[n + 1] = Record(p)
        /\ \A a \in 1 .. n : history'[a] = history[a]
    BY <1>1 DEF HistoryOK
  <1>3. Committed' = Committed \cup {n + 1} /\ n + 1 \notin Committed
    BY <1>1, <1>2 DEF Committed
  <1>4. s \in [1 .. n + 1 -> Nat] /\ s[n + 1] = t[p] /\ \A a \in Committed : s[a] = r[a]
    BY <1>1 DEF Committed, Extended
  <1>5. ASSUME NEW w \in Word
        PROVE Writers(w)' = Writers(w) \cup
               (IF w \in Written(p) /\ cache[p][w].value # NoVal THEN {n + 1} ELSE {})
    <2>1. Record(p).writes[w] = IF w \in Written(p) THEN cache[p][w].value ELSE NoVal
      BY DEF Record
    <2>2. history'[n + 1].writes[w] # NoVal <=> w \in Written(p) /\ cache[p][w].value # NoVal
      BY <1>2, <2>1
    <2> QED
      BY <1>2, <1>3, <2>2 DEF Writers, Committed
  <1> QED
    BY <1>1, <1>2, <1>3, <1>4, <1>5 DEF Committed

LEMMA LastCommit ==
  ASSUME Typed, HistoryOK, NEW p \in Proc, Commits(p),
         NEW r \in [Committed -> Nat], NEW t \in [Proc -> Nat],
         NEW s, s = Extended(r, p, t),
         NEW w \in Word, NEW x \in Nat, NEW v, LastBefore(r, w, x, v),
         w \in Written(p) => x <= t[p]
  PROVE  LastBefore(s, w, x, v)'
  <1> DEFINE n == Len(history)
             old == { a \in Writers(w) : r[a] < x }
             new == { a \in Writers(w)' : s[a] < x }
  <1>1. /\ Writers(w) \subseteq Committed /\ n + 1 \notin Committed
        /\ \A a \in Committed : history'[a] = history[a] /\ s[a] = r[a]
        /\ Writers(w)' = Writers(w) \cup
               (IF w \in Written(p) /\ cache[p][w].value # NoVal THEN {n + 1} ELSE {})
        /\ s[n + 1] = t[p] /\ t[p] \in Nat
    BY HistoryCommit DEF Writers
  <1>2. ~(w \in Written(p) /\ t[p] < x)
    BY <1>1
  <1>3. new = old
    BY <1>1, <1>2
  <1>4. \A a \in old : history'[a].writes[w] = history[a].writes[w] /\ s[a] = r[a]
    BY <1>1
  <1>5. \/ new = {} /\ v = InitVal
        \/ \E a \in new : /\ \A b \in new : s[b] <= s[a]
                          /\ v = history'[a].writes[w]
    BY <1>3, <1>4 DEF LastBefore
  <1> QED
    BY <1>5 DEF LastBefore

(* A step is a commit, the last answer to an acquire, or neither.          *)
LEMMA StepKinds ==
  ASSUME Inv, Next
  PROVE  \/ \E p \in Proc : /\ Commits(p) /\ ~Validating(p)'
                            /\ \A q \in Proc : Validating(q)' => q # p /\ Stays(q)
         \/ /\ history' = history
            /\ \E p \in Proc : /\ acquired(p) /\ Validating(p)'
                               /\ \A q \in Proc \ {p} : Validating(q)' => Stays(q)
         \/ /\ history' = history
            /\ \A q \in Proc : Validating(q)' => Stays(q)
  <1>1. pc \in [Proc -> PC]
    BY DEF Inv, Typed
  <1>2. ASSUME NEW q \in Proc, Validating(q)' PROVE acquired(q) \/ Stays(q)
    BY <1>2, ValidateStep DEF Validating
  <1>3. ASSUME NEW p \in Proc, Commits(p)
        PROVE  ~Validating(p)' /\ \A q \in Proc : Validating(q)' => q # p /\ Stays(q)
    <2>1. pc' = [pc EXCEPT ![p] = "cleanup"]
      BY <1>3 DEF Commits, Forget
    <2>2. ASSUME NEW q \in Proc, acquired(q), Validating(q)' PROVE FALSE
      BY <1>1, <1>3, <2>1, <2>2 DEF acquired, Validating, Commits
    <2> QED
      BY <1>1, <1>2, <2>1, <2>2 DEF Validating
  <1>4. ASSUME NEW p \in Proc, acquired(p), Validating(p)'
        PROVE  history' = history /\ \A q \in Proc \ {p} : Validating(q)' => Stays(q)
    <2>1. ASSUME NEW q \in Proc \ {p}, acquired(q), Validating(q)' PROVE FALSE
      BY <1>1, <1>4, <2>1 DEF acquired, Validating
    <2> QED
      BY <1>2, <1>4, <2>1 DEF acquired, ghosts
  <1> QED
    BY <1>2, <1>3, <1>4, HistoryStep

(* A version that passes after a step passed before it, whoever commits.   *)
LEMMA PassesStep ==
  ASSUME OneWordBlocks, Inv, OwnersInv, VersionInv, overtaken = {}, overtaken' = {},
         Next,
         NEW p \in Proc, NEW w \in Word, Stays(p), Sees(p, w), Passes(p, w)'
  PROVE  /\ Passes(p, w)
         /\ \A q \in Proc : Commits(q) /\ w \in Written(q) => Asked(p, w)
  <1> DEFINE b == BlockOf(w)
  <1>1. /\ b \in Block /\ version[b] \in Nat /\ version'[b] \in Nat
        /\ cache[p][w] \in Entry /\ EntryOK(p, w) /\ pc[p] = "validate"
        /\ pc \in [Proc -> PC]
    <2>1. version' \in [Block -> Nat]
      BY TypedNext DEF Inv, Typed
    <2> QED
      BY <2>1, BlockTyped DEF Inv, Typed, EntriesInv, EntriesOK, Stays
  <1>2. cache[p][w].read /\ cache[p][w].state \notin {"open", "open_value"}
    BY <1>1 DEF EntryOK, Sees
  <1>3. cache'[p][w].version = cache[p][w].version /\ acquired_list'[p] = acquired_list[p]
    BY DEF Stays
  <1>4. ASSUME NEW v \in Nat, cache[p][w].version = make_unowned(v)
        PROVE  cache[p][w].version <= make_unowned(version[b])
    BY <1>1, <1>2, <1>4, Versions DEF VersionInv, VersionOK
  <1>5. make_unowned(version[b]) \in Nat /\ make_unowned(version'[b]) \in Nat
        /\ make_unowned(version[b]) <= make_unowned(version'[b])
    BY <1>1, Versions, VersionGrows
  <1>6. CASE read_version(p, w)
    <2>1. /\ cache'[p][w] = Checked(p, w) /\ UNCHANGED <<version, net, pc, todo, read_list>>
          /\ cache[p][w].state = "version"
      BY <1>6, HandlerSets DEF Inv, SetsEntry, read_version, shared, lists
    <2>2. cache'[p][w].new_version = version[b] /\ cache'[p][w].state = "DONE"
      BY <1>1, <2>1 DEF Checked, Entry
    <2>3. ~\E q \in Proc : Commits(q)
      BY <1>1, <2>1 DEF Commits, Forget
    <2>4. ~Asked(p, w)
      BY <2>1 DEF Asked
    <2>5. CASE ~(Asked(p, w)')
      BY <2>1, <2>3, <2>4, <2>5, <1>3 DEF Passes, Pending, HalfWritten
    <2>6. CASE Asked(p, w)'
      <3>1. ~(Inconsistent(p, w)')
        BY <2>6 DEF Passes
      <3>2. /\ make_unowned(version[b]) = cache[p][w].version
            /\ b \in BlocksOf(acquired_list[p]) \/ ~is_owned(version[b])
        BY <1>3, <2>2, <3>1 DEF Inconsistent, BlocksOf
      <3>3. Pending(w) = {} /\ ~HalfWritten(w)
        <4>1. b \in BlocksOf(acquired_list[p]) => HasBlock(p, b)
          BY <1>1, Validator DEF HasBlock
        <4>2. Pending(w) \subseteq Departing(b) /\ (HalfWritten(w) => Departing(b) # {})
          BY DEF Pending, Departing, HalfWritten
        <4> QED
          BY <1>1, <3>2, <4>1, <4>2 DEF OwnersInv, OwnersOK
      <3> QED
        BY <2>3, <2>4, <3>2, <3>3 DEF Passes
    <2> QED
      BY <2>5, <2>6
  <1>7. CASE (Asked(p, w)' <=> Asked(p, w)) /\ cache'[p][w].new_version = cache[p][w].new_version
    <2>1. CASE Asked(p, w)
      BY <1>3, <1>7, <2>1 DEF Passes, Inconsistent, BlocksOf
    <2>2. CASE ~Asked(p, w)
      <3>1. /\ cache[p][w].version = make_unowned(version'[b])
            /\ Pending(w)' = {} /\ ~(HalfWritten(w)')
        BY <1>3, <1>7, <2>2 DEF Passes
      <3>2. cache[p][w].version <= make_unowned(version[b])
        BY <1>1, <1>4, <3>1
      <3>3. cache[p][w].version = make_unowned(version[b])
        BY <1>5, <3>1, <3>2
      <3>4. ~(make_unowned(version[b]) < make_unowned(version'[b]))
        BY <1>5, <3>1, <3>3
      <3>5. Pending(w)' = Pending(w) /\ ~HalfWritten(w)
        BY <3>1, <3>4, PendingStep, VersionGrows
      <3>6. ASSUME NEW q \in Proc, Commits(q), w \in Written(q) PROVE FALSE
        <4>1. Writes(q) \subseteq BagToSet(net')
          <5>1. net' = net (+) SetToBag(Writes(q)) /\ IsABag(net)
            BY <3>6 DEF Commits, Inv, Typed
          <5> QED
            BY <5>1, BagAdd
        <4>2. PICK m \in Writes(q) : m.word = w
          BY <3>6, WriteMessages
        <4>3. m.type = "WRITE" /\ m.at = "sent"
          BY <4>2 DEF Writes
        <4> QED
          BY <3>1, <4>1, <4>2, <4>3 DEF Pending
      <3> QED
        BY <2>2, <3>1, <3>3, <3>5, <3>6 DEF Passes
    <2> QED
      BY <2>1, <2>2
  <1> QED
    BY <1>6, <1>7 DEF Stays

LEMMA SeesStep ==
  ASSUME OneWordBlocks, Inv, OwnersInv, overtaken = {}, Next,
         NEW p \in Proc, NEW q \in Proc, p # q, Stays(p), Stays(q), NEW w \in Word,
         Sees(p, w)', Asked(p, w)', w \in Written(q)'
  PROVE  \/ is_owned(cache'[p][w].new_version)
         \/ /\ Sees(p, w) /\ Asked(p, w) /\ w \in Written(q)
            /\ cache'[p][w].new_version = cache[p][w].new_version
  <1>1. Sees(p, w) /\ w \in Written(q) /\ pc[q] = "validate"
    BY DEF Stays, Sees, Written
  <1>2. CASE read_version(p, w)
    <2>1. cache'[p][w] = Checked(p, w)
      BY <1>2, HandlerSets DEF Inv, SetsEntry
    <2>2. cache'[p][w].new_version = version[BlockOf(w)]
      BY <2>1 DEF Checked, Inv, Typed, Entry
    <2>3. HasBlock(q, BlockOf(w))
      BY <1>1, Validator DEF HasBlock
    <2> QED
      BY <2>2, <2>3, BlockTyped DEF OwnersInv, OwnersOK
  <1> QED
    BY <1>1, <1>2 DEF Stays

(* One transaction at most has acquired a word, and a reader that has      *)
(* asked and passes has no writer of the word before it.                   *)
LEMMA OneWriter ==
  ASSUME OneWordBlocks, Inv, OwnersInv, overtaken = {}, NEW p \in Proc, NEW q \in Proc, NEW w \in Word,
         Has(p, w), Has(q, w)
  PROVE  p = q
  BY BlockTyped DEF OwnersInv, OwnersOK, HasBlock

LEMMA NoWriterBefore ==
  ASSUME OneWordBlocks, Inv, OwnersInv, overtaken = {}, NEW t, SeesOwner(t),
         NEW p \in Proc, NEW q \in Proc, NEW w \in Word, p # q,
         Validating(p), Validating(q), Sees(p, w), Asked(p, w), ~Inconsistent(p, w),
         w \in Written(q)
  PROVE  ~(t[q] < t[p])
  <1> SUFFICES ASSUME t[q] < t[p] PROVE FALSE
    OBVIOUS
  <1>1. is_owned(cache[p][w].new_version)
    BY DEF SeesOwner
  <1>2. Has(p, w) /\ Has(q, w)
    BY <1>1, Validator DEF Inconsistent, Validating
  <1> QED
    BY <1>2, OneWriter

(* The three kinds of steps.                                               *)
LEMMA LatestStep ==
  ASSUME OneWordBlocks, Inv, OwnersInv, VersionInv, overtaken = {}, overtaken' = {},
         Next, NEW w \in Word,
         NEW r, NEW top, Latest(r, top), ~\E p \in Proc : Commits(p) /\ w \in Written(p)
  PROVE  /\ Pending(w)' = {} => LastBefore(r, w, top, mem'[w])
         /\ \A m \in Pending(w)' : LastBefore(r, w, top, m.val)
  BY PendingStep DEF Latest

LEMMA OrderQuiet ==
  ASSUME OneWordBlocks, Inv, OwnersInv, VersionInv, overtaken = {}, overtaken' = {},
         HistoryOK, Next,
         NEW r, NEW t, NEW top, Ordered(r, t, top), history' = history,
         \A q \in Proc : Validating(q)' => Stays(q)
  PROVE  Ordered(r, t, top)'
  <1> USE DEF Ordered
  <1>1. /\ Committed' = Committed
        /\ \A q \in Proc : Validating(q)' => Validating(q) /\ began'[q] = began[q]
    BY BeganStep DEF Committed, Stays, Validating, Inv
  <1>2. ~\E p \in Proc : Commits(p)
    <2>1. history \in Seq(Transaction)
      BY DEF HistoryOK
    <2>2. ASSUME NEW p \in Proc PROVE Append(history, Record(p)) # history
      <3>1. Record(p) \in Transaction
        BY RecordTyped DEF Inv
      <3>2. Len(Append(history, Record(p))) = Len(history) + 1 /\ Len(history) \in Nat
        BY <2>1, <3>1
      <3> QED
        BY <3>2
    <2> QED
      BY <2>2 DEF Commits
  <1>3. ASSUME NEW w \in Word, NEW x, NEW v, LastBefore(r, w, x, v) PROVE LastBefore(r, w, x, v)'
    BY <1>3, LastUnchanged
  <1>4. Ranks(r, t, top)'
    BY <1>1 DEF Ranks
  <1>5. HasRead(r)'
    BY <1>1, <1>3 DEF HasRead
  <1>6. Latest(r, top)'
    BY <1>2, <1>3, LatestStep DEF Latest
  <1>7. After(r, t)'
    BY <1>1 DEF After, Stays, Written
  <1>8. SeesOwner(t)'
    BY <1>1, SeesStep DEF SeesOwner
  <1>9. WillHaveRead(r, t)'
    <2> SUFFICES ASSUME NEW p \in Proc, NEW w \in Word, Validating(p)', Sees(p, w)', Passes(p, w)'
                 PROVE  LastBefore(r, w, t[p], rset[p][w])'
      BY DEF WillHaveRead
    <2>1. rset'[p][w] = rset[p][w] /\ Sees(p, w) /\ Validating(p)
      BY <1>1 DEF Stays, Sees
    <2>2. Passes(p, w)
      BY <2>1, PassesStep
    <2>3. LastBefore(r, w, t[p], rset[p][w])
      BY <2>1, <2>2 DEF WillHaveRead
    <2> PICK v : v = rset[p][w]
      OBVIOUS
    <2>4. LastBefore(r, w, t[p], v)'
      BY <1>3, <2>3
    <2> QED
      BY <2>1, <2>4
  <1>10. Strict(r, t)'
    BY <1>1 DEF Strict
  <1> QED
    BY <1>4, <1>5, <1>6, <1>7, <1>8, <1>9, <1>10

LEMMA OrderAcquired ==
  ASSUME OneWordBlocks, Inv, OwnersInv, VersionInv, overtaken = {}, overtaken' = {},
         HistoryOK, Next,
         NEW r, NEW t, NEW top, Ordered(r, t, top), history' = history,
         NEW p \in Proc, acquired(p), Validating(p)',
         \A q \in Proc \ {p} : Validating(q)' => Stays(q)
  PROVE  Ordered(r, [t EXCEPT ![p] = top], top + 1)'
  <1> PICK u : u = [t EXCEPT ![p] = top]
    OBVIOUS
  <1>1. /\ r \in [Committed -> Nat] /\ t \in [Proc -> Nat] /\ top \in Nat
        /\ u \in [Proc -> Nat] /\ u[p] = top /\ \A q \in Proc \ {p} : u[q] = t[q]
        /\ \A a \in Committed : r[a] < top /\ r[a] \in Nat
    BY DEF Ordered, Ranks
  <1>2. /\ Committed' = Committed
        /\ \A q \in Proc : Validating(q)' => began'[q] = began[q]
        /\ \A q \in Proc \ {p} : Validating(q)' => Validating(q) /\ Stays(q) /\ Written(q)' = Written(q)
    BY BeganStep DEF Committed, Stays, Validating, Inv, Written
  <1>3. /\ UNCHANGED <<shared, cache, read_list, acquired_list, rset, net>>
        /\ todo'[p] = read_list[p] /\ \A q \in Proc \ {p} : todo'[q] = todo[q]
    BY DEF acquired, ghosts, Inv, Typed, Validating
  <1>4. ASSUME NEW w \in Word, NEW x, NEW v, LastBefore(r, w, x, v) PROVE LastBefore(r, w, x, v)'
    BY <1>4, LastUnchanged
  <1>5. ASSUME NEW w \in Word, NEW v, LastBefore(r, w, top, v) PROVE LastBefore(r, w, top + 1, v)
    <2>1. Writers(w) \subseteq Committed
      BY DEF Writers
    <2>2. \A a \in Writers(w) : r[a] < top <=> r[a] < top + 1
      BY <1>1, <2>1
    <2> QED
      BY <1>1, <1>5, <2>2, LastSame
  <1>6. Ranks(r, u, top + 1)'
    <2>1. ASSUME NEW q \in Proc, Validating(q)'
          PROVE  /\ u[q] < top + 1
                 /\ \A a \in Committed : r[a] # u[q]
                 /\ \A o \in Proc : Validating(o)' /\ u[o] = u[q] => o = q
      <3>1. CASE q = p
        BY <1>1, <1>2, <3>1 DEF Ordered, Ranks
      <3>2. CASE q # p
        <4>1. Validating(q) /\ u[q] = t[q] /\ t[q] < top /\ t[q] \in Nat
          BY <1>1, <1>2, <2>1, <3>2 DEF Ordered, Ranks
        <4> QED
          BY <1>1, <1>2, <2>1, <3>2, <4>1 DEF Ordered, Ranks
      <3> QED
        BY <3>1, <3>2
    <2>2. \A a \in Committed : r[a] < top + 1
      BY <1>1
    <2>3. top + 1 \in Nat
      BY <1>1
    <2>4. \A a, b \in Committed : r[a] = r[b] => a = b
      BY DEF Ordered, Ranks
    <2> QED
      BY <1>1, <1>2, <2>1, <2>2, <2>3, <2>4 DEF Ranks
  <1>7. HasRead(r)'
    BY <1>2, <1>4 DEF HasRead, Ordered
  <1>8. Latest(r, top + 1)'
    <2>1. ASSUME NEW w \in Word
          PROVE  /\ Pending(w)' = {} => LastBefore(r, w, top + 1, mem[w])'
                 /\ \A m \in Pending(w)' : LastBefore(r, w, top + 1, m.val)'
      <3>1. Pending(w)' = Pending(w) /\ mem' = mem
        BY <1>3 DEF Pending, shared
      <3> QED
        BY <1>4, <1>5, <3>1 DEF Latest, Ordered
    <2> QED
      BY <2>1 DEF Latest
  <1>9. After(r, u)'
    BY <1>1, <1>2 DEF After, Ordered
  <1>10. SeesOwner(u)'
    <2> SUFFICES ASSUME NEW q \in Proc, NEW o \in Proc, NEW w \in Word,
                        Validating(q)', Validating(o)', q # o, Sees(q, w)', Asked(q, w)',
                        w \in Written(o)', u[o] < u[q]
                 PROVE  is_owned(cache[q][w].new_version)'
      BY DEF SeesOwner
    <2>1. q # p
      BY <1>1, <1>3 DEF Asked
    <2>2. Validating(q) /\ t[q] < top /\ t[q] \in Nat
      BY <1>1, <1>2, <2>1 DEF Ordered, Ranks
    <2>3. o # p
      BY <1>1, <2>1, <2>2
    <2>4. Validating(o) /\ w \in Written(o) /\ Sees(q, w) /\ Asked(q, w) /\ t[o] < t[q]
      BY <1>1, <1>2, <1>3, <2>1, <2>3 DEF Sees, Asked
    <2> QED
      BY <1>3, <2>2, <2>4 DEF SeesOwner, Ordered
  <1>11. WillHaveRead(r, u)'
    <2> SUFFICES ASSUME NEW q \in Proc, NEW w \in Word, Validating(q)', Sees(q, w)', Passes(q, w)'
                 PROVE  LastBefore(r, w, u[q], rset[q][w])'
      BY DEF WillHaveRead
    <2>1. Sees(q, w)
      BY <1>3 DEF Sees
    <2> PICK v : v = rset[q][w]
      OBVIOUS
    <2>2. LastBefore(r, w, u[q], v)
      <3>1. CASE q # p
        <4>1. Passes(q, w)
          BY <1>2, <2>1, <3>1, PassesStep
        <4> QED
          BY <1>1, <1>2, <2>1, <3>1, <4>1 DEF WillHaveRead, Ordered
      <3>2. CASE q = p
        <4>1. ~(Asked(p, w)')
          BY <1>3 DEF Asked
        <4>2. /\ cache[p][w].version = make_unowned(version[BlockOf(w)])
              /\ Pending(w) = {} /\ ~HalfWritten(w)
          BY <1>3, <3>2, <4>1 DEF Passes, Pending, HalfWritten, shared
        <4>3. /\ cache[p][w].read /\ cache[p][w].state \notin {"open", "open_value"}
              /\ rset[p][w] # NoVal
              /\ version[BlockOf(w)] \in Nat
          BY <2>1, <3>2, BlockTyped DEF Inv, Typed, EntriesInv, EntriesOK, EntryOK, Sees
        <4>4. ~is_owned(cache[p][w].version)
          BY <4>2, <4>3, Versions
        <4>5. rset[p][w] = mem[w]
          BY <4>2, <4>3, <4>4 DEF VersionInv, VersionOK
        <4> QED
          BY <1>1, <3>2, <4>2, <4>5 DEF Latest, Ordered
      <3> QED
        BY <3>1, <3>2
    <2>3. LastBefore(r, w, u[q], v)'
      BY <1>4, <2>2
    <2> QED
      BY <1>3, <2>3
  <1>12. Strict(r, u)'
    BY <1>1, <1>2 DEF Strict, Ordered
  <1> QED
    BY <1>6, <1>7, <1>8, <1>9, <1>10, <1>11, <1>12 DEF Ordered

LEMMA OrderCommit ==
  ASSUME OneWordBlocks, Inv, OwnersInv, VersionInv, overtaken = {}, overtaken' = {},
         HistoryOK, Next,
         NEW r, NEW t, NEW top, Ordered(r, t, top),
         NEW p \in Proc, Commits(p), ~Validating(p)',
         \A q \in Proc : Validating(q)' => q # p /\ Stays(q),
         NEW s, s = Extended(r, p, t)
  PROVE  Ordered(s, t, top)'
  <1> DEFINE c == Len(history) + 1
  <1>1. /\ r \in [Committed -> Nat] /\ t \in [Proc -> Nat] /\ top \in Nat
        /\ Validating(p) /\ t[p] < top
        /\ \A a \in Committed : r[a] < top /\ r[a] \in Nat /\ r[a] # t[p]
    BY DEF Ordered, Ranks, Commits, Validating
  <1>2. /\ Committed' = Committed \cup {c} /\ c \notin Committed
        /\ history'[c] = Record(p)
        /\ \A a \in Committed : history'[a] = history[a] /\ s[a] = r[a]
        /\ s \in [Committed' -> Nat] /\ s[c] = t[p]
        /\ Len(history) \in Nat /\ Committed = 1 .. Len(history)
    <2>1. Typed /\ Committed = 1 .. Len(history)
      BY DEF Inv, Committed
    <2>2. /\ Len(history) \in Nat
          /\ Committed' = Committed \cup {c} /\ c \notin Committed
          /\ history'[c] = Record(p)
          /\ \A a \in Committed : history'[a] = history[a] /\ s[a] = r[a]
          /\ s \in [Committed' -> Nat] /\ s[c] = t[p]
      <3> HIDE DEF Ordered
      <3> QED
        BY <1>1, <2>1, HistoryCommit
    <2> QED
      BY <2>1, <2>2
  <1> HIDE DEF c
  <1>3. \A w \in Word : /\ history'[c].reads[w] = rset[p][w]
                        /\ w \notin Written(p) => history'[c].writes[w] = NoVal
                        /\ w \in Written(p) => /\ history'[c].writes[w] = cache[p][w].value
                                               /\ cache[p][w].value # NoVal
    BY <1>2, StmBaseAssumption DEF Record, Written, Inv, EntriesInv, EntriesOK, EntryOK
  <1>4. \A q \in Proc : Validating(q)' =>
          /\ q # p /\ Validating(q) /\ Stays(q) /\ Written(q)' = Written(q)
          /\ began'[q] = began[q] /\ rset'[q] = rset[q] /\ t[q] # t[p] /\ t[q] \in Nat /\ t[q] < top
    <2>1. \A q \in Proc : Validating(q)' => began'[q] = began[q]
      BY BeganStep DEF Validating, Inv
    <2> QED
      BY <1>1, <2>1 DEF Stays, Validating, Written, Ordered, Ranks
  <1>5. ASSUME NEW w \in Word, NEW x \in Nat, NEW v, LastBefore(r, w, x, v),
               w \in Written(p) => x <= t[p]
        PROVE  LastBefore(s, w, x, v)'
    BY <1>1, <1>5, LastCommit DEF Inv
  <1>6. ASSUME NEW q \in Proc, NEW w \in Word, w \in Written(p), w \in Written(q), Validating(q)
        PROVE  q = p
    BY <1>1, <1>6, Validator, OneWriter DEF Validating
  <1>7. ASSUME NEW w \in Word, Sees(p, w)
        PROVE  Asked(p, w) /\ Passes(p, w) /\ ~Inconsistent(p, w)
    <2>1. w \in read_list[p]
      BY <1>7 DEF Sees, Inv, EntriesInv, EntriesOK, EntryOK, Typed, OneWordBlocks
    <2> QED
      BY <2>1 DEF Commits, Asked, Passes
  <1>8. Ranks(s, t, top)'
    <2>1. \A a \in Committed' : s[a] < top
      BY <1>1, <1>2
    <2>2. ASSUME NEW a \in Committed', NEW b \in Committed', s[a] = s[b] PROVE a = b
      BY <1>1, <1>2, <2>2 DEF Ordered, Ranks
    <2>3. ASSUME NEW q \in Proc, Validating(q)'
          PROVE  /\ \A a \in Committed' : s[a] # t[q]
                 /\ \A o \in Proc : Validating(o)' /\ t[o] = t[q] => o = q
      BY <1>1, <1>2, <1>4, <2>3 DEF Ordered, Ranks
    <2> QED
      BY <1>1, <1>2, <1>4, <2>1, <2>2, <2>3 DEF Ranks
  <1>9. HasRead(s)'
    <2> SUFFICES ASSUME NEW a \in Committed', NEW w \in Word, history'[a].reads[w] # NoVal
                 PROVE  LastBefore(s, w, s[a], history[a].reads[w])'
      BY DEF HasRead
    <2> PICK v : v = history'[a].reads[w]
      OBVIOUS
    <2>1. CASE a = c
      <3>1. v = rset[p][w] /\ Sees(p, w)
        BY <1>2, <1>3, <2>1 DEF Sees
      <3>2. LastBefore(r, w, t[p], v)
        BY <1>1, <1>7, <3>1 DEF Ordered, WillHaveRead
      <3>3. LastBefore(s, w, t[p], v)'
        BY <1>1, <1>5, <3>2
      <3> QED
        BY <1>2, <2>1, <3>3
    <2>2. CASE a \in Committed
      <3>1. LastBefore(r, w, r[a], v)
        BY <1>2, <2>2 DEF Ordered, HasRead
      <3>2. w \in Written(p) => r[a] < t[p]
        BY <1>1, <1>2, <2>2 DEF Ordered, After
      <3>3. r[a] \in Nat /\ t[p] \in Nat
        BY <1>1, <2>2
      <3>4. LastBefore(s, w, r[a], v)'
        BY <1>5, <3>1, <3>2, <3>3
      <3> QED
        BY <1>2, <2>2, <3>4
    <2> QED
      BY <1>2, <2>1, <2>2
  <1>10. Latest(s, top)'
    <2> SUFFICES ASSUME NEW w \in Word
                 PROVE  /\ Pending(w)' = {} => LastBefore(s, w, top, mem[w])'
                        /\ \A m \in Pending(w)' : LastBefore(s, w, top, m.val)'
      BY DEF Latest
    <2>1. CASE w \notin Written(p)
      <3>1. /\ Pending(w)' = {} => LastBefore(r, w, top, mem'[w])
            /\ \A m \in Pending(w)' : LastBefore(r, w, top, m.val)
        <4>1. \A q \in Proc : Commits(q) => q = p
          BY DEF Commits, Forget, Inv, Typed
        <4> QED
          BY <2>1, <4>1, LatestStep DEF Ordered
      <3> QED
        BY <1>1, <1>5, <2>1, <3>1
    <2>2. CASE w \in Written(p)
      <3>1. /\ c \in Writers(w)' /\ s[c] < top
            /\ \A a \in Writers(w)' : s[a] <= s[c]
            /\ history'[c].writes[w] = cache[p][w].value
        <4>1. \A a \in Writers(w)' : a = c \/ (a \in Committed /\ history[a].writes[w] # NoVal)
          BY <1>2 DEF Writers
        <4>2. \A a \in Committed : history[a].writes[w] # NoVal => r[a] < t[p]
          BY <1>1, <2>2 DEF Ordered, After
        <4>3. c \in Writers(w)' /\ history'[c].writes[w] = cache[p][w].value
          BY <1>2, <1>3, <2>2 DEF Writers
        <4>4. ASSUME NEW a \in Writers(w)' PROVE s[a] <= s[c]
          BY <1>1, <1>2, <4>1, <4>2
        <4> QED
          BY <1>1, <1>2, <4>3, <4>4
      <3> PICK v : v = cache[p][w].value
        OBVIOUS
      <3>2. LastBefore(s, w, top, v)'
        BY <3>1 DEF LastBefore
      <3> QED
        BY <2>2, <3>2, PendingCommit
    <2> QED
      BY <2>1, <2>2
  <1>11. After(s, t)'
    <2> SUFFICES ASSUME NEW q \in Proc, NEW w \in Word, NEW a \in Committed',
                        Validating(q)', w \in Written(q)',
                        history'[a].writes[w] # NoVal \/ history'[a].reads[w] # NoVal
                 PROVE  s[a] < t[q]
      BY DEF After
    <2>1. Validating(q) /\ w \in Written(q) /\ q # p /\ t[q] # t[p] /\ t[q] \in Nat
      BY <1>4
    <2>2. CASE a = c
      <3>1. w \notin Written(p)
        BY <1>6, <2>1
      <3>2. Sees(p, w)
        BY <1>2, <1>3, <2>2, <3>1 DEF Sees
      <3>3. ~(t[q] < t[p])
        BY <1>1, <1>7, <2>1, <3>2, NoWriterBefore DEF Ordered
      <3> QED
        BY <1>1, <1>2, <2>1, <2>2, <3>3
    <2>3. CASE a \in Committed
      BY <1>2, <2>1, <2>3 DEF Ordered, After
    <2> QED
      BY <1>2, <2>2, <2>3
  <1>12. SeesOwner(t)'
    BY <1>4, SeesStep DEF SeesOwner, Ordered
  <1>13. WillHaveRead(s, t)'
    <2> SUFFICES ASSUME NEW q \in Proc, NEW w \in Word, Validating(q)', Sees(q, w)', Passes(q, w)'
                 PROVE  LastBefore(s, w, t[q], rset[q][w])'
      BY DEF WillHaveRead
    <2>1. /\ rset'[q][w] = rset[q][w] /\ Sees(q, w) /\ Validating(q) /\ Stays(q)
          /\ q # p /\ t[q] # t[p] /\ t[q] \in Nat
      BY <1>4 DEF Sees
    <2>2. Passes(q, w) /\ (w \in Written(p) => Asked(q, w))
      BY <2>1, PassesStep
    <2> PICK v : v = rset[q][w]
      OBVIOUS
    <2>3. LastBefore(r, w, t[q], v)
      BY <2>1, <2>2 DEF WillHaveRead, Ordered
    <2>4. w \in Written(p) => ~(t[p] < t[q])
      BY <1>1, <2>1, <2>2, NoWriterBefore DEF Ordered, Passes
    <2>5. w \in Written(p) => t[q] <= t[p]
      BY <1>1, <2>1, <2>4
    <2>6. LastBefore(s, w, t[q], v)'
      BY <1>5, <2>1, <2>3, <2>5
    <2> QED
      BY <2>1, <2>6
  <1>14. Strict(s, t)'
    <2>1. ASSUME NEW q \in Proc, NEW a \in Committed', Validating(q)', a <= began'[q]
          PROVE  s[a] < t[q]
      <3>1. began[q] <= Len(history) /\ began[q] \in Nat /\ Validating(q) /\ began'[q] = began[q]
        BY <1>4, <2>1 DEF HistoryOK
      <3>2. a \in Committed
        BY <1>2, <2>1, <3>1 DEF c
      <3> QED
        BY <1>2, <2>1, <3>1, <3>2 DEF Ordered, Strict
    <2>2. ASSUME NEW a \in Committed', NEW b \in Committed', a <= history'[b].began
          PROVE  s[a] < s[b]
      <3>1. CASE b = c
        <4>1. history'[b].began = began[p]
          BY <1>2, <3>1 DEF Record
        <4>2. began[p] <= Len(history) /\ began[p] \in Nat
          BY DEF HistoryOK
        <4>3. a \in Committed
          BY <1>2, <2>2, <4>1, <4>2 DEF c
        <4> QED
          BY <1>1, <1>2, <2>2, <3>1, <4>1, <4>3 DEF Ordered, Strict
      <3>2. CASE b \in Committed
        <4>1. history[b].began <= Len(history) /\ history[b].began \in Nat
          <5>1. history[b] \in Transaction /\ b \in 1 .. Len(history)
            BY <1>2, <3>2 DEF HistoryOK
          <5> QED
            BY <5>1 DEF HistoryOK, Transaction
        <4>2. a \in Committed
          BY <1>2, <2>2, <3>2, <4>1 DEF c
        <4> QED
          BY <1>2, <2>2, <3>2, <4>2 DEF Ordered, Strict
      <3> QED
        BY <1>2, <3>1, <3>2
    <2> QED
      BY <2>1, <2>2 DEF Strict
  <1> QED
    BY <1>8, <1>9, <1>10, <1>11, <1>12, <1>13, <1>14 DEF Ordered

-----------------------------------------------------------------------------
(* The order exists always, and sorted by it the history is serial.        *)

LEMMA OrderInit == ASSUME Init PROVE OrderInv
  <1> DEFINE r == [a \in {} |-> 0]
             t == [p \in Proc |-> 0]
  <1>1. history = << >> /\ Len(history) = 0 /\ Committed = {}
    BY DEF Init, Committed
  <1>2. HistoryOK
    BY <1>1 DEF Init, HistoryOK
  <1>3. \A p \in Proc : ~Validating(p)
    BY DEF Init, Validating
  <1>4. \A w \in Word : Pending(w) = {} /\ mem[w] = InitVal /\ Writers(w) = {}
    BY <1>1 DEF Init, Pending, EmptyBag, SetToBag, BagToSet, Writers
  <1>5. r \in [Committed -> Nat]
    BY <1>1
  <1> HIDE DEF r, t
  <1>6. Ranks(r, t, 1)
    BY <1>1, <1>3, <1>5 DEF Ranks, t
  <1>7. Latest(r, 1)
    BY <1>4 DEF Latest, LastBefore
  <1>8. HasRead(r) /\ After(r, t) /\ SeesOwner(t) /\ WillHaveRead(r, t) /\ Strict(r, t)
    BY <1>1, <1>3 DEF HasRead, After, SeesOwner, WillHaveRead, Strict
  <1> QED
    BY <1>2, <1>6, <1>7, <1>8 DEF OrderInv, Ordered

LEMMA OrderNext ==
  ASSUME OneWordBlocks, Inv, OwnersInv, VersionInv, OrderInv, [Next]_vars PROVE OrderInv'
  <1>1. HistoryOK /\ HistoryOK' /\ Typed
    BY HistoryNext DEF OrderInv, Inv
  <1>0. overtaken \subseteq overtaken'
    BY OvertakenGrows DEF vars
  <1> SUFFICES ASSUME overtaken = {}, overtaken' = {} PROVE OrderInv'
    BY <1>0, <1>1 DEF OrderInv
  <1> PICK r, t, top : Ordered(r, t, top)
    BY DEF OrderInv
  <1>2. CASE UNCHANGED vars
    <2>1. UNCHANGED <<mem, version, cache, read_list, acquired_list, todo, pc, net, rset,
                      began, history>>
      BY <1>2 DEF vars, shared, lists, ghosts
    <2>2. /\ Committed' = Committed
          /\ \A p \in Proc : Validating(p)' = Validating(p) /\ Written(p)' = Written(p)
          /\ \A w \in Word : Pending(w)' = Pending(w) /\ Writers(w)' = Writers(w)
      BY <2>1 DEF Committed, Validating, Written, Pending, Writers
    <2>10. ASSUME NEW p \in Proc, NEW w \in Word
           PROVE  /\ Sees(p, w)' = Sees(p, w) /\ Asked(p, w)' = Asked(p, w)
                  /\ Inconsistent(p, w)' = Inconsistent(p, w)
                  /\ HalfWritten(w)' = HalfWritten(w)
      BY <2>1 DEF Sees, Asked, Inconsistent, HalfWritten
    <2>3. \A p \in Proc, w \in Word :
            /\ Sees(p, w)' = Sees(p, w) /\ Asked(p, w)' = Asked(p, w)
            /\ Passes(p, w)' = Passes(p, w)
      BY <2>1, <2>2, <2>10 DEF Passes
    <2>4. ASSUME NEW w \in Word, NEW x, NEW v, LastBefore(r, w, x, v)
          PROVE  LastBefore(r, w, x, v)'
      BY <2>1, <2>4, LastUnchanged
    <2>5. Ranks(r, t, top)' /\ Strict(r, t)' /\ After(r, t)' /\ SeesOwner(t)'
      BY <2>1, <2>2, <2>3 DEF Ordered, Ranks, Strict, After, SeesOwner
    <2>6. HasRead(r)'
      BY <2>1, <2>2, <2>4 DEF Ordered, HasRead
    <2>7. Latest(r, top)'
      BY <2>1, <2>2, <2>4 DEF Ordered, Latest
    <2>8. WillHaveRead(r, t)'
      BY <2>1, <2>2, <2>3, <2>4 DEF Ordered, WillHaveRead
    <2>9. Ordered(r, t, top)'
      BY <2>5, <2>6, <2>7, <2>8 DEF Ordered
    <2> QED
      BY <1>1, <2>9 DEF OrderInv
  <1>3. ASSUME Next, NEW p \in Proc, Commits(p), ~Validating(p)',
               \A q \in Proc : Validating(q)' => q # p /\ Stays(q)
        PROVE  \E s : Ordered(s, t, top)'
    <2> PICK s : s = Extended(r, p, t)
      OBVIOUS
    <2>1. Ordered(s, t, top)'
      BY <1>1, <1>3, OrderCommit
    <2> QED
      BY <2>1
  <1>4. ASSUME Next, history' = history, NEW p \in Proc, acquired(p), Validating(p)',
               \A q \in Proc \ {p} : Validating(q)' => Stays(q)
        PROVE  \E s, y : Ordered(r, s, y)'
    <2>1. Ordered(r, [t EXCEPT ![p] = top], top + 1)'
      BY <1>1, <1>4, OrderAcquired
    <2> QED
      BY <2>1
  <1>5. ASSUME Next, history' = history, \A q \in Proc : Validating(q)' => Stays(q)
        PROVE  Ordered(r, t, top)'
    BY <1>1, <1>5, OrderQuiet
  <1>6. CASE Next
    <2>1. \E x, y, z : Ordered(x, y, z)'
      BY <1>3, <1>4, <1>5, <1>6, StepKinds
    <2> QED
      BY <1>1, <2>1 DEF OrderInv
  <1> QED
    BY <1>2, <1>6

(* Different numbers can be sorted: the rank of each is how many are not   *)
(* above it.                                                               *)
LEMMA Sorting ==
  ASSUME NEW n \in Nat, NEW r \in [1 .. n -> Nat], \A a, b \in 1 .. n : r[a] = r[b] => a = b
  PROVE  \E f \in [1 .. n -> 1 .. n] :
           /\ \A i, j \in 1 .. n : i < j <=> r[f[i]] < r[f[j]]
           /\ \A a \in 1 .. n : \E i \in 1 .. n : f[i] = a
  <1> DEFINE N == 1 .. n
             below(a) == { b \in N : r[b] <= r[a] }
             rank == [a \in N |-> Cardinality(below(a))]
  <1>1. IsFiniteSet(N) /\ Cardinality(N) = n
    BY FS_Interval
  <1>2. \A a \in N : r[a] \in Nat /\ rank[a] = Cardinality(below(a))
    OBVIOUS
  <1> HIDE DEF rank
  <1>3. ASSUME NEW a \in N PROVE IsFiniteSet(below(a)) /\ rank[a] \in N
    <2>1. below(a) \subseteq N /\ a \in below(a)
      BY <1>2
    <2> HIDE DEF below
    <2>2. IsFiniteSet(below(a)) /\ Cardinality(below(a)) <= n
      BY <1>1, <2>1, FS_Subset
    <2>3. Cardinality(below(a)) \in Nat /\ Cardinality(below(a)) # 0
      BY <2>1, <2>2, FS_CardinalityType, FS_EmptySet
    <2> QED
      BY <1>2, <2>2, <2>3
  <1>4. ASSUME NEW a \in N, NEW b \in N, r[a] < r[b] PROVE rank[a] < rank[b]
    <2>1. below(a) \subseteq below(b) /\ b \in below(b) /\ b \notin below(a)
      BY <1>2, <1>4
    <2> HIDE DEF below
    <2>2. /\ Cardinality(below(a)) <= Cardinality(below(b))
          /\ Cardinality(below(a)) # Cardinality(below(b))
      BY <1>3, <2>1, FS_Subset
    <2>3. rank[a] \in Nat /\ rank[b] \in Nat
      BY <1>3
    <2> QED
      BY <1>2, <2>2, <2>3
  <1> HIDE DEF below
  <1>5. rank \in [N -> N]
    BY <1>3 DEF rank
  <1>6. ASSUME NEW a \in N, NEW b \in N, rank[a] = rank[b] PROVE a = b
    <2>1. rank[a] \in Nat /\ ~(r[a] < r[b]) /\ ~(r[b] < r[a])
      BY <1>3, <1>4, <1>6
    <2> QED
      BY <1>2, <2>1
  <1>7. \A k \in N : \E a \in N : rank[a] = k
    <2>1. rank \in Injection(N, N)
      BY <1>5, <1>6 DEF Injection, IsInjective
    <2>2. rank \in Surjection(N, N)
      BY <1>1, <2>1, FS_Injection
    <2> QED
      BY <2>2 DEF Surjection
  <1> DEFINE f == [k \in N |-> CHOOSE a \in N : rank[a] = k]
  <1>8. ASSUME NEW k \in N PROVE f[k] \in N /\ rank[f[k]] = k
    BY <1>7
  <1>9. f \in [N -> N]
    BY <1>8
  <1> HIDE DEF f
  <1>10. ASSUME NEW i \in N, NEW j \in N PROVE i < j <=> r[f[i]] < r[f[j]]
    <2>1. /\ f[i] \in N /\ f[j] \in N /\ rank[f[i]] = i /\ rank[f[j]] = j
          /\ r[f[i]] \in Nat /\ r[f[j]] \in Nat
      BY <1>2, <1>8
    <2>2. /\ r[f[i]] < r[f[j]] => rank[f[i]] < rank[f[j]]
          /\ r[f[j]] < r[f[i]] => rank[f[j]] < rank[f[i]]
      <3> HIDE DEF N
      <3> QED
        BY <1>4, <2>1
    <2>3. r[f[i]] = r[f[j]] => f[i] = f[j]
      BY <2>1
    <2>4. i \in Nat /\ j \in Nat
      OBVIOUS
    <2> QED
      BY <2>1, <2>2, <2>3, <2>4
  <1>11. ASSUME NEW a \in N PROVE \E i \in N : f[i] = a
    <2>1. rank[a] \in N /\ f[rank[a]] \in N /\ rank[f[rank[a]]] = rank[a]
      BY <1>3, <1>8
    <2> QED
      BY <1>6, <2>1
  <1> QED
    BY <1>9, <1>10, <1>11

LEMMA OrderExplains == ASSUME OrderInv, overtaken = {} PROVE StrictlySerializable
  <1> DEFINE n == Len(history)
  <1> PICK r, t, top : Ordered(r, t, top)
    BY DEF OrderInv
  <1>1. /\ n \in Nat /\ r \in [1 .. n -> Nat] /\ \A a, b \in 1 .. n : r[a] = r[b] => a = b
        /\ \A a \in 1 .. n : history[a] \in Transaction
        /\ Committed = 1 .. n
        /\ \A w \in Word : Writers(w) = { b \in 1 .. n : history[b].writes[w] # NoVal }
    BY DEF OrderInv, HistoryOK, Ordered, Ranks, Committed, Writers
  <1> HIDE DEF n
  <1>2. PICK f \in [1 .. n -> 1 .. n] :
           /\ \A i, j \in 1 .. n : i < j <=> r[f[i]] < r[f[j]]
           /\ \A a \in 1 .. n : \E i \in 1 .. n : f[i] = a
    BY <1>1, Sorting
  <1>3. f \in S!Orders(n)
    <2>1. ASSUME NEW i \in 1 .. n, NEW j \in 1 .. n, i # j PROVE f[i] # f[j]
      <3>1. i < j \/ j < i
        BY <1>1, <2>1
      <3>2. r[f[i]] < r[f[j]] \/ r[f[j]] < r[f[i]]
        BY <1>2, <3>1
      <3>3. r[f[i]] \in Nat /\ r[f[j]] \in Nat
        BY <1>1, <1>2
      <3> QED
        BY <3>2, <3>3
    <2> QED
      BY <1>2, <2>1 DEF S!Orders
  <1> DEFINE s == S!Reordered(history, f)
  <1>4. Len(s) = n /\ \A i \in 1 .. n : s[i] = history[f[i]]
    <2>1. s = [i \in 1 .. n |-> history[f[i]]]
      BY DEF S!Reordered, n
    <2>2. \A i \in 1 .. n : history[f[i]] \in Transaction
      BY <1>1, <1>2
    <2> HIDE DEF s
    <2>3. s \in Seq(Transaction)
      BY <1>1, <2>1, <2>2
    <2> QED
      BY <1>1, <2>1, <2>3
  <1> HIDE DEF s
  <1>5. ASSUME NEW i \in 1 .. n, NEW w \in Word, s[i].reads[w] # NoVal
        PROVE  S!ReadsLast(s, i, w)
    <2> DEFINE before == { j \in 1 .. i - 1 : s[j].writes[w] # NoVal }
               below == { b \in Writers(w) : r[b] < r[f[i]] }
               read == s[i].reads[w]
    <2>1. f[i] \in 1 .. n /\ s[i] = history[f[i]]
      BY <1>2, <1>4
    <2>2. LastBefore(r, w, r[f[i]], read)
      BY <1>1, <1>5, <2>1 DEF Ordered, HasRead
    <2>3. before \subseteq 1 .. n
      BY <1>1
    <2>4. ASSUME NEW j \in 1 .. n PROVE j \in before <=> f[j] \in below
      <3>1. s[j] = history[f[j]] /\ f[j] \in 1 .. n /\ (j < i <=> r[f[j]] < r[f[i]])
        BY <1>2, <1>4
      <3>2. j \in 1 .. i - 1 <=> j < i
        BY <1>1
      <3>3. j \in before <=> j < i /\ history[f[j]].writes[w] # NoVal
        BY <3>1, <3>2
      <3>4. f[j] \in below <=> history[f[j]].writes[w] # NoVal /\ r[f[j]] < r[f[i]]
        BY <1>1, <3>1
      <3> QED
        BY <3>1, <3>3, <3>4
    <2>5. S!ReadsLast(s, i, w) <=> \/ before = {} /\ read = InitVal
                                   \/ \E j \in before : /\ \A k \in before : k <= j
                                                        /\ read = s[j].writes[w]
      BY DEF S!ReadsLast
    <2>6. \/ below = {} /\ read = InitVal
          \/ \E b \in below : /\ \A x \in below : r[x] <= r[b]
                              /\ read = history[b].writes[w]
      BY <2>2 DEF LastBefore
    <2>7. below \subseteq 1 .. n
      BY <1>1
    <2> HIDE DEF before, below, read
    <2>8. CASE below = {} /\ read = InitVal
      BY <2>3, <2>4, <2>5, <2>8
    <2>9. ASSUME NEW b \in below, read = history[b].writes[w], \A x \in below : r[x] <= r[b]
          PROVE  S!ReadsLast(s, i, w)
      <3>1. PICK j \in 1 .. n : f[j] = b
        BY <1>2, <2>7
      <3>2. j \in before /\ s[j] = history[b]
        BY <1>4, <2>4, <3>1
      <3>3. ASSUME NEW k \in before PROVE k <= j
        <4>1. k \in 1 .. n /\ r[f[k]] <= r[f[j]]
          BY <2>3, <2>4, <2>9, <3>1
        <4>2. r[f[k]] \in Nat /\ r[f[j]] \in Nat
          BY <1>1, <1>2, <4>1
        <4>3. j < k <=> r[f[j]] < r[f[k]]
          BY <1>2, <4>1
        <4>4. ~(j < k)
          BY <4>1, <4>2, <4>3
        <4> QED
          BY <1>1, <4>1, <4>4
      <3> QED
        BY <2>5, <2>9, <3>2, <3>3
    <2> QED
      BY <2>6, <2>8, <2>9
  <1>6. S!Explains(s)
    BY <1>4, <1>5 DEF S!Explains
  <1>7. ASSUME NEW i \in 1 .. n, NEW j \in 1 .. n, i < j PROVE f[j] > history[f[i]].began
    <2>1. /\ r[f[i]] < r[f[j]] /\ f[i] \in 1 .. n /\ f[j] \in 1 .. n
          /\ history[f[i]] \in Transaction
      BY <1>1, <1>2, <1>7
    <2>2. r[f[i]] \in Nat /\ r[f[j]] \in Nat /\ history[f[i]].began \in Nat
      BY <1>1, <2>1 DEF Transaction
    <2>3. \A a, b \in 1 .. n : a <= history[b].began => r[a] < r[b]
      BY <1>1 DEF Ordered, Strict
    <2>4. f[j] <= history[f[i]].began => r[f[j]] < r[f[i]]
      BY <2>1, <2>3
    <2>5. ~(f[j] <= history[f[i]].began)
      BY <2>1, <2>2, <2>4
    <2>6. f[j] \in Nat
      BY <1>1, <2>1
    <2> QED
      BY <2>2, <2>5, <2>6
  <1> QED
    BY <1>3, <1>6, <1>7 DEF s, n, StrictlySerializable, S!StrictlySerializableHistory

(* Committed transactions could have run one after the other, each after   *)
(* those that had committed when it began, as long as no acquire has been  *)
(* overtaken: although a commit acquires, validates and writes word by     *)
(* word and returns before its writes arrive, and although the two threads *)
(* of a node get in between the accesses of opens, writes and releases.    *)
THEOREM OldStmSerializable ==
  ASSUME OneWordBlocks PROVE Spec => []SerializableUnlessOvertaken
  <1>1. Init => OrderInv
    BY OrderInit
  <1>2. Inv /\ OwnersInv /\ VersionInv /\ OrderInv /\ [Next]_vars => OrderInv'
    BY OrderNext
  <1>3. OrderInv => SerializableUnlessOvertaken
    BY OrderExplains DEF SerializableUnlessOvertaken
  <1> QED
    BY <1>1, <1>2, <1>3, Invariant, OwnersInvariant, VersionInvariant, PTL DEF Spec
=============================================================================

-------------------------- MODULE StmAtomicProofs --------------------------
(***************************************************************************)
(* Theorems about what transactions of StmDistrib read and write: it       *)
(* implements AtomicTM wherever it is meant to, and what it has committed  *)
(* is serializable.                                                        *)
(***************************************************************************)
EXTENDS StmControlProofs, StmHistory

(* The builds that lock what they read.  Where they lose atomicity is not  *)
(* excluded silently: a late acquire with several words in a block loses   *)
(* updates, and a nested remote access is never finished.                  *)
ReadLockBuild ==
  /\ ~READ_VERSIONING
  /\ ~NestedRemote
  /\ LATE_ACQUIRE => \A v, w \in Word : BlockOf(v) = BlockOf(w) => v = w


-----------------------------------------------------------------------------
(* What a step of p does to the word w.                                    *)

EntryOf(p, w) == dataset[p][BlockOf(w)]

(* A write access of p that has still to store w: it has been asked for,   *)
(* or has failed.                                                          *)
Asked(p, w) ==
  \/ pc[p] = "failed"
  \/ pc[p] \in {"open", "copy"} /\ op[p].kind = "PUT" /\ w \in op[p].copying

SameView(p, w) == rset'[p][w] = rset[p][w] /\ wset'[p][w] = wset[p][w]

SameWord(p, w) ==
  /\ saved'[p][w] = saved[p][w] /\ mem'[w] = mem[w]
  /\ EntryOf(p, w).type # "NONE" => EntryOf(p, w)'.type = EntryOf(p, w).type
  /\ EntryOf(p, w).type = "NONE" => EntryOf(p, w)'.type # "WRITE"
  /\ EntryOf(p, w).promoted => EntryOf(p, w)'.promoted

Quiet(p, w) ==
  /\ SameWord(p, w) /\ SameView(p, w) /\ (Live(p) => Live(p)')
  /\ \/ ~Ending(p) /\ ~Ending(p)' /\ (Asked(p, w) => Asked(p, w)')
     \/ Ending(p) /\ Ending(p)' /\ status'[p] = status[p]
     \/ Ending(p) /\ ~Ending(p)' /\ EntryOf(p, w).type = "NONE" /\ EntryOf(p, w)'.type = "NONE"

DecidesWord(p, w) == Decide(p) /\ SameWord(p, w) /\ EntryOf(p, w)'.type = EntryOf(p, w).type

OpensWrite(p, w) ==
  /\ pc[p] = "open" /\ pc'[p] \in {"open", "copy"} /\ Live(p)'
  /\ EntryOf(p, w).type \in {"NONE", "READ"} /\ EntryOf(p, w)'.type = "WRITE"
  /\ LATE_ACQUIRE /\ EntryOf(p, w).type = "READ" => EntryOf(p, w)'.promoted
  /\ LATE_ACQUIRE => Asked(p, w)'
  /\ saved'[p][w] = mem[w] /\ mem'[w] = mem[w] /\ SameView(p, w)

ReadsWord(p, w) ==
  /\ pc[p] = "copy" /\ pc'[p] \in {"copy", "run"} /\ Live(p) /\ Live(p)'
  /\ op[p].kind = "GET" /\ EntryOf(p, w).type # "NONE" /\ SameWord(p, w)
  /\ wset'[p][w] = wset[p][w]
  /\ rset'[p][w] = IF wset[p][w] = NoVal THEN Visible(p, w) ELSE rset[p][w]

WritesWord(p, w) ==
  /\ pc[p] = "copy" /\ pc'[p] \in {"copy", "run"} /\ Live(p) /\ Live(p)'
  /\ EntryOf(p, w).type = "WRITE" /\ EntryOf(p, w)' = EntryOf(p, w)
  /\ rset'[p][w] = rset[p][w] /\ wset'[p][w] \in Val
  /\ saved'[p][w] = IF WRITE_BUFFERING THEN wset'[p][w] ELSE saved[p][w]
  /\ mem'[w] = IF WRITE_BUFFERING THEN mem[w] ELSE wset'[p][w]

FinishesWord(p, w) ==
  /\ Ending(p) /\ Ending(p)' /\ status'[p] = status[p] /\ SameView(p, w)
  /\ EntryOf(p, w)'.type = "NONE"
  /\ mem'[w] = IF /\ EntryOf(p, w).type = "WRITE"
                  /\ (status[p] = "COMMIT") <=> WRITE_BUFFERING
               THEN saved[p][w] ELSE mem[w]

Effect(p, w) ==
  \/ Quiet(p, w) \/ DecidesWord(p, w) \/ OpensWrite(p, w)
  \/ ReadsWord(p, w) \/ WritesWord(p, w) \/ FinishesWord(p, w)

GoodInv == NodeInv /\ AcquireInv /\ AccessInv

LEMMA GoodInvariant == ASSUME ~NestedRemote PROVE Spec => []GoodInv
  BY NodeInvariant, AcquireInvariant, AccessInvariant, PTL DEF GoodInv

LEMMA Good ==
  ASSUME GoodInv, NEW p \in Proc
  PROVE  TypeOK /\ LockInv /\ PlaceOK(p) /\ EntriesOK(p) /\ AcquireOK(p) /\ AccessOK(p)
  BY DEF GoodInv, NodeInv, PlaceInv, EntriesInv, AcquireInv, AccessInv

(* Code that is in an access is in a transaction.                          *)
LEMMA LiveInside ==
  ASSUME NEW p \in Proc, PlaceOK(p), ~Ending(p), pc[p] # "run" PROVE Live(p)
  BY DEF PlaceOK, Live, Ending

LEMMA LiveInsidePrime ==
  ASSUME NEW p \in Proc, PlaceOK(p)', ~Ending(p)', pc'[p] # "run" PROVE Live(p)'
  BY DEF PlaceOK, Live, Ending

LEMMA MoveEffect ==
  ASSUME GoodInv, GoodInv', NEW p \in Proc, MoveStep(p), NEW w \in Word
  PROVE  Quiet(p, w) \/ DecidesWord(p, w)
  <1>1. /\ TypeOK /\ PlaceOK(p) /\ EntriesOK(p) /\ PlaceOK(p)'
        /\ UNCHANGED <<dataset, saved, mem>> /\ (Move(p) \/ Decide(p))
    BY Good, MoveOrDecide DEF GoodInv, NodeInv, PlaceInv
  <1>2. SameWord(p, w) /\ EntryOf(p, w)' = EntryOf(p, w)
    BY <1>1 DEF SameWord, EntryOf
  <1>3. CASE Decide(p)
    BY <1>2, <1>3 DEF DecidesWord
  <1>4. CASE Move(p)
    <2>1. SameView(p, w)
      BY <1>4 DEF Move, SameView
    <2>2. CASE pc[p] = "run" /\ pc'[p] \in {"run", "acquire_local", "validate_local"}
               /\ (pc'[p] = "run" /\ Depth(p) > 0 => Depth(p)' > 0)
      <3>1. Live(p) => Live(p)'
        BY <2>2 DEF Live
      <3> QED
        BY <1>2, <2>1, <2>2, <3>1 DEF Quiet, Ending, Asked
    <2>3. CASE \/ Asking(p) /\ pc'[p] \in {"acquire_remote", "validate_remote"}
               \/ pc[p] = "failed" /\ pc'[p] = "failed"
      <3>1. Live(p)' /\ ~Ending(p) /\ ~Ending(p)' /\ (Asked(p, w) => Asked(p, w)')
        BY <1>1, <2>3, LiveInsidePrime DEF Asking, Ending, Asked
      <3> QED
        BY <1>2, <2>1, <3>1 DEF Quiet
    <2>4. CASE pc[p] = "finish_local" /\ pc'[p] = "finish_remote" /\ UNCHANGED status
      BY <1>2, <2>1, <2>4 DEF Quiet, Ending, Live
    <2>5. CASE pc[p] = "finish_remote" /\ pc'[p] = "run" /\ stm_finish_home(p)
      <3>1. EntryOf(p, w).type = "NONE"
        BY <1>1, <2>5, EntriesFinishHome, BlockOfWord DEF NoEntries, EntryOf
      <3> QED
        BY <1>2, <2>1, <2>5, <3>1 DEF Quiet, Ending, Live
    <2> QED
      BY <1>4, <2>2, <2>3, <2>4, <2>5 DEF Move
  <1> QED
    BY <1>1, <1>3, <1>4

LEMMA AccessEffect ==
  ASSUME GoodInv, GoodInv', NEW p \in Proc, NEW x, NEW k, NEW v, Access(p, x, k, v),
         NEW w \in Word
  PROVE  Quiet(p, w)
  <1>1. /\ UNCHANGED <<dataset, saved, mem, rset, wset>>
        /\ pc[p] = "run" /\ pc'[p] = "open" /\ PlaceOK(p)'
    BY Good, Typed DEF Access, shared, logVars, viewVars, GoodInv, NodeInv, PlaceInv
  <1>2. Live(p)' /\ ~Ending(p) /\ ~Ending(p)' /\ ~Asked(p, w)
    BY <1>1, LiveInsidePrime DEF Ending, Asked
  <1> QED
    BY <1>1, <1>2 DEF Quiet, SameWord, SameView, EntryOf

LEMMA OpenEffect ==
  ASSUME ReadLockBuild, GoodInv, GoodInv', NEW p \in Proc, NEW b \in Block,
         open_held(p, b) \/ open_read(p, b) \/ open_write(p, b), NEW w \in Word
  PROVE  Quiet(p, w) \/ OpensWrite(p, w)
  <1>1. TypeOK /\ PlaceOK(p) /\ AccessOK(p) /\ PlaceOK(p)'
    BY Good DEF GoodInv, NodeInv, PlaceInv
  <1>2. /\ pc[p] = "open" /\ UNCHANGED <<mem, rset, wset>> /\ b \in op[p].opening
        /\ Opened(p, b) \/ pc'[p] = "failed"
    BY <1>1, OpenHeldStep, OpenReadStep, OpenWriteStep
  <1>3. /\ pc'[p] \in {"open", "copy", "failed"}
        /\ Asked(p, w) => Asked(p, w)'
    BY <1>1, <1>2, OpenedBlock DEF Asked
  <1>4. Live(p)' /\ ~Ending(p) /\ ~Ending(p)' /\ SameView(p, w) /\ BlockOf(w) \in Block
    BY <1>1, <1>2, <1>3, LiveInsidePrime, BlockOfWord DEF Ending, SameView
  <1>5. CASE SameWord(p, w)
    BY <1>3, <1>4, <1>5 DEF Quiet
  <1>6. CASE open_held(p, b)
    <2>1. SameWord(p, w)
      BY <1>1, <1>6, OpenHeldStep DEF SameWord, EntryOf
    <2> QED
      BY <1>5, <2>1
  <1>7. CASE open_read(p, b)
    <2>1. SameWord(p, w)
      <3>1. CASE BlockOf(w) # b
        BY <1>1, <1>4, <1>7, <3>1, OpenReadStep DEF SameWord, EntryOf
      <3>2. CASE BlockOf(w) = b
        <4>1. ~dataset[p][b].promoted
          BY <1>1, <1>7, OpenReadStep, Good DEF LockInv
        <4> QED
          BY <1>1, <1>4, <1>7, <3>2, <4>1, OpenReadStep DEF SameWord, EntryOf
      <3> QED
        BY <3>1, <3>2
    <2> QED
      BY <1>5, <2>1
  <1>8. CASE open_write(p, b)
    <2>1. CASE BlockOf(w) # b \/ ~Opened(p, b)
      <3>1. SameWord(p, w)
        BY <1>1, <1>4, <1>8, <2>1, OpenWriteStep DEF SameWord, EntryOf
      <3> QED
        BY <1>5, <3>1
    <2>2. CASE BlockOf(w) = b /\ Opened(p, b)
      <3>1. pc'[p] \in {"open", "copy"} /\ op'[p].copying = op[p].copying
            /\ op'[p].kind = "PUT"
        BY <1>1, <1>8, <2>2, OpenedBlock, OpenWriteStep
      <3>2. /\ saved'[p][w] = mem[w] /\ mem'[w] = mem[w]
            /\ EntryOf(p, w).type \in {"NONE", "READ"} /\ EntryOf(p, w)'.type = "WRITE"
            /\ LATE_ACQUIRE /\ EntryOf(p, w).type = "READ" => EntryOf(p, w)'.promoted
        BY <1>1, <1>8, <2>2, <3>1, OpenWriteStep DEF EntryOf
      <3>3. LATE_ACQUIRE => w \in op[p].copying
        <4>1. PICK u \in op[p].copying : BlockOf(u) = b
          BY <1>1, <1>2 DEF AccessOK
        <4>2. u \in Word
          BY <1>1, <4>1, Typed DEF Op
        <4> QED
          BY <2>2, <4>1, <4>2 DEF ReadLockBuild
      <3> QED
        BY <1>2, <1>4, <3>1, <3>2, <3>3 DEF OpensWrite, Asked
    <2> QED
      BY <2>1, <2>2
  <1> QED
    BY <1>6, <1>7, <1>8

LEMMA CopyEffect ==
  ASSUME GoodInv, GoodInv', NEW p \in Proc, NEW u \in Word,
         copy_get(p, u) \/ copy_put(p, u), NEW w \in Word
  PROVE  Quiet(p, w) \/ ReadsWord(p, w) \/ WritesWord(p, w)
  <1>1. TypeOK /\ PlaceOK(p) /\ AccessOK(p) /\ op[p] \in Op /\ BlockOf(w) \in Block
    BY Good, Typed, BlockOfWord
  <1>2. /\ Copied(p, u) /\ pc[p] = "copy" /\ u \in op[p].copying
        /\ UNCHANGED <<dataset, dorVars, site>>
    BY DEF copy_get, copy_put, logVars
  <1>3. /\ pc'[p] \in {"copy", "run"}
        /\ Asked(p, w) /\ w # u => Asked(p, w)'
    BY <1>1, <1>2, CopiedWord DEF Asked
  <1>4. Live(p) /\ Live(p)' /\ ~Ending(p) /\ ~Ending(p)'
    BY <1>1, <1>2, <1>3 DEF PlaceOK, Live, Ending, Depth, dorVars
  <1>5. Held(p, BlockOf(u))
    BY <1>1, <1>2 DEF AccessOK
  <1>6. /\ rset \in [Proc -> [Word -> Val \cup {NoVal}]] /\ mem \in [Word -> Val]
        /\ wset \in [Proc -> [Word -> Val \cup {NoVal}]]
        /\ saved \in [Proc -> [Word -> Val]]
    BY <1>1, Typed
  <1>7. CASE copy_get(p, u)
    <2>1. /\ UNCHANGED <<saved, mem, wset>> /\ op[p].kind = "GET"
          /\ rset' = IF wset[p][u] = NoVal
                     THEN [rset EXCEPT ![p][u] = Visible(p, u)] ELSE rset
      BY <1>7 DEF copy_get, logVars, shared
    <2>2. SameWord(p, w)
      BY <1>2, <2>1 DEF SameWord, EntryOf
    <2>3. CASE u # w
      <3>1. SameView(p, w)
        BY <1>6, <2>1, <2>3 DEF SameView
      <3> QED
        BY <1>3, <1>4, <2>2, <2>3, <3>1 DEF Quiet
    <2>4. CASE u = w
      <3>1. rset'[p][w] = IF wset[p][w] = NoVal THEN Visible(p, w) ELSE rset[p][w]
        BY <1>6, <2>1, <2>4
      <3> QED
        BY <1>2, <1>3, <1>4, <1>5, <2>1, <2>2, <2>4, <3>1 DEF ReadsWord, Held, EntryOf
    <2> QED
      BY <2>3, <2>4
  <1>8. CASE copy_put(p, u)
    <2>1. /\ UNCHANGED rset /\ op[p].kind = "PUT" /\ op[p].val \in Val
          /\ wset' = [wset EXCEPT ![p][u] = op[p].val]
          /\ IF WRITE_BUFFERING
             THEN saved' = [saved EXCEPT ![p][u] = op[p].val] /\ UNCHANGED mem
             ELSE mem' = [mem EXCEPT ![u] = op[p].val] /\ UNCHANGED saved
      BY <1>1, <1>8 DEF copy_put, Op
    <2>2. CASE u # w
      <3>1. SameView(p, w) /\ SameWord(p, w)
        BY <1>2, <1>6, <2>1, <2>2 DEF SameView, SameWord, EntryOf
      <3> QED
        BY <1>3, <1>4, <2>2, <3>1 DEF Quiet
    <2>3. CASE u = w
      <3>1. /\ wset'[p][w] = op[p].val
            /\ saved'[p][w] = IF WRITE_BUFFERING THEN op[p].val ELSE saved[p][w]
            /\ mem'[w] = IF WRITE_BUFFERING THEN mem[w] ELSE op[p].val
        BY <1>6, <2>1, <2>3
      <3> QED
        BY <1>2, <1>3, <1>4, <1>5, <2>1, <2>3, <3>1 DEF WritesWord, Held, EntryOf
    <2> QED
      BY <2>2, <2>3
  <1> QED
    BY <1>7, <1>8

LEMMA EntryEffect ==
  ASSUME GoodInv, GoodInv', NEW p \in Proc, NEW b \in Block,
         \/ stm_acquire_entry(p, b) \/ stm_validate_entry(p, b) \/ stm_finish_entry(p, b),
         NEW w \in Word
  PROVE  Quiet(p, w) \/ FinishesWord(p, w)
  <1>1. TypeOK /\ BlockOf(w) \in Block /\ status[p] \in {"COMMIT", "ABORT"}
    BY Good, Typed, BlockOfWord
  <1>2. /\ dataset \in [Proc -> [Block -> Entry]] /\ dataset[p][b] \in Entry
        /\ saved \in [Proc -> [Word -> Val]] /\ mem \in [Word -> Val]
    BY <1>1, Typed
  <1>3. UNCHANGED <<pc, site, dorVars, rset, wset>>
    BY DEF stm_acquire_entry, stm_validate_entry, stm_finish_entry, viewVars
  <1>4. SameView(p, w) /\ Live(p)' = Live(p) /\ Ending(p)' = Ending(p)
    BY <1>3 DEF SameView, Live, Depth, dorVars, Ending
  <1>5. CASE stm_acquire_entry(p, b) \/ stm_validate_entry(p, b)
    <2>1. Asking(p) /\ UNCHANGED <<saved, mem>>
      BY <1>5 DEF stm_acquire_entry, stm_validate_entry, shared, logVars, Asking
    <2>2. ~Ending(p) /\ ~Asked(p, w)
      BY <2>1 DEF Asking, Ending, Asked
    <2> DEFINE e == [dataset[p][b] EXCEPT !.acquired = TRUE]
    <2>3. e.type = dataset[p][b].type /\ e.promoted = dataset[p][b].promoted
      BY <1>2 DEF Entry
    <2>4. UNCHANGED dataset \/ dataset' = [dataset EXCEPT ![p][b] = e]
      BY <1>2, <1>5 DEF stm_acquire_entry, stm_validate_entry, logVars
    <2> HIDE DEF e
    <2>5. SameWord(p, w)
      BY <1>1, <1>2, <2>1, <2>3, <2>4 DEF SameWord, EntryOf
    <2> QED
      BY <1>4, <2>2, <2>5 DEF Quiet
  <1>6. CASE stm_finish_entry(p, b)
    <2>1. Ending(p) /\ UNCHANGED status
      BY <1>6 DEF stm_finish_entry, EntriesAt, Finishing, Ending
    <2>2. /\ dataset' = [dataset EXCEPT ![p][b] = NoEntry]
          /\ saved' = [saved EXCEPT ![p] =
               [v \in Word |-> IF BlockOf(v) = b THEN InitVal ELSE @[v]]]
          /\ mem' = IF /\ dataset[p][b].type = "WRITE"
                       /\ status[p] = (IF WRITE_BUFFERING THEN "COMMIT" ELSE "ABORT")
                    THEN [v \in Word |-> IF BlockOf(v) = b THEN saved[p][v] ELSE mem[v]]
                    ELSE mem
      BY <1>6 DEF stm_finish_entry
    <2>3. CASE BlockOf(w) # b
      <3>1. SameWord(p, w)
        BY <1>1, <1>2, <2>2, <2>3 DEF SameWord, EntryOf
      <3> QED
        BY <1>4, <2>1, <3>1 DEF Quiet
    <2>4. CASE BlockOf(w) = b
      <3>1. EntryOf(p, w)'.type = "NONE"
        BY <1>2, <2>2, <2>4 DEF EntryOf, NoEntry
      <3>2. mem'[w] = IF /\ EntryOf(p, w).type = "WRITE"
                         /\ (status[p] = "COMMIT") <=> WRITE_BUFFERING
                      THEN saved[p][w] ELSE mem[w]
        BY <1>1, <2>2, <2>4, BuildAssumption DEF EntryOf
      <3> QED
        BY <1>4, <2>1, <3>1, <3>2 DEF FinishesWord
    <2> QED
      BY <2>3, <2>4
  <1> QED
    BY <1>5, <1>6

LEMMA StepEffect ==
  ASSUME ReadLockBuild, GoodInv, GoodInv', NEW p \in Proc, ClientStep(p) \/ StmStep(p),
         NEW w \in Word
  PROVE  Effect(p, w)
  <1>1. MoveStep(p) \/ InnerStep(p) \/ \E x, k, v : Access(p, x, k, v)
    BY StepCases DEF MoveStep, stm_get, stm_put
  <1> QED
    BY <1>1, MoveEffect, AccessEffect, OpenEffect, CopyEffect, EntryEffect
    DEF InnerStep, Effect

-----------------------------------------------------------------------------
(* The committed value of a word.  At most one transaction has the word    *)
(* pending, because a pending transaction has the write bit of the block.  *)

LEMMA PendingWriter ==
  ASSUME GoodInv, NEW p \in Proc, NEW w \in Word, p \in Pending(w)
  PROVE  p \in Writers(BlockOf(w))
  <1>1. /\ dataset[p][BlockOf(w)].type = "WRITE"
        /\ Committing(p) <=> WRITE_BUFFERING
        /\ BlockOf(w) \in Block
    BY BlockOfWord DEF Pending
  <1>2. LATE_ACQUIRE => dataset[p][BlockOf(w)].acquired
    BY <1>1, Good, BuildAssumption DEF AcquireOK, Committing, Ending
  <1> QED
    BY <1>1, <1>2 DEF Writers, WriteLocks

Alone(w) == \A p, q \in Pending(w) : p = q

LEMMA PendingAlone == ASSUME GoodInv, NEW w \in Word PROVE Alone(w)
  <1>1. \A p \in Pending(w) : p \in Writers(BlockOf(w))
    BY PendingWriter DEF Pending
  <1>2. Exclusive(Readers(BlockOf(w)), Writers(BlockOf(w)))
    BY BlockOfWord DEF GoodInv, NodeInv, LockInv, WriteExclusion
  <1> QED
    BY <1>1, <1>2 DEF Alone, Exclusive

LEMMA PendingAlonePrime == ASSUME GoodInv', NEW w \in Word PROVE Alone(w)'
  <1>1. ASSUME NEW p \in Pending(w)' PROVE p \in Writers(BlockOf(w))'
    <2>1. p \in Proc /\ dataset'[p][BlockOf(w)].type = "WRITE"
          /\ (Committing(p)' <=> WRITE_BUFFERING) /\ BlockOf(w) \in Block
      BY <1>1, BlockOfWord DEF Pending
    <2>2. AcquireOK(p)'
      BY <2>1 DEF GoodInv, AcquireInv
    <2>3. LATE_ACQUIRE => dataset'[p][BlockOf(w)].acquired
      BY <2>1, <2>2, BuildAssumption DEF AcquireOK, Committing, Ending
    <2> QED
      BY <2>1, <2>3 DEF Writers, WriteLocks
  <1>2. Exclusive(Readers(BlockOf(w)), Writers(BlockOf(w)))'
    BY BlockOfWord DEF GoodInv, NodeInv, LockInv, WriteExclusion
  <1> QED
    BY <1>1, <1>2 DEF Alone, Exclusive

LEMMA Chosen ==
  ASSUME NEW T, NEW q \in T, \A a, b \in T : a = b PROVE (CHOOSE a \in T : TRUE) = q
  <1>1. (CHOOSE a \in T : TRUE) \in T
    OBVIOUS
  <1> QED
    BY <1>1

LEMMA StoreCases ==
  ASSUME NEW w \in Word, Alone(w)
  PROVE  /\ Pending(w) = {} => Store[w] = mem[w]
         /\ \A q \in Pending(w) : Store[w] = saved[q][w]
  BY Chosen DEF Store, Alone

LEMMA StoreCasesPrime ==
  ASSUME NEW w \in Word, Alone(w)'
  PROVE  /\ Pending(w)' = {} => Store'[w] = mem'[w]
         /\ \A q \in Pending(w)' : Store'[w] = saved'[q][w]
  <1>1. Store' = [v \in Word |-> IF Pending(v)' = {} THEN mem'[v]
                                 ELSE saved'[CHOOSE q \in Pending(v)' : TRUE][v]]
    BY DEF Store
  <1>2. \A a, b \in Pending(w)' : a = b
    BY DEF Alone
  <1> QED
    BY <1>1, <1>2, Chosen

(* The value that p gives to w when it is pending, and memory otherwise,   *)
(* stay the same: so does the committed value.                             *)
LEMMA StoreSame ==
  ASSUME NEW p \in Proc, NEW w \in Word, Alone(w), Alone(w)',
         \A q \in Proc \ {p} : SameFor(q),
         (IF p \in Pending(w)' THEN saved'[p][w] ELSE mem'[w])
           = (IF p \in Pending(w) THEN saved[p][w] ELSE mem[w])
  PROVE  Store'[w] = Store[w]
  <1>1. \A q \in Proc \ {p} : (q \in Pending(w)' <=> q \in Pending(w))
                              /\ saved'[q][w] = saved[q][w]
    BY DEF SameFor, Pending, Committing
  <1>2. Pending(w) \subseteq Proc /\ Pending(w)' \subseteq Proc
    BY DEF Pending
  <1>3. CASE \E q \in Pending(w) : q # p
    <2>1. PICK q \in Pending(w) : q # p
      BY <1>3
    <2>2. q \in Pending(w)' /\ saved'[q][w] = saved[q][w]
      BY <1>1, <1>2, <2>1
    <2> QED
      BY <2>1, <2>2, StoreCases, StoreCasesPrime
  <1>4. CASE \A q \in Pending(w) : q = p
    <2>1. \A q \in Pending(w)' : q = p
      BY <1>1, <1>2, <1>4
    <2>2. Pending(w) = {} <=> p \notin Pending(w)
      BY <1>4
    <2>3. Pending(w)' = {} <=> p \notin Pending(w)'
      BY <2>1
    <2> QED
      BY <2>2, <2>3, StoreCases, StoreCasesPrime
  <1> QED
    BY <1>3, <1>4

-----------------------------------------------------------------------------
(* What holds of a word: what p has read of it is the committed value, and *)
(* kept in the data set; what p has written is what p sees; and what p has *)
(* opened for writing but not written yet is, in saved, the value of       *)
(* memory (an early acquire; with a late acquire the write is on its way). *)

NoView(p, w) == ~Live(p) => rset[p][w] = NoVal /\ wset[p][w] = NoVal

SeenCurrent(p, w) ==
  rset[p][w] # NoVal =>
    /\ rset[p][w] = Store[w]
    /\ EntryOf(p, w).type # "NONE"
    /\ LATE_ACQUIRE => EntryOf(p, w).type = "READ" \/ EntryOf(p, w).promoted

WrittenSeen(p, w) ==
  wset[p][w] # NoVal => EntryOf(p, w).type = "WRITE" /\ wset[p][w] = Visible(p, w)

UnwrittenSaved(p, w) ==
  EntryOf(p, w).type = "WRITE" /\ wset[p][w] = NoVal /\ ~Ending(p) =>
    IF LATE_ACQUIRE THEN Asked(p, w) ELSE saved[p][w] = mem[w]

ValueOK(p, w) ==
  NoView(p, w) /\ SeenCurrent(p, w) /\ WrittenSeen(p, w) /\ UnwrittenSaved(p, w)

ValueInv == \A p \in Proc, w \in Word : ValueOK(p, w)

(* A step changes the committed value of a word only when it decides that  *)
(* p commits, and p has written the word.                                  *)
Stored(p, w) ==
  Store'[w] = IF Decide(p) /\ status'[p] = "COMMIT" /\ wset[p][w] # NoVal
              THEN wset[p][w] ELSE Store[w]

LEMMA StoreStep ==
  ASSUME GoodInv, GoodInv', NEW p \in Proc, NEW w \in Word, ValueOK(p, w),
         \A q \in Proc \ {p} : SameFor(q), Effect(p, w), ReadLockBuild
  PROVE  Stored(p, w)
  <1> DEFINE Before == IF p \in Pending(w) THEN saved[p][w] ELSE mem[w]
             After == IF p \in Pending(w)' THEN saved'[p][w] ELSE mem'[w]
  <1>1. /\ p \in Pending(w) <=> EntryOf(p, w).type = "WRITE" /\ (Committing(p) <=> WRITE_BUFFERING)
        /\ p \in Pending(w)' <=> EntryOf(p, w)'.type = "WRITE" /\ (Committing(p)' <=> WRITE_BUFFERING)
        /\ Committing(p) <=> Ending(p) /\ status[p] = "COMMIT"
        /\ Committing(p)' <=> Ending(p)' /\ status'[p] = "COMMIT"
        /\ WRITE_BUFFERING \in BOOLEAN
    BY BuildAssumption DEF Pending, EntryOf, Committing, Ending
  <1>2. Alone(w) /\ Alone(w)'
    BY PendingAlone, PendingAlonePrime
  <1>3. ASSUME After = Before PROVE Store'[w] = Store[w]
    BY <1>2, <1>3, StoreSame
  <1>4. Decide(p) => pc'[p] = "finish_local" /\ ~Ending(p) /\ Ending(p)'
    BY DEF Decide, Ending
  <1> HIDE DEF Before, After
  <1>5. CASE Quiet(p, w)
    <2>1. After = Before
      BY <1>1, <1>5 DEF Quiet, SameWord, Before, After
    <2>2. ~Decide(p) \/ ~(status'[p] = "COMMIT") \/ wset[p][w] = NoVal
      BY <1>4, <1>5 DEF Quiet
    <2> QED
      BY <1>3, <2>1, <2>2 DEF Stored
  <1>6. CASE OpensWrite(p, w) \/ ReadsWord(p, w) \/ WritesWord(p, w) \/ FinishesWord(p, w)
    <2>1. ~Decide(p)
      BY <1>4, <1>6 DEF OpensWrite, ReadsWord, WritesWord, FinishesWord, Ending
    <2>2. After = Before
      <3>1. CASE OpensWrite(p, w)
        BY <1>1, <3>1 DEF OpensWrite, Before, After, Ending
      <3>2. CASE ReadsWord(p, w)
        BY <1>1, <3>2 DEF ReadsWord, SameWord, Before, After, Ending
      <3>3. CASE WritesWord(p, w)
        BY <1>1, <3>3 DEF WritesWord, Before, After, Ending
      <3>4. CASE FinishesWord(p, w)
        BY <1>1, <3>4 DEF FinishesWord, Before, After
      <3> QED
        BY <1>6, <3>1, <3>2, <3>3, <3>4
    <2> QED
      BY <1>3, <2>1, <2>2 DEF Stored
  <1>7. CASE DecidesWord(p, w)
    <2>1. /\ Decide(p) /\ ~Ending(p) /\ Ending(p)' /\ SameWord(p, w)
          /\ EntryOf(p, w)'.type = EntryOf(p, w).type
      BY <1>4, <1>7 DEF DecidesWord
    <2>2. saved'[p][w] = saved[p][w] /\ mem'[w] = mem[w]
      BY <2>1 DEF SameWord
    <2>3. CASE status'[p] # "COMMIT" \/ EntryOf(p, w).type # "WRITE"
      <3>1. After = Before
        BY <1>1, <2>1, <2>2, <2>3 DEF Before, After
      <3>2. status'[p] # "COMMIT" \/ wset[p][w] = NoVal
        BY <2>3 DEF ValueOK, WrittenSeen
      <3> QED
        BY <1>3, <3>1, <3>2 DEF Stored
    <2>4. CASE status'[p] = "COMMIT" /\ EntryOf(p, w).type = "WRITE"
      <3>1. CASE wset[p][w] = NoVal
        <4>1. ~Asked(p, w)
          BY <2>1, <2>4 DEF Decide, Asked, Asking
        <4>2. saved[p][w] = mem[w]
          BY <2>1, <2>4, <3>1, <4>1 DEF ValueOK, UnwrittenSaved
        <4>3. After = Before
          BY <2>2, <4>2 DEF Before, After
        <4> QED
          BY <1>3, <3>1, <4>3 DEF Stored
      <3>2. CASE wset[p][w] # NoVal
        <4>1. wset[p][w] = IF WRITE_BUFFERING THEN saved[p][w] ELSE mem[w]
          BY <2>4, <3>2 DEF ValueOK, WrittenSeen, Visible, EntryOf
        <4>2. Store'[w] = IF WRITE_BUFFERING THEN saved'[p][w] ELSE mem'[w]
          <5>1. CASE WRITE_BUFFERING
            BY <1>1, <1>2, <2>1, <2>4, <5>1, StoreCasesPrime
          <5>2. CASE ~WRITE_BUFFERING
            <6>1. p \in Pending(w) /\ p \notin Pending(w)'
              BY <1>1, <2>1, <2>4, <5>2
            <6>2. \A q \in Proc \ {p} : q \notin Pending(w)
              BY <1>2, <6>1 DEF Alone
            <6>3. \A q \in Proc \ {p} : q \notin Pending(w)'
              BY <6>2 DEF SameFor, Pending, Committing
            <6>4. Pending(w)' = {}
              BY <6>1, <6>3 DEF Pending
            <6> QED
              BY <1>2, <5>2, <6>4, StoreCasesPrime
          <5> QED
            BY <1>1, <5>1, <5>2
        <4> QED
          BY <2>1, <2>2, <2>4, <3>2, <4>1, <4>2 DEF Stored
      <3> QED
        BY <3>1, <3>2
    <2> QED
      BY <2>3, <2>4
  <1> QED
    BY <1>5, <1>6, <1>7 DEF Effect

(* Memory below a block that another transaction has opened for writing    *)
(* is not changed, unless writes are acquired late.                        *)
LEMMA MemHeld ==
  ASSUME GoodInv, NEW p \in Proc, NEW q \in Proc \ {p}, NEW w \in Word, Effect(p, w),
         ~LATE_ACQUIRE, EntryOf(q, w).type = "WRITE"
  PROVE  mem'[w] = mem[w]
  <1>1. Exclusive(Readers(BlockOf(w)), Writers(BlockOf(w)))
    BY BlockOfWord DEF GoodInv, NodeInv, LockInv, WriteExclusion
  <1>2. EntryOf(p, w).type # "WRITE"
    BY <1>1 DEF Exclusive, Writers, WriteLocks, EntryOf
  <1> QED
    BY <1>2 DEF Effect, Quiet, DecidesWord, SameWord, OpensWrite, ReadsWord, WritesWord,
                FinishesWord

(* A transaction that keeps a word it has read has a lock on the block, so *)
(* that no other one commits a write to it.                                *)
LEMMA ReadHeld ==
  ASSUME ReadLockBuild, GoodInv, GoodInv', NEW p \in Proc, NEW q \in Proc \ {p},
         NEW w \in Word, SameFor(q), Effect(p, w), ValueOK(p, w), ValueOK(q, w),
         rset[q][w] # NoVal, Stored(p, w)
  PROVE  Store'[w] = Store[w]
  <1> SUFFICES ASSUME Decide(p), status'[p] = "COMMIT", wset[p][w] # NoVal PROVE FALSE
    BY DEF Stored
  <1>1. BlockOf(w) \in Block /\ AcquireOK(p)' /\ Ending(p)' /\ ~Ending(p)
    BY BlockOfWord DEF GoodInv, AcquireInv, Decide, Ending
  <1>2. DecidesWord(p, w)
    BY <1>1 DEF Effect, Quiet, OpensWrite, ReadsWord, WritesWord, FinishesWord, Decide, Ending
  <1>3. EntryOf(p, w)'.type = "WRITE"
    BY <1>2 DEF DecidesWord, ValueOK, WrittenSeen
  <1>4. p \in Writers(BlockOf(w))'
    BY <1>1, <1>3 DEF AcquireOK, Writers, WriteLocks, EntryOf
  <1>5. /\ EntryOf(q, w).type # "NONE"
        /\ LATE_ACQUIRE => EntryOf(q, w).type = "READ" \/ EntryOf(q, w).promoted
        /\ EntryOf(q, w) \in Entry
    BY <1>1, Good, Typed DEF ValueOK, SeenCurrent, EntryOf
  <1>6. q \in Readers(BlockOf(w)) \cup Writers(BlockOf(w))
    BY <1>5, BuildAssumption
    DEF ReadLockBuild, Readers, Writers, ReadLocks, WriteLocks, EntryOf, Entry
  <1>7. q \in Readers(BlockOf(w))' \cup Writers(BlockOf(w))'
    BY <1>6 DEF SameFor, Readers, Writers, ReadLocks, WriteLocks
  <1>8. Exclusive(Readers(BlockOf(w)), Writers(BlockOf(w)))'
    BY <1>1 DEF GoodInv, NodeInv, LockInv, WriteExclusion
  <1> QED
    BY <1>4, <1>7, <1>8 DEF Exclusive

LEMMA ValueOthers ==
  ASSUME ReadLockBuild, GoodInv, GoodInv', NEW p \in Proc, NEW q \in Proc \ {p},
         NEW w \in Word, SameFor(q), Effect(p, w), ValueOK(p, w), ValueOK(q, w),
         Stored(p, w), site[q] \in Proc
  PROVE  ValueOK(q, w)'
  <1>1. /\ Live(q)' = Live(q) /\ EntryOf(q, w)' = EntryOf(q, w)
        /\ Ending(q)' = Ending(q) /\ Asked(q, w)' = Asked(q, w)
        /\ saved'[q][w] = saved[q][w]
        /\ rset'[q][w] = rset[q][w] /\ wset'[q][w] = wset[q][w]
    BY DEF SameFor, Live, Depth, EntryOf, Ending, Asked
  <1>2. NoView(q, w)'
    BY <1>1 DEF ValueOK, NoView
  <1>3. SeenCurrent(q, w)'
    BY <1>1, ReadHeld DEF ValueOK, SeenCurrent
  <1>4. EntryOf(q, w).type = "WRITE" /\ ~LATE_ACQUIRE => mem'[w] = mem[w]
    BY MemHeld
  <1>5. WrittenSeen(q, w)'
    BY <1>1, <1>4, BuildAssumption DEF ValueOK, WrittenSeen, Visible, EntryOf
  <1>6. UnwrittenSaved(q, w)'
    BY <1>1, <1>4 DEF ValueOK, UnwrittenSaved
  <1> QED
    BY <1>2, <1>3, <1>5, <1>6 DEF ValueOK

(* What a read finds is the committed value.                               *)
LEMMA ReadsStore ==
  ASSUME ReadLockBuild, GoodInv, NEW p \in Proc, NEW w \in Word, ValueOK(p, w),
         pc[p] = "copy", op[p].kind = "GET", EntryOf(p, w).type # "NONE",
         wset[p][w] = NoVal
  PROVE  Visible(p, w) = Store[w] /\ (LATE_ACQUIRE => EntryOf(p, w).type = "READ")
  <1>1. /\ BlockOf(w) \in Block /\ EntryOf(p, w) \in Entry
        /\ EntryOf(p, w).type # "NONE" /\ ~Ending(p) /\ ~Asked(p, w)
    BY BlockOfWord, Good, Typed DEF Ending, Asked, EntryOf
  <1>2. EntryOf(p, w).type = "READ" \/ (EntryOf(p, w).type = "WRITE" /\ ~LATE_ACQUIRE)
    BY <1>1 DEF Entry, ValueOK, UnwrittenSaved
  <1>3. Exclusive(Readers(BlockOf(w)), Writers(BlockOf(w)))
    BY <1>1 DEF GoodInv, NodeInv, LockInv, WriteExclusion
  <1>4. \A q \in Pending(w) : q \in Writers(BlockOf(w))
    BY PendingWriter DEF Pending
  <1>5. CASE EntryOf(p, w).type = "READ"
    <2>1. p \in Readers(BlockOf(w))
      BY <1>5 DEF Readers, ReadLocks, ReadLockBuild, EntryOf
    <2>2. Pending(w) = {}
      BY <1>3, <1>4, <2>1 DEF Exclusive
    <2> QED
      BY <1>5, <2>2, StoreCases, PendingAlone DEF Visible, EntryOf
  <1>6. CASE EntryOf(p, w).type = "WRITE" /\ ~LATE_ACQUIRE
    <2>1. saved[p][w] = mem[w]
      BY <1>1, <1>6 DEF ValueOK, UnwrittenSaved
    <2>2. p \in Writers(BlockOf(w))
      BY <1>6 DEF Writers, WriteLocks, EntryOf
    <2>3. \A q \in Pending(w) : q = p
      BY <1>3, <1>4, <2>2 DEF Exclusive
    <2> QED
      BY <1>6, <2>1, <2>3, StoreCases, PendingAlone DEF Visible
  <1> QED
    BY <1>2, <1>5, <1>6

LEMMA ValueOwn ==
  ASSUME ReadLockBuild, GoodInv, GoodInv', NEW p \in Proc, NEW w \in Word,
         Effect(p, w), ValueOK(p, w), Stored(p, w)
  PROVE  ValueOK(p, w)'
  <1>1. NoVal \notin Val /\ BlockOf(w) \in Block
    BY SystemAssumption, BlockOfWord
  <1>2. CASE DecidesWord(p, w)
    <2>1. rset'[p][w] = NoVal /\ wset'[p][w] = NoVal /\ Ending(p)'
      BY <1>2 DEF DecidesWord, Decide, Untouched, Ending
    <2> QED
      BY <2>1 DEF ValueOK, NoView, SeenCurrent, WrittenSeen, UnwrittenSaved
  <1>3. ASSUME ~DecidesWord(p, w) PROVE Store'[w] = Store[w]
    BY <1>3 DEF Stored, Effect, Quiet, OpensWrite, ReadsWord, WritesWord, FinishesWord,
                Decide, Ending
  <1>4. CASE Quiet(p, w) /\ ~DecidesWord(p, w)
    <2>1. SameWord(p, w) /\ SameView(p, w) /\ (Live(p) => Live(p)')
      BY <1>4 DEF Quiet
    <2>2. NoView(p, w)'
      BY <2>1 DEF ValueOK, NoView, SameView
    <2>3. SeenCurrent(p, w)'
      BY <1>3, <1>4, <2>1 DEF ValueOK, SeenCurrent, SameView, SameWord
    <2>4. WrittenSeen(p, w)'
      BY <2>1 DEF ValueOK, WrittenSeen, SameView, SameWord, Visible, EntryOf
    <2>5. UnwrittenSaved(p, w)'
      <3> SUFFICES ASSUME EntryOf(p, w)'.type = "WRITE", wset'[p][w] = NoVal, ~Ending(p)'
                   PROVE  IF LATE_ACQUIRE THEN Asked(p, w)' ELSE saved'[p][w] = mem'[w]
        BY DEF UnwrittenSaved
      <3>1. EntryOf(p, w).type = "WRITE" /\ wset[p][w] = NoVal
        BY <2>1 DEF SameWord, SameView
      <3>2. ~Ending(p) /\ (Asked(p, w) => Asked(p, w)')
        BY <1>4, <3>1 DEF Quiet
      <3> QED
        BY <2>1, <3>1, <3>2 DEF ValueOK, UnwrittenSaved, SameWord
    <2> QED
      BY <2>2, <2>3, <2>4, <2>5 DEF ValueOK
  <1>5. CASE OpensWrite(p, w) /\ ~DecidesWord(p, w)
    <2>1. /\ EntryOf(p, w)'.type = "WRITE" /\ Live(p)' /\ SameView(p, w)
          /\ EntryOf(p, w).type \in {"NONE", "READ"}
          /\ LATE_ACQUIRE /\ EntryOf(p, w).type = "READ" => EntryOf(p, w)'.promoted
          /\ LATE_ACQUIRE => Asked(p, w)'
          /\ saved'[p][w] = mem'[w]
      BY <1>5 DEF OpensWrite
    <2>2. wset'[p][w] = NoVal
      BY <2>1 DEF ValueOK, WrittenSeen, SameView
    <2>3. SeenCurrent(p, w)'
      BY <1>3, <1>5, <2>1 DEF ValueOK, SeenCurrent, SameView
    <2> QED
      BY <2>1, <2>2, <2>3 DEF ValueOK, NoView, WrittenSeen, UnwrittenSaved
  <1>6. CASE ReadsWord(p, w) /\ ~DecidesWord(p, w)
    <2>1. /\ SameWord(p, w) /\ Live(p)' /\ wset'[p][w] = wset[p][w]
          /\ EntryOf(p, w).type # "NONE" /\ EntryOf(p, w)'.type = EntryOf(p, w).type
          /\ ~Ending(p) /\ ~Asked(p, w)
          /\ rset'[p][w] = IF wset[p][w] = NoVal THEN Visible(p, w) ELSE rset[p][w]
      BY <1>6 DEF ReadsWord, SameWord, Ending, Asked
    <2>2. SeenCurrent(p, w)'
      <3>1. CASE wset[p][w] = NoVal
        BY <1>3, <1>6, <2>1, <3>1, ReadsStore DEF SeenCurrent, ReadsWord
      <3>2. CASE wset[p][w] # NoVal
        BY <1>3, <1>6, <2>1, <3>2 DEF SeenCurrent, ValueOK, SameWord
      <3> QED
        BY <3>1, <3>2
    <2>3. WrittenSeen(p, w)'
      BY <2>1 DEF ValueOK, WrittenSeen, SameWord, Visible, EntryOf
    <2>4. UnwrittenSaved(p, w)'
      BY <2>1 DEF ValueOK, UnwrittenSaved, SameWord
    <2> QED
      BY <2>1, <2>2, <2>3, <2>4 DEF ValueOK, NoView
  <1>7. CASE WritesWord(p, w) /\ ~DecidesWord(p, w)
    <2>1. /\ EntryOf(p, w)' = EntryOf(p, w) /\ EntryOf(p, w).type = "WRITE" /\ Live(p)'
          /\ wset'[p][w] # NoVal /\ rset'[p][w] = rset[p][w]
          /\ wset'[p][w] = IF WRITE_BUFFERING THEN saved'[p][w] ELSE mem'[w]
      BY <1>1, <1>7 DEF WritesWord
    <2>2. SeenCurrent(p, w)'
      BY <1>3, <1>7, <2>1 DEF ValueOK, SeenCurrent
    <2>3. WrittenSeen(p, w)'
      BY <2>1 DEF WrittenSeen, Visible, EntryOf
    <2> QED
      BY <2>1, <2>2, <2>3 DEF ValueOK, NoView, UnwrittenSaved
  <1>8. CASE FinishesWord(p, w) /\ ~DecidesWord(p, w)
    <2>1. /\ ~Live(p) /\ Ending(p)' /\ SameView(p, w)
      BY <1>8 DEF FinishesWord, Ending, Live
    <2>2. rset'[p][w] = NoVal /\ wset'[p][w] = NoVal
      BY <2>1 DEF ValueOK, NoView, SameView
    <2> QED
      BY <2>1, <2>2 DEF ValueOK, NoView, SeenCurrent, WrittenSeen, UnwrittenSaved
  <1> QED
    BY <1>2, <1>4, <1>5, <1>6, <1>7, <1>8 DEF Effect

LEMMA ValueNext ==
  ASSUME ReadLockBuild
  PROVE  GoodInv /\ GoodInv' /\ ValueInv /\ [Next]_vars => ValueInv'
  <1> SUFFICES ASSUME GoodInv, GoodInv', ValueInv, [Next]_vars,
                      NEW q \in Proc, NEW w \in Word
               PROVE  ValueOK(q, w)'
    BY DEF ValueInv
  <1>1. CASE UNCHANGED vars
    <2>1. ValueOK(q, w)
      BY DEF ValueInv
    <2>2. Store' = Store
      BY <1>1 DEF vars, Store, Pending, Committing
    <2> QED
      BY <1>1, <2>1, <2>2
      DEF vars, ValueOK, NoView, SeenCurrent, WrittenSeen, UnwrittenSaved, Live, Depth,
          EntryOf, Visible, Ending, Asked
  <1>2. ASSUME NEW p \in Client, ClientStep(p) \/ StmStep(p) PROVE ValueOK(q, w)'
    <2>1. p \in Proc /\ TypeOK /\ site[q] \in Proc
      BY SystemAssumption, Typed DEF GoodInv, NodeInv
    <2>2. Effect(p, w) /\ ValueOK(p, w) /\ ValueOK(q, w)
      BY <1>2, <2>1, StepEffect DEF ValueInv
    <2>3. \A r \in Proc \ {p} : SameFor(r)
      BY <1>2, <2>1, SameForOthers
    <2>4. Stored(p, w)
      BY <2>1, <2>2, <2>3, StoreStep
    <2> QED
      BY <2>1, <2>2, <2>3, <2>4, ValueOwn, ValueOthers
  <1> QED
    BY <1>1, <1>2 DEF Next

LEMMA ValueInit == Init => ValueInv
  <1> SUFFICES ASSUME Init, NEW p \in Proc, NEW w \in Word PROVE ValueOK(p, w)
    BY DEF ValueInv
  <1>1. BlockOf(w) \in Block
    BY BlockOfWord
  <1>2. rset[p][w] = NoVal /\ wset[p][w] = NoVal /\ EntryOf(p, w).type = "NONE"
    BY <1>1 DEF Init, Untouched, EntryOf, NoEntry
  <1> QED
    BY <1>2 DEF ValueOK, NoView, SeenCurrent, WrittenSeen, UnwrittenSaved

LEMMA ValueInvariant == ASSUME ReadLockBuild PROVE Spec => []ValueInv
  <1>1. Spec => []GoodInv
    BY GoodInvariant DEF ReadLockBuild
  <1>2. GoodInv /\ GoodInv' /\ ValueInv /\ [Next]_vars => ValueInv'
    BY ValueNext
  <1> QED
    BY <1>1, <1>2, ValueInit, PTL DEF Spec

-----------------------------------------------------------------------------
(* The theorems.                                                           *)

(* Every value a live transaction has read, in whichever order the nodes   *)
(* served it, is still the committed one: no transaction computes on an    *)
(* inconsistent snapshot (open_read takes a read lock, which open_write    *)
(* and stm_acquire_local respect).                                         *)
THEOREM SnapshotsCurrent == ASSUME ReadLockBuild PROVE Spec => []ReadsCurrent
  <1>1. ValueInv => ReadsCurrent
    BY DEF ValueInv, ValueOK, SeenCurrent, ReadsCurrent, LiveSet
  <1> QED
    BY <1>1, ValueInvariant, PTL

(* A live transaction finds its own writes where its reads look, in wb_data *)
(* or in memory.                                                           *)
THEOREM OwnWritesSeen == ASSUME ReadLockBuild PROVE Spec => []ReadYourWrites
  <1>1. ValueInv => ReadYourWrites
    BY DEF ValueInv, ValueOK, WrittenSeen, ReadYourWrites, LiveSet
  <1> QED
    BY <1>1, ValueInvariant, PTL

(* Only the decision ends the life of a transaction.                       *)
LEMMA LiveStep ==
  ASSUME GoodInv, GoodInv', NEW p \in Proc, ClientStep(p) \/ StmStep(p)
  PROVE  Decide(p) \/ (Live(p) => Live(p)')
  <1>1. TypeOK /\ PlaceOK(p) /\ PlaceOK(p)'
    BY Good DEF GoodInv, NodeInv, PlaceInv
  <1>2. CASE MoveStep(p)
    <2>1. CASE Move(p) /\ pc[p] = "run"
      BY <2>1 DEF Move, Live, Asking
    <2>2. CASE Move(p) /\ pc[p] # "run" /\ ~Ending(p)
      <3>1. ~Ending(p)' /\ pc'[p] # "run"
        BY <2>2 DEF Move, Asking, Ending
      <3> QED
        BY <1>1, <3>1, LiveInsidePrime
    <2>3. CASE Ending(p)
      BY <2>3 DEF Ending, Live
    <2> QED
      BY <1>1, <1>2, <2>1, <2>2, <2>3, MoveOrDecide
  <1>3. ASSUME NEW x, NEW k, NEW v, Access(p, x, k, v) PROVE Live(p)'
    <2>1. pc'[p] = "open"
      BY <1>1, <1>3, Typed DEF Access
    <2> QED
      BY <1>1, <2>1, LiveInsidePrime DEF Ending
  <1>4. ASSUME NEW b \in Block, open_held(p, b) \/ open_read(p, b) \/ open_write(p, b)
        PROVE  Live(p)'
    <2>1. pc'[p] \in {"open", "copy", "failed"}
      BY <1>1, <1>4, OpenHeldStep, OpenReadStep, OpenWriteStep, OpenedBlock
    <2> QED
      BY <1>1, <2>1, LiveInsidePrime DEF Ending
  <1>5. ASSUME NEW w \in Word, copy_get(p, w) \/ copy_put(p, w) PROVE Live(p)'
    <2>1. Copied(p, w) /\ pc[p] = "copy" /\ UNCHANGED <<dorVars, site>>
      BY <1>5 DEF copy_get, copy_put
    <2>2. pc'[p] \in {"copy", "run"} /\ Depth(p)' = Depth(p) /\ Depth(p) > 0
      BY <1>1, <2>1, CopiedWord DEF PlaceOK, Depth, dorVars
    <2> QED
      BY <2>2 DEF Live
  <1>6. ASSUME NEW b \in Block, \/ stm_acquire_entry(p, b) \/ stm_validate_entry(p, b)
                                \/ stm_finish_entry(p, b)
        PROVE  Live(p) => Live(p)'
    BY <1>6 DEF stm_acquire_entry, stm_validate_entry, stm_finish_entry, Live, Depth, dorVars
  <1> QED
    BY <1>2, <1>3, <1>4, <1>5, <1>6, StepCases DEF MoveStep, InnerStep, stm_get, stm_put

(* What a step that decides nothing does to the views of the clients.      *)
LEMMA ViewStep ==
  ASSUME GoodInv, NEW p \in Proc, ClientStep(p) \/ StmStep(p), ~Decide(p)
  PROVE  \/ UNCHANGED <<rset, wset>>
         \/ \E w \in Word : copy_get(p, w) \/ copy_put(p, w)
  <1>1. TypeOK
    BY DEF GoodInv, NodeInv
  <1>2. CASE MoveStep(p)
    BY <1>1, <1>2, MoveOrDecide DEF Move
  <1>3. ASSUME NEW x, NEW k, NEW v, Access(p, x, k, v) PROVE UNCHANGED <<rset, wset>>
    BY <1>3 DEF Access, viewVars
  <1>4. ASSUME NEW b \in Block, open_held(p, b) \/ open_read(p, b) \/ open_write(p, b)
        PROVE  UNCHANGED <<rset, wset>>
    BY <1>4 DEF open_held, open_read, open_write, viewVars
  <1>5. ASSUME NEW b \in Block, \/ stm_acquire_entry(p, b) \/ stm_validate_entry(p, b)
                                \/ stm_finish_entry(p, b)
        PROVE  UNCHANGED <<rset, wset>>
    BY <1>5 DEF stm_acquire_entry, stm_validate_entry, stm_finish_entry, viewVars
  <1> QED
    BY <1>2, <1>3, <1>4, <1>5, StepCases DEF MoveStep, InnerStep, stm_get, stm_put

LEMMA DecideLive ==
  ASSUME NEW p \in Proc, PlaceOK(p), Decide(p) PROVE Live(p)
  BY LiveInside DEF Decide, Live, Ending

(* Each step of the library is one step of AtomicTM, or none.              *)
LEMMA AtomicStep ==
  ASSUME ReadLockBuild, GoodInv, GoodInv', ValueInv,
         NEW p \in Proc, ClientStep(p) \/ StmStep(p)
  PROVE  [Atomic!Next]_(Atomic!vars)
  <1>1. /\ TypeOK /\ PlaceOK(p) /\ AccessOK(p)
        /\ rset \in [Proc -> [Word -> Val \cup {NoVal}]]
        /\ wset \in [Proc -> [Word -> Val \cup {NoVal}]]
    BY Good, Typed
  <1>2. /\ rset' \in [Proc -> [Word -> Val \cup {NoVal}]]
        /\ wset' \in [Proc -> [Word -> Val \cup {NoVal}]]
        /\ status' \in [Proc -> {"COMMIT", "ABORT"}]
    BY DEF GoodInv, NodeInv, TypeOK
  <1>3. \A q \in Proc \ {p} : SameFor(q)
    BY <1>1, SameForOthers
  <1>4. \A w \in Word : Stored(p, w)
    BY <1>3, StepEffect, StoreStep DEF ValueInv
  <1>5. \A q \in Proc \ {p} : Live(q)' <=> Live(q)
    <2>1. \A q \in Proc \ {p} : SameFor(q) /\ site[q] \in Proc
      BY <1>1, <1>3, Typed
    <2>2. \A q \in Proc \ {p} : pc'[q] = pc[q] /\ Depth(q)' = Depth(q)
      BY <2>1 DEF SameFor, Depth
    <2> QED
      BY <2>2 DEF Live
  <1>6. /\ Store = [w \in Word |-> Store[w]]
        /\ Store' = [w \in Word |-> Store'[w]]
    BY DEF Store
  <1>7. CASE Decide(p)
    <2>1. Live(p) /\ ~Live(p)'
      BY <1>1, <1>7, DecideLive DEF Decide, Live
    <2>2. p \in LiveSet /\ LiveSet' = LiveSet \ {p}
      BY <1>5, <2>1 DEF LiveSet
    <2>3. /\ rset' = [rset EXCEPT ![p] = Untouched]
          /\ wset' = [wset EXCEPT ![p] = Untouched]
      BY <1>1, <1>2, <1>7 DEF Decide
    <2>4. Atomic!End(p)
      BY <2>2, <2>3 DEF Atomic!End, Atomic!Untouched, Untouched
    <2>5. CASE status'[p] = "COMMIT"
      <3>1. Store' = [w \in Word |-> IF wset[p][w] = NoVal THEN Store[w] ELSE wset[p][w]]
        <4>1. \A w \in Word : Store'[w] = IF wset[p][w] = NoVal THEN Store[w] ELSE wset[p][w]
          BY <1>4, <1>7, <2>5 DEF Stored
        <4> QED
          BY <1>6, <4>1
      <3>2. \A w \in Word : rset[p][w] \in {NoVal, Store[w]}
        BY DEF ValueInv, ValueOK, SeenCurrent
      <3>3. Atomic!Commit(p)
        BY <2>4, <3>1, <3>2 DEF Atomic!Commit
      <3> QED
        BY <3>3 DEF Atomic!Next
    <2>6. CASE status'[p] # "COMMIT"
      <3>1. \A w \in Word : Store'[w] = Store[w]
        BY <1>4, <2>6 DEF Stored
      <3>2. Store' = Store
        BY <1>6, <3>1
      <3>3. Atomic!Abort(p)
        BY <2>4, <3>2 DEF Atomic!Abort
      <3> QED
        BY <3>3 DEF Atomic!Next
    <2> QED
      BY <2>5, <2>6
  <1>8. CASE ~Decide(p)
    <2>1. Store' = Store
      <3>1. \A w \in Word : Store'[w] = Store[w]
        BY <1>4, <1>8 DEF Stored
      <3> QED
        BY <1>6, <3>1
    <2>2. Live(p) => Live(p)'
      BY <1>8, LiveStep
    <2>3. CASE UNCHANGED <<rset, wset>>
      <3>1. CASE Live(p)' = Live(p)
        <4>1. LiveSet' = LiveSet
          BY <1>5, <3>1 DEF LiveSet
        <4> QED
          BY <2>1, <2>3, <4>1 DEF Atomic!vars
      <3>2. CASE Live(p)' /\ ~Live(p)
        <4>1. p \notin LiveSet /\ LiveSet' = LiveSet \cup {p}
          BY <1>5, <3>2 DEF LiveSet
        <4>2. Atomic!Begin(p)
          BY <2>1, <2>3, <4>1 DEF Atomic!Begin
        <4> QED
          BY <4>2 DEF Atomic!Next
      <3> QED
        BY <2>2, <3>1, <3>2 DEF Live
    <2>4. ASSUME NEW w \in Word, copy_get(p, w) \/ copy_put(p, w)
          PROVE  [Atomic!Next]_(Atomic!vars)
      <3>1. pc[p] = "copy" /\ w \in op[p].copying
        BY <2>4 DEF copy_get, copy_put
      <3>2. Live(p)
        BY <1>1, <3>1, LiveInside DEF Ending
      <3>3. p \in LiveSet /\ LiveSet' = LiveSet
        BY <1>5, <2>2, <3>2 DEF LiveSet
      <3>4. CASE copy_get(p, w) /\ wset[p][w] = NoVal
        <4>1. op[p].kind = "GET" /\ UNCHANGED wset
              /\ rset' = [rset EXCEPT ![p][w] = Visible(p, w)]
          BY <3>4 DEF copy_get
        <4>2. EntryOf(p, w).type # "NONE"
          BY <1>1, <3>1, <4>1 DEF AccessOK, Held, EntryOf
        <4>3. Visible(p, w) = Store[w]
          BY <3>1, <3>4, <4>1, <4>2, ReadsStore DEF ValueInv
        <4>4. Atomic!Read(p, w)
          BY <2>1, <3>3, <3>4, <4>1, <4>3 DEF Atomic!Read
        <4> QED
          BY <4>4 DEF Atomic!Next
      <3>5. CASE copy_get(p, w) /\ wset[p][w] # NoVal
        BY <2>1, <3>3, <3>5 DEF copy_get, Atomic!vars
      <3>6. CASE copy_put(p, w)
        <4>1. op[p].val \in Val /\ UNCHANGED rset
              /\ wset' = [wset EXCEPT ![p][w] = op[p].val]
          BY <1>1, <3>6, Typed DEF copy_put, Op
        <4>2. Atomic!Write(p, w, op[p].val)
          BY <2>1, <3>3, <4>1 DEF Atomic!Write
        <4> QED
          BY <4>1, <4>2 DEF Atomic!Next
      <3> QED
        BY <2>4, <3>4, <3>5, <3>6
    <2> QED
      BY <1>8, <2>3, <2>4, ViewStep
  <1> QED
    BY <1>7, <1>8

LEMMA AtomicStutter == ASSUME UNCHANGED vars PROVE UNCHANGED Atomic!vars
  BY DEF vars, Atomic!vars, Store, Pending, Committing, LiveSet, Live, Depth

LEMMA AtomicInit == Init => Atomic!Init
  <1> SUFFICES ASSUME Init PROVE Atomic!Init
    OBVIOUS
  <1>1. \A p \in Proc : ~Live(p)
    BY DEF Init, Live, Depth
  <1>2. \A w \in Word : Pending(w) = {}
    BY BlockOfWord DEF Init, Pending, NoEntry
  <1>3. Store = [w \in Word |-> InitVal]
    BY <1>2 DEF Init, Store
  <1> QED
    BY <1>1, <1>3 DEF Init, Atomic!Init, LiveSet, Untouched, Atomic!Untouched

(* Atomicity: every behaviour of the STM is one of AtomicTM.  Committed    *)
(* transactions take effect one at a time, each by all of its writes at    *)
(* the moment its finish begins, every read returns the value of that      *)
(* single store, and an aborted transaction leaves no trace in it, however *)
(* many processors, nodes, words and nested transactions there are.        *)
THEOREM StmAtomic == ASSUME ReadLockBuild PROVE Spec => AtomicSpec
  <1>1. GoodInv /\ GoodInv' /\ ValueInv /\ [Next]_vars => [Atomic!Next]_(Atomic!vars)
    <2> SUFFICES ASSUME GoodInv, GoodInv', ValueInv, [Next]_vars
                 PROVE  [Atomic!Next]_(Atomic!vars)
      OBVIOUS
    <2>1. CASE UNCHANGED vars
      BY <2>1, AtomicStutter
    <2>2. CASE Next
      <3>1. PICK p \in Client : ClientStep(p) \/ StmStep(p)
        BY <2>2 DEF Next
      <3> QED
        BY <3>1, AtomicStep, SystemAssumption
    <2> QED
      BY <2>1, <2>2
  <1>2. Spec => []GoodInv
    BY GoodInvariant DEF ReadLockBuild
  <1> QED
    BY <1>1, <1>2, ValueInvariant, AtomicInit, PTL DEF Spec, AtomicSpec, Atomic!Spec

(* Nobody else has the block: what p's own entry says of its word.         *)
LEMMA NoContender ==
  ASSUME ~READ_VERSIONING, TypeOK, LockInv, NEW p \in Proc, NEW b \in Block,
         \A q \in Proc \ {p} : dataset[q][b].type = "NONE",
         ~WriteLocks(dataset[p][b])
  PROVE  meta[b] = IF ReadLocks(dataset[p][b]) THEN 2 ELSE 0
  <1>1. \A q \in Proc \ {p} : ~ReadLocks(dataset[q][b]) /\ ~WriteLocks(dataset[q][b])
    BY DEF ReadLocks, WriteLocks
  <1>2. Writers(b) = {} /\ Readers(b) = IF ReadLocks(dataset[p][b]) THEN {p} ELSE {}
    BY <1>1 DEF Readers, Writers
  <1>3. meta[b] = 2 * Cardinality(Readers(b))
    BY <1>2 DEF LockInv, LockExact, Describes
  <1>4. Cardinality({p}) = 1
    BY FS_Singleton
  <1>5. Cardinality({}) = 0
    BY FS_EmptySet
  <1> QED
    BY <1>2, <1>3, <1>4, <1>5

(* The only way to fail is to meet the lock of another transaction: not    *)
(* even a reader that writes or promotes its block fails on its own lock.  *)
(* (With READ_VERSIONING who has changed the version may be gone.)         *)
THEOREM FailsOnConflict ==
  ASSUME ~READ_VERSIONING, ~NestedRemote PROVE Spec => OnlyConflictsAbort
  <1> DEFINE Contended(p, b) == \E q \in Proc \ {p} : dataset[q][b].type # "NONE"
             Justified(p) ==
               /\ pc[p] = "open" /\ pc'[p] = "failed" => \E b \in op[p].opening : Contended(p, b)
               /\ status[p] = "COMMIT" /\ status'[p] = "ABORT" /\ pc'[p] # "finish_local"
                    => \E b \in todo[p] : Contended(p, b)
  <1>1. GoodInv /\ [Next]_vars => [\A p \in Proc : Justified(p)]_vars
    <2> SUFFICES ASSUME GoodInv, Next, NEW q \in Proc PROVE Justified(q)
      OBVIOUS
    <2>1. PICK p \in Client : ClientStep(p) \/ StmStep(p)
      BY DEF Next
    <2>2. p \in Proc /\ TypeOK /\ LockInv
      BY SystemAssumption DEF GoodInv, NodeInv
    <2>3. CASE q # p
      <3>1. SameFor(q) /\ pc[q] \in PC
        BY <2>1, <2>2, <2>3, SameForOthers, Typed
      <3> QED
        BY <3>1 DEF SameFor
    <2>4. CASE q = p
      <3> DEFINE Failed == \/ pc[p] = "open" /\ pc'[p] = "failed"
                           \/ /\ status[p] = "COMMIT" /\ status'[p] = "ABORT"
                              /\ pc'[p] # "finish_local"
      <3>1. CASE MoveStep(p)
        <4>1. ~Failed
          <5>1. CASE Decide(p)
            BY <5>1 DEF Decide
          <5>2. CASE Move(p)
            <6>1. pc[p] # "open"
              BY <5>2 DEF Move, Asking
            <6>2. status'[p] = "ABORT" => status[p] = "ABORT" \/ pc'[p] = "finish_local"
              BY <2>2, <3>1, Typed
              DEF MoveStep, stm_start, stm_on, stm_on_reply, stm_commit, stm_abort,
                  stm_acquire, stm_validate, stm_finish_home, BeginRound, BeginFinish
            <6> QED
              BY <6>1, <6>2
          <5> QED
            BY <2>2, <3>1, <5>1, <5>2, MoveOrDecide
        <4> QED
          BY <2>4, <4>1
      <3>2. ASSUME NEW x, NEW k, NEW v, Access(p, x, k, v) PROVE ~Failed
        BY <3>2 DEF Access
      <3>3. ASSUME NEW w \in Word, copy_get(p, w) \/ copy_put(p, w) PROVE ~Failed
        BY <3>3 DEF copy_get, copy_put
      <3>4. ASSUME NEW b \in Block, stm_validate_entry(p, b) \/ stm_finish_entry(p, b)
            PROVE  ~Failed
        <4>1. ~stm_validate_entry(p, b)
          BY <2>2, Good DEF stm_validate_entry, AcquireOK
        <4> QED
          BY <3>4, <4>1 DEF stm_finish_entry, EntriesAt, Finishing
      <3>5. ASSUME NEW b \in Block, open_held(p, b) \/ open_read(p, b) \/ open_write(p, b)
            PROVE  Justified(p)
        <4>1. UNCHANGED status /\ b \in op[p].opening
          BY <2>2, <3>5, OpenHeldStep, OpenReadStep, OpenWriteStep
        <4> SUFFICES ASSUME pc'[p] = "failed", ~Contended(p, b) PROVE FALSE
          BY <4>1
        <4>2. \A r \in Proc \ {p} : dataset[r][b].type = "NONE"
          OBVIOUS
        <4>3. ~Opened(p, b)
          BY <2>2, OpenedBlock
        <4>4. /\ dataset[p][b].type \in {"NONE", "READ"}
              /\ \/ open_read(p, b) /\ test_write_bit(meta[b]) /\ dataset[p][b].type = "NONE"
                 \/ ~WriteGrantable(p, b)
          BY <2>2, <3>5, <4>3, OpenHeldStep, OpenReadStep, OpenWriteStep
        <4>5. meta[b] = IF dataset[p][b].type = "READ" THEN 2 ELSE 0
          BY <2>2, <4>2, <4>4, NoContender DEF WriteLocks, ReadLocks
        <4> QED
          BY <4>4, <4>5 DEF WriteGrantable, test_write_bit
      <3>6. ASSUME NEW b \in Block, stm_acquire_entry(p, b) PROVE Justified(p)
        <4>1. pc'[p] = pc[p] /\ pc[p] \in {"acquire_local", "acquire_remote"} /\ b \in todo[p]
          BY <3>6 DEF stm_acquire_entry
        <4>2. /\ dataset[p][b].type = "WRITE" /\ ~dataset[p][b].acquired /\ LATE_ACQUIRE
          BY <2>2, <4>1, Good DEF LockInv, AcquireOK
        <4> SUFFICES ASSUME status'[p] # status[p], ~Contended(p, b) PROVE FALSE
          BY <4>1
        <4>3. ~Acquirable(p, b)
          BY <3>6 DEF stm_acquire_entry
        <4>4. \A r \in Proc \ {p} : dataset[r][b].type = "NONE"
          OBVIOUS
        <4>5. meta[b] = IF dataset[p][b].promoted THEN 2 ELSE 0
          BY <2>2, <4>2, <4>4, NoContender DEF WriteLocks, ReadLocks
        <4>6. dataset[p][b].promoted \in BOOLEAN
          BY <2>2, Typed DEF Entry
        <4> QED
          BY <4>3, <4>5, <4>6 DEF Acquirable
      <3>7. ~Failed => Justified(p)
        OBVIOUS
      <3> HIDE DEF Failed, Justified
      <3> QED
        BY <2>1, <2>2, <2>4, <3>1, <3>2, <3>3, <3>4, <3>5, <3>6, <3>7, StepCases
        DEF MoveStep, InnerStep, stm_get, stm_put
    <2> QED
      BY <2>3, <2>4
  <1> QED
    BY <1>1, GoodInvariant, PTL DEF Spec, OnlyConflictsAbort

-----------------------------------------------------------------------------
(* The history of committed transactions.                                  *)

Record(p) == [reads |-> rset[p], writes |-> wset[p]]
Views == [Word -> Val \cup {NoVal}]

(* What w has after the transactions of history, in this order.            *)
Outcome(w, v) ==
  LET wrote == { j \in 1 .. Len(history) : history[j].writes[w] # NoVal } IN
  \/ wrote = {} /\ v = InitVal
  \/ \E j \in wrote : (\A k \in wrote : k <= j) /\ v = history[j].writes[w]

HistoryInv ==
  /\ history \in Seq([reads : Views, writes : Views])
  /\ \A w \in Word : Outcome(w, Store[w])
  /\ S!Explains(history)

(* The step that StmHistory records is the decision of the proofs above.   *)
LEMMA DecidedStep ==
  ASSUME GoodInv, NEW p \in Proc, ClientStep(p) \/ StmStep(p),
         pc[p] # "finish_local", pc'[p] = "finish_local"
  PROVE  Decide(p)
  <1>1. TypeOK /\ pc \in [Proc -> PC]
    BY Typed DEF GoodInv, NodeInv
  <1>2. CASE MoveStep(p)
    BY <1>1, <1>2, MoveOrDecide DEF Move
  <1>3. ASSUME NEW x, NEW k, NEW v, Access(p, x, k, v) PROVE FALSE
    BY <1>1, <1>3 DEF Access
  <1>4. ASSUME NEW b \in Block, open_held(p, b) \/ open_read(p, b) \/ open_write(p, b)
        PROVE  FALSE
    BY <1>1, <1>4, OpenHeldStep, OpenReadStep, OpenWriteStep, OpenedBlock
  <1>5. ASSUME NEW w \in Word, copy_get(p, w) \/ copy_put(p, w) PROVE FALSE
    <2>1. Copied(p, w) /\ pc[p] = "copy" /\ UNCHANGED <<dorVars, site>>
      BY <1>5 DEF copy_get, copy_put
    <2>2. pc'[p] \in {"copy", "run"}
      BY <1>1, <2>1, CopiedWord
    <2> QED
      BY <2>2
  <1>6. ASSUME NEW b \in Block, \/ stm_acquire_entry(p, b) \/ stm_validate_entry(p, b)
                                \/ stm_finish_entry(p, b)
        PROVE  FALSE
    BY <1>6 DEF stm_acquire_entry, stm_validate_entry, stm_finish_entry
  <1> QED
    BY <1>2, <1>3, <1>4, <1>5, <1>6, StepCases DEF MoveStep, InnerStep, stm_get, stm_put

(* What a commit does to the store it does to the history.                 *)
LEMMA HistoryCommit ==
  ASSUME HistoryInv, NEW p \in Proc, Record(p) \in [reads : Views, writes : Views],
         history' = Append(history, Record(p)),
         \A w \in Word : rset[p][w] \in {NoVal, Store[w]},
         \A w \in Word : Store'[w] = IF wset[p][w] # NoVal THEN wset[p][w] ELSE Store[w]
  PROVE  HistoryInv'
  <1> DEFINE n == Len(history)
             Wrote(w) == { j \in 1 .. n : history[j].writes[w] # NoVal }
  <1>1. n \in Nat /\ Len(history') = n + 1 /\ history'[n + 1] = Record(p)
        /\ \A j \in 1 .. n : history'[j] = history[j]
    BY DEF HistoryInv
  <1>2. history' \in Seq([reads : Views, writes : Views])
    BY DEF HistoryInv
  <1>3. /\ Record(p).reads = rset[p] /\ Record(p).writes = wset[p]
    BY DEF Record
  <1> HIDE DEF n
  <1>4. ASSUME NEW w \in Word PROVE Outcome(w, Store[w])'
    <2>1. CASE wset[p][w] # NoVal
      <3>1. n + 1 \in { j \in 1 .. n + 1 : history'[j].writes[w] # NoVal }
        BY <1>1, <1>3, <2>1
      <3>2. Store'[w] = history'[n + 1].writes[w]
        BY <1>1, <1>3, <2>1
      <3>3. \A j \in 1 .. n + 1 : j <= n + 1
        BY <1>1
      <3> QED
        BY <1>1, <3>1, <3>2, <3>3 DEF Outcome
    <2>2. CASE wset[p][w] = NoVal
      <3>1. Outcome(w, Store[w]) /\ Store'[w] = Store[w]
        BY <2>2 DEF HistoryInv
      <3>2. { j \in 1 .. n + 1 : history'[j].writes[w] # NoVal } = Wrote(w)
        BY <1>1, <1>3, <2>2
      <3>3. CASE Wrote(w) = {} /\ Store[w] = InitVal
        BY <1>1, <3>1, <3>2, <3>3 DEF Outcome
      <3>4. ASSUME NEW j \in Wrote(w), \A k \in Wrote(w) : k <= j,
                   Store[w] = history[j].writes[w]
            PROVE  Outcome(w, Store[w])'
        <4>1. history'[j] = history[j]
          BY <1>1
        <4> HIDE DEF Wrote
        <4> QED
          BY <1>1, <3>1, <3>2, <3>4, <4>1 DEF Outcome
      <3> QED
        BY <3>1, <3>3, <3>4 DEF Outcome, n
    <2> QED
      BY <2>1, <2>2
  <1>5. ASSUME NEW i \in 1 .. n + 1, NEW w \in Word, history'[i].reads[w] # NoVal
        PROVE  S!ReadsLast(history', i, w)
    <2>1. CASE i \in 1 .. n
      <3>1. S!ReadsLast(history, i, w) /\ history'[i] = history[i]
        BY <1>1, <1>5, <2>1 DEF HistoryInv, S!Explains, n
      <3>2. \A j \in 1 .. i - 1 : history'[j] = history[j]
        BY <1>1, <2>1
      <3>3. { j \in 1 .. i - 1 : history'[j].writes[w] # NoVal }
            = { j \in 1 .. i - 1 : history[j].writes[w] # NoVal }
        BY <3>2
      <3> QED
        BY <3>1, <3>2, <3>3 DEF S!ReadsLast
    <2>2. CASE i = n + 1
      <3>1. history'[i].reads[w] = Store[w] /\ Outcome(w, Store[w])
        BY <1>1, <1>3, <1>5, <2>2 DEF HistoryInv
      <3>2. { j \in 1 .. i - 1 : history'[j].writes[w] # NoVal } = Wrote(w)
        BY <1>1, <2>2
      <3>3. \A j \in Wrote(w) : history'[j] = history[j]
        BY <1>1
      <3>4. \/ Wrote(w) = {} /\ Store[w] = InitVal
            \/ \E j \in Wrote(w) : (\A k \in Wrote(w) : k <= j)
                                   /\ Store[w] = history[j].writes[w]
        BY <3>1 DEF Outcome, n
      <3> HIDE DEF Wrote
      <3> QED
        BY <3>1, <3>2, <3>3, <3>4 DEF S!ReadsLast
    <2> QED
      BY <1>1, <1>5, <2>1, <2>2
  <1> QED
    BY <1>1, <1>2, <1>4, <1>5 DEF HistoryInv, S!Explains

LEMMA HistoryQuiet ==
  ASSUME HistoryInv, history' = history, \A w \in Word : Store'[w] = Store[w]
  PROVE  HistoryInv'
  BY DEF HistoryInv, Outcome

LEMMA HistoryNext ==
  ASSUME ReadLockBuild, GoodInv, GoodInv', ValueInv, HistoryInv, [HNext]_<<vars, history>>
  PROVE  HistoryInv'
  <1>1. CASE UNCHANGED <<vars, history>>
    <2>1. Store' = Store
      BY <1>1 DEF vars, Store, Pending, Committing
    <2> QED
      BY <1>1, <2>1, HistoryQuiet
  <1>2. CASE HNext
    <2>1. PICK q \in Client : ClientStep(q) \/ StmStep(q)
      BY <1>2 DEF HNext, Next
    <2>2. q \in Proc /\ TypeOK /\ rset \in [Proc -> Views] /\ wset \in [Proc -> Views]
      BY <2>1, SystemAssumption, Typed DEF GoodInv, NodeInv, Views
    <2>3. \A r \in Proc \ {q} : SameFor(r)
      BY <2>1, <2>2, SameForOthers
    <2>4. \A w \in Word : Stored(q, w)
      BY <2>1, <2>2, <2>3, StepEffect, StoreStep DEF ValueInv
    <2>5. CASE Decides(q)
      <3>1. Decide(q) /\ status'[q] = "COMMIT"
        BY <2>1, <2>2, <2>5, DecidedStep DEF Decides
      <3>2. \A p \in Client : Decides(p) => p = q
        BY <2>3, SystemAssumption DEF Decides, SameFor
      <3>3. history' = Append(history, Record(q))
        BY <1>2, <2>5, <3>2 DEF HNext, Record
      <3>4. \A w \in Word : rset[q][w] \in {NoVal, Store[w]}
        BY <2>2 DEF ValueInv, ValueOK, SeenCurrent
      <3>5. \A w \in Word : Store'[w] = IF wset[q][w] # NoVal THEN wset[q][w] ELSE Store[w]
        BY <2>4, <3>1 DEF Stored
      <3>6. Record(q) \in [reads : Views, writes : Views]
        BY <2>2 DEF Record
      <3> QED
        BY <2>2, <3>3, <3>4, <3>5, <3>6, HistoryCommit
    <2>6. CASE ~Decides(q)
      <3>1. \A p \in Client : ~Decides(p)
        BY <2>3, <2>6, SystemAssumption DEF Decides, SameFor
      <3>2. history' = history
        BY <1>2, <3>1 DEF HNext
      <3>3. ~(Decide(q) /\ status'[q] = "COMMIT")
        BY <2>6 DEF Decide, Decides, Ending
      <3>4. \A w \in Word : Store'[w] = Store[w]
        BY <2>4, <3>3 DEF Stored
      <3> QED
        BY <3>2, <3>4, HistoryQuiet
    <2> QED
      BY <2>5, <2>6
  <1> QED
    BY <1>1, <1>2

LEMMA HistoryInit == HInit => HistoryInv
  <1> SUFFICES ASSUME HInit PROVE HistoryInv
    OBVIOUS
  <1>1. history = <<>> /\ Len(history) = 0 /\ 1 .. 0 = {}
    BY DEF HInit
  <1>2. \A w \in Word : Store[w] = InitVal
    <2>1. \A w \in Word : Pending(w) = {} /\ mem[w] = InitVal
      BY BlockOfWord DEF HInit, Init, Pending, NoEntry
    <2> QED
      BY <2>1 DEF Store
  <1> QED
    BY <1>1, <1>2 DEF HistoryInv, Outcome, S!Explains

(* The committed transactions of a build that locks what it reads are      *)
(* serializable, in the order in which they decided to commit, however     *)
(* many there are.  With a late acquire the hypothesis asks for one word   *)
(* per block: memcpy_wb copies whole blocks back, and with several words   *)
(* the property is false (run la_history).                                 *)
THEOREM CommitsSerializable == ASSUME ReadLockBuild PROVE HSpec => []Serializable
  <1>1. HInit => Init
    BY DEF HInit
  <1>2. [HNext]_<<vars, history>> => [Next]_vars
    BY DEF HNext
  <1>3. HSpec => Spec
    BY <1>1, <1>2, PTL DEF HSpec, Spec
  <1>4. Spec => []GoodInv
    BY GoodInvariant DEF ReadLockBuild
  <1>5. Spec => []ValueInv
    BY ValueInvariant
  <1>6. GoodInv /\ GoodInv' /\ ValueInv /\ HistoryInv /\ [HNext]_<<vars, history>>
        => HistoryInv'
    BY HistoryNext
  <1>7. HistoryInv => Serializable
    <2> SUFFICES ASSUME HistoryInv PROVE Serializable
      OBVIOUS
    <2> DEFINE f == [i \in 1 .. Len(history) |-> i]
    <2>1. Len(history) \in Nat
      BY DEF HistoryInv
    <2>2. f \in S!Orders(Len(history))
      BY DEF S!Orders
    <2>3. S!Reordered(history, f) = [i \in 1 .. Len(history) |-> history[i]]
      BY DEF S!Reordered
    <2>4. S!Reordered(history, f) = history
      BY <2>3 DEF HistoryInv
    <2> QED
      BY <2>2, <2>4 DEF HistoryInv, Serializable, S!SerializableHistory
  <1> QED
    BY <1>3, <1>4, <1>5, <1>6, <1>7, HistoryInit, PTL DEF HSpec
=============================================================================

------------------------- MODULE StmDistribProofs -------------------------
(***************************************************************************)
(* Theorems about StmDistrib, for every number of processors, every set of *)
(* words, every placement of blocks and every build.                       *)
(***************************************************************************)
EXTENDS StmDistribProps, FiniteSetTheorems, TLAPS

(* The bit operations stay within a metadata word.                         *)
LEMMA MetaOps ==
  ASSUME NEW m \in MetaWord
  PROVE  /\ set_write_bit(m) \in MetaWord
         /\ clear_write_bit(m) \in MetaWord
         /\ inc_readers(m) \in MetaWord
         /\ dec_readers(m) \in MetaWord
         /\ 0 \in MetaWord
         /\ \A p \in Proc : set_write_bit(2 * p) \in MetaWord
  BY SystemAssumption
  DEF MetaWord, Proc, set_write_bit, clear_write_bit, inc_readers,
      dec_readers, test_write_bit

LEMMA BlockOfWord == ASSUME NEW w \in Word PROVE BlockOf(w) \in Block
  BY DEF Block

LEMMA NoEntryType == NoEntry \in Entry /\ NoOp \in Op
  <1>1. 0 \in MetaWord
    BY SystemAssumption DEF MetaWord
  <1> QED
    BY <1>1 DEF NoEntry, Entry, NoOp, Op

LEMMA NodeType == ASSUME NEW b \in Block PROVE NodeOf[b] \in Proc
  BY SystemAssumption

LEMMA ReleasedType ==
  ASSUME NEW e \in Entry, NEW m \in MetaWord, NEW s
  PROVE  Released(e, m, s) \in MetaWord
  <1>1. clear_write_bit(m) \in MetaWord
    BY MetaOps
  <1> QED
    BY <1>1, MetaOps DEF Released

-----------------------------------------------------------------------------
(* Every variable keeps its type, in every build.                          *)

LEMMA TypeInit == Init => TypeOK
  <1>1. InitVal \in Val /\ 0 \in Proc /\ 0 \in MetaWord
    BY SystemAssumption DEF Proc, MetaWord
  <1> QED
    BY <1>1, NoEntryType, SystemAssumption
    DEF Init, TypeOK, Untouched, PC

LEMMA TypeStart == ASSUME TypeOK, NEW p \in Proc, stm_start(p) PROVE TypeOK'
  <1>1. site[p] \in Proc /\ Depth(p) \in 0 .. MaxDepth
    BY DEF TypeOK, Depth
  <1>2. Depth(p) + 1 \in 0 .. MaxDepth /\ 0 \in 0 .. MaxOps
    BY <1>1, SystemAssumption DEF stm_start
  <1>3. tx_depth' \in [Proc -> [Proc -> 0 .. MaxDepth]]
    BY <1>1, <1>2 DEF TypeOK, stm_start, Depth
  <1>4. tx_proc' \in [Proc -> [Proc -> Proc]]
    BY <1>1 DEF TypeOK, stm_start
  <1>5. nops' \in [Proc -> 0 .. MaxOps]
    BY <1>2 DEF TypeOK, stm_start
  <1> QED
    BY <1>3, <1>4, <1>5 DEF TypeOK, stm_start, shared, logVars, viewVars

LEMMA TypeOn ==
  ASSUME TypeOK, NEW p \in Proc, NEW q \in Proc, stm_on(p, q) PROVE TypeOK'
  <1>1. tx_depth' \in [Proc -> [Proc -> 0 .. MaxDepth]]
    BY DEF TypeOK, stm_on
  <1>2. tx_proc' \in [Proc -> [Proc -> Proc]]
    BY DEF TypeOK, stm_on
  <1>3. remote_procs' \in [Proc -> [Proc -> SUBSET Proc]]
    BY DEF TypeOK, stm_on
  <1> QED
    BY <1>1, <1>2, <1>3 DEF TypeOK, stm_on, shared, logVars, viewVars

LEMMA TypeOnReply ==
  ASSUME TypeOK, NEW p \in Proc, stm_on_reply(p) PROVE TypeOK'
  BY DEF TypeOK, stm_on_reply, shared, dorVars, logVars, viewVars

LEMMA TypeAccess ==
  ASSUME TypeOK, NEW p \in Proc, NEW x \in Extent, NEW kind \in {"GET", "PUT"},
         NEW v \in Val \cup {NoVal}, kind = "GET" => v = NoVal,
         kind = "PUT" => v # NoVal,
         Access(p, x, kind, v)
  PROVE  TypeOK'
  <1> DEFINE n == NodeOf[BlockOf(CHOOSE w \in x : TRUE)]
             o == [kind |-> kind, copying |-> x, val |-> v,
                   opening |-> { BlockOf(w) : w \in x }]
  <1>1. x \subseteq Word /\ x # {}
    BY SystemAssumption, ExtentAssumption
  <1>2. n \in Proc
    <2>1. (CHOOSE w \in x : TRUE) \in Word
      BY <1>1
    <2> QED
      BY <2>1, BlockOfWord, NodeType
  <1>3. o \in Op
    BY <1>1 DEF Op, Block
  <1> HIDE DEF n, o
  <1>4. /\ remote_procs' = IF n # site[p]
                           THEN [remote_procs EXCEPT ![site[p]][p] = @ \cup {n}]
                           ELSE remote_procs
        /\ op' = [op EXCEPT ![p] = o]
        /\ nops' = [nops EXCEPT ![p] = @ + 1]
        /\ nops[p] < MaxOps
    BY DEF Access, n, o
  <1>5. remote_procs' \in [Proc -> [Proc -> SUBSET Proc]]
    <2>1. /\ remote_procs \in [Proc -> [Proc -> SUBSET Proc]]
          /\ remote_procs[site[p]][p] \cup {n} \in SUBSET Proc
          /\ site[p] \in Proc
      BY <1>2 DEF TypeOK
    <2> QED
      BY <1>4, <2>1
  <1>6. nops' \in [Proc -> 0 .. MaxOps]
    BY <1>4, SystemAssumption DEF TypeOK
  <1>7. op' \in [Proc -> Op]
    BY <1>3, <1>4 DEF TypeOK
  <1> QED
    BY <1>5, <1>6, <1>7 DEF TypeOK, Access, PC, shared, logVars, viewVars

LEMMA TypeOpened ==
  ASSUME TypeOK, NEW p \in Proc, NEW b \in Block, Opened(p, b) \/ FailOpen(p)
  PROVE  op' \in [Proc -> Op] /\ pc' \in [Proc -> PC]
  <1>1. op \in [Proc -> Op] /\ pc \in [Proc -> PC] /\ op[p] \in Op
    BY DEF TypeOK
  <1>2. [op[p] EXCEPT !.opening = op[p].opening \ {b}] \in Op
    BY <1>1 DEF Op
  <1>3. "copy" \in PC /\ "open" \in PC /\ "failed" \in PC
    BY DEF PC
  <1>4. CASE Opened(p, b)
    BY <1>1, <1>2, <1>3, <1>4 DEF Opened
  <1>5. CASE FailOpen(p)
    BY <1>1, <1>3, <1>5, NoEntryType DEF FailOpen
  <1> QED
    BY <1>4, <1>5

LEMMA TypeHeld ==
  ASSUME TypeOK, NEW p \in Proc, NEW b \in Block, open_held(p, b) PROVE TypeOK'
  <1>1. op' \in [Proc -> Op] /\ pc' \in [Proc -> PC]
    BY TypeOpened DEF open_held
  <1> QED
    BY <1>1 DEF TypeOK, open_held, shared, dorVars, logVars, viewVars

LEMMA TypeOpenRead ==
  ASSUME TypeOK, NEW p \in Proc, NEW b \in Block, open_read(p, b) PROVE TypeOK'
  <1> DEFINE e == [NoEntry EXCEPT !.type = "READ",
                     !.old_version = IF READ_VERSIONING THEN meta[b] ELSE 0]
  <1>1. meta \in [Block -> MetaWord] /\ meta[b] \in MetaWord
    BY DEF TypeOK
  <1>2. dataset \in [Proc -> [Block -> Entry]]
    BY DEF TypeOK
  <1>3. e \in Entry
    BY <1>1, MetaOps DEF Entry, NoEntry
  <1>4. dataset' = dataset \/ dataset' = [dataset EXCEPT ![p][b] = e]
    BY DEF open_read
  <1> HIDE DEF e
  <1>5. dataset' \in [Proc -> [Block -> Entry]]
    BY <1>2, <1>3, <1>4
  <1>6. meta' = meta \/ meta' = [meta EXCEPT ![b] = inc_readers(meta[b])]
    BY DEF open_read
  <1>7. meta' \in [Block -> MetaWord]
    BY <1>1, <1>6, MetaOps
  <1>8. op' \in [Proc -> Op] /\ pc' \in [Proc -> PC]
    BY TypeOpened DEF open_read
  <1> QED
    BY <1>5, <1>7, <1>8 DEF TypeOK, open_read, dorVars, viewVars

LEMMA TypeOpenWrite ==
  ASSUME TypeOK, NEW p \in Proc, NEW b \in Block, open_write(p, b) PROVE TypeOK'
  <1> DEFINE e == IF LATE_ACQUIRE /\ dataset[p][b].type = "READ"
                  THEN [dataset[p][b] EXCEPT !.promoted = TRUE]
                  ELSE dataset[p][b]
             f == [e EXCEPT !.type = "WRITE"]
             g == [w \in Word |-> IF BlockOf(w) = b THEN mem[w] ELSE saved[p][w]]
  <1>1. /\ dataset[p][b] \in Entry
        /\ dataset \in [Proc -> [Block -> Entry]]
    BY DEF TypeOK
  <1>2. e \in Entry /\ f \in Entry
    BY <1>1 DEF Entry
  <1>3. dataset' = [dataset EXCEPT ![p][b] = f] \/ dataset' = [dataset EXCEPT ![p][b] = e]
    BY DEF open_write
  <1>4. saved' = saved \/ saved' = [saved EXCEPT ![p] = g]
    BY DEF open_write
  <1>5. saved \in [Proc -> [Word -> Val]] /\ g \in [Word -> Val]
    BY DEF TypeOK
  <1> HIDE DEF e, f, g
  <1>6. dataset' \in [Proc -> [Block -> Entry]]
    BY <1>1, <1>2, <1>3
  <1>7. saved' \in [Proc -> [Word -> Val]]
    BY <1>4, <1>5
  <1>8. \/ meta' = meta
        \/ meta' = [meta EXCEPT ![b] = set_write_bit(meta[b])]
        \/ meta' = [meta EXCEPT ![b] = set_write_bit(2 * p)]
    BY DEF open_write
  <1>9. meta \in [Block -> MetaWord] /\ meta[b] \in MetaWord
    BY DEF TypeOK
  <1>10. meta' \in [Block -> MetaWord]
    BY <1>8, <1>9, MetaOps
  <1>11. op' \in [Proc -> Op] /\ pc' \in [Proc -> PC]
    BY TypeOpened DEF open_write
  <1>12. UNCHANGED <<mem, dorVars, site, status, todo, viewVars, nops>>
    BY DEF open_write
  <1> QED
    BY <1>6, <1>7, <1>10, <1>11, <1>12 DEF TypeOK, dorVars, viewVars

LEMMA VisibleType ==
  ASSUME TypeOK, NEW p \in Proc, NEW w \in Word PROVE Visible(p, w) \in Val
  BY DEF TypeOK, Visible

LEMMA TypeCopied ==
  ASSUME TypeOK, NEW p \in Proc, NEW w \in Word, Copied(p, w)
  PROVE  op' \in [Proc -> Op] /\ pc' \in [Proc -> PC]
  <1>1. op \in [Proc -> Op] /\ pc \in [Proc -> PC] /\ op[p] \in Op
    BY DEF TypeOK
  <1>2. [op[p] EXCEPT !.copying = op[p].copying \ {w}] \in Op
    BY <1>1 DEF Op
  <1>3. "copy" \in PC /\ "run" \in PC
    BY DEF PC
  <1> QED
    BY <1>1, <1>2, <1>3, NoEntryType DEF Copied

LEMMA TypeCopyGet ==
  ASSUME TypeOK, NEW p \in Proc, NEW w \in Word, copy_get(p, w) PROVE TypeOK'
  <1>1. rset \in [Proc -> [Word -> Val \cup {NoVal}]]
    BY DEF TypeOK
  <1>2. rset' = rset \/ rset' = [rset EXCEPT ![p][w] = Visible(p, w)]
    BY DEF copy_get
  <1>3. rset' \in [Proc -> [Word -> Val \cup {NoVal}]]
    BY <1>1, <1>2, VisibleType
  <1>4. op' \in [Proc -> Op] /\ pc' \in [Proc -> PC]
    BY TypeCopied DEF copy_get
  <1> QED
    BY <1>3, <1>4 DEF TypeOK, copy_get, shared, dorVars, logVars

LEMMA TypeCopyPut ==
  ASSUME TypeOK, NEW p \in Proc, NEW w \in Word, copy_put(p, w) PROVE TypeOK'
  <1> DEFINE v == op[p].val
  <1>1. v \in Val
    <2>1. op[p] \in Op /\ op[p].kind = "PUT"
      BY DEF copy_put, TypeOK
    <2> QED
      BY <2>1 DEF Op
  <1>2. mem \in [Word -> Val] /\ saved \in [Proc -> [Word -> Val]]
        /\ wset \in [Proc -> [Word -> Val \cup {NoVal}]]
    BY DEF TypeOK
  <1>3. /\ mem' = mem \/ mem' = [mem EXCEPT ![w] = v]
        /\ saved' = saved \/ saved' = [saved EXCEPT ![p][w] = v]
        /\ wset' = [wset EXCEPT ![p][w] = v]
    BY DEF copy_put
  <1> HIDE DEF v
  <1>4. mem' \in [Word -> Val]
    BY <1>1, <1>2, <1>3
  <1>5. saved' \in [Proc -> [Word -> Val]]
    <2>1. CASE saved' = saved
      BY <1>2, <2>1
    <2>2. CASE saved' = [saved EXCEPT ![p][w] = v]
      <3>1. [saved[p] EXCEPT ![w] = v] \in [Word -> Val]
        BY <1>1, <1>2
      <3> QED
        BY <1>2, <2>2, <3>1
    <2> QED
      BY <1>3, <2>1, <2>2
  <1>6. wset' \in [Proc -> [Word -> Val \cup {NoVal}]]
    BY <1>1, <1>2, <1>3
  <1>7. op' \in [Proc -> Op] /\ pc' \in [Proc -> PC]
    BY TypeCopied DEF copy_put
  <1> QED
    BY <1>4, <1>5, <1>6, <1>7 DEF TypeOK, copy_put, dorVars

LEMMA TypeBeginFinish ==
  ASSUME TypeOK, NEW p \in Proc, NEW s \in {"COMMIT", "ABORT"}, BeginFinish(p, s)
  PROVE  /\ pc' \in [Proc -> PC]
         /\ status' \in [Proc -> {"COMMIT", "ABORT"}]
         /\ todo' \in [Proc -> SUBSET Block]
         /\ rset' \in [Proc -> [Word -> Val \cup {NoVal}]]
         /\ wset' \in [Proc -> [Word -> Val \cup {NoVal}]]
  <1>1. Untouched \in [Word -> Val \cup {NoVal}] /\ "finish_local" \in PC
    BY DEF Untouched, PC
  <1> QED
    BY <1>1 DEF TypeOK, BeginFinish

LEMMA TypeBeginRound ==
  ASSUME TypeOK, NEW p \in Proc, NEW round \in PC, NEW types, NEW nodes,
         BeginRound(p, round, types, nodes)
  PROVE  /\ pc' \in [Proc -> PC]
         /\ status' \in [Proc -> {"COMMIT", "ABORT"}]
         /\ todo' \in [Proc -> SUBSET Block]
         /\ rset' \in [Proc -> [Word -> Val \cup {NoVal}]]
         /\ wset' \in [Proc -> [Word -> Val \cup {NoVal}]]
  <1>1. EntriesAt(p, types, nodes) \in SUBSET Block
    BY DEF EntriesAt
  <1> QED
    BY <1>1 DEF TypeOK, BeginRound, viewVars

LEMMA TypeCommit == ASSUME TypeOK, NEW p \in Proc, stm_commit(p) PROVE TypeOK'
  <1>1. /\ site[p] \in Proc
        /\ tx_depth \in [Proc -> [Proc -> 0 .. MaxDepth]]
        /\ Depth(p) \in 0 .. MaxDepth
        /\ tx_depth[p][p] \in 0 .. MaxDepth
        /\ Depth(p) = tx_depth[site[p]][p]
    BY DEF TypeOK, Depth
  <1>2. Depth(p) > IF site[p] = p THEN 0 ELSE tx_depth[p][p]
    BY DEF stm_commit
  <1>3. Depth(p) - 1 \in 0 .. MaxDepth
    BY <1>1, <1>2, SystemAssumption
  <1>4. tx_depth' = [tx_depth EXCEPT ![site[p]][p] = Depth(p) - 1]
    BY DEF stm_commit, Depth
  <1>5. tx_depth' \in [Proc -> [Proc -> 0 .. MaxDepth]]
    BY <1>1, <1>3, <1>4
  <1>6. \/ UNCHANGED <<pc, status, todo, viewVars>>
        \/ BeginRound(p, "acquire_local", {"WRITE"}, {site[p]})
        \/ BeginRound(p, "validate_local", {"READ"}, {site[p]})
        \/ BeginFinish(p, "COMMIT")
    BY DEF stm_commit
  <1>7. "acquire_local" \in PC /\ "validate_local" \in PC
    BY DEF PC
  <1>8. /\ pc' \in [Proc -> PC]
        /\ status' \in [Proc -> {"COMMIT", "ABORT"}]
        /\ todo' \in [Proc -> SUBSET Block]
        /\ rset' \in [Proc -> [Word -> Val \cup {NoVal}]]
        /\ wset' \in [Proc -> [Word -> Val \cup {NoVal}]]
    <2>1. CASE UNCHANGED <<pc, status, todo, viewVars>>
      BY <2>1 DEF TypeOK, viewVars
    <2> QED
      BY <1>6, <1>7, <2>1, TypeBeginFinish, TypeBeginRound
  <1> QED
    BY <1>5, <1>8 DEF TypeOK, stm_commit, shared, logVars

LEMMA TypeAbort == ASSUME TypeOK, NEW p \in Proc, stm_abort(p) PROVE TypeOK'
  <1>1. CASE BeginFinish(p, "ABORT") /\ UNCHANGED site
    BY <1>1, TypeBeginFinish DEF TypeOK, stm_abort, shared, dorVars, logVars
  <1>2. CASE site' = [site EXCEPT ![p] = p] /\ UNCHANGED <<pc, status, todo, viewVars>>
    BY <1>2 DEF TypeOK, stm_abort, shared, dorVars, logVars, viewVars
  <1> QED
    BY <1>1, <1>2 DEF stm_abort

LEMMA TypeConflict ==
  ASSUME TypeOK, NEW p \in Proc, NEW b \in Block,
         \/ Conflict(p, b)
         \/ todo' = [todo EXCEPT ![p] = @ \ {b}] /\ UNCHANGED status
  PROVE  /\ status' \in [Proc -> {"COMMIT", "ABORT"}]
         /\ todo' \in [Proc -> SUBSET Block]
  <1>1. todo \in [Proc -> SUBSET Block] /\ todo[p] \in SUBSET Block
        /\ status \in [Proc -> {"COMMIT", "ABORT"}]
    BY DEF TypeOK
  <1>2. CASE Conflict(p, b)
    BY <1>1, <1>2 DEF Conflict
  <1>3. CASE todo' = [todo EXCEPT ![p] = @ \ {b}] /\ UNCHANGED status
    BY <1>1, <1>3
  <1> QED
    BY <1>2, <1>3

LEMMA TypeAcquireEntry ==
  ASSUME TypeOK, NEW p \in Proc, NEW b \in Block, stm_acquire_entry(p, b)
  PROVE  TypeOK'
  <1>1. meta \in [Block -> MetaWord] /\ meta[b] \in MetaWord
        /\ dataset \in [Proc -> [Block -> Entry]] /\ dataset[p][b] \in Entry
    BY DEF TypeOK
  <1>2. meta' = meta \/ meta' = [meta EXCEPT ![b] = set_write_bit(meta[b])]
    BY DEF stm_acquire_entry
  <1>3. meta' \in [Block -> MetaWord]
    BY <1>1, <1>2, MetaOps
  <1> DEFINE e == [dataset[p][b] EXCEPT !.acquired = TRUE]
  <1>4. dataset' = dataset \/ dataset' = [dataset EXCEPT ![p][b] = e]
    BY DEF stm_acquire_entry
  <1>5. e \in Entry
    BY <1>1 DEF Entry
  <1> HIDE DEF e
  <1>6. dataset' \in [Proc -> [Block -> Entry]]
    BY <1>1, <1>4, <1>5
  <1>7. /\ status' \in [Proc -> {"COMMIT", "ABORT"}]
        /\ todo' \in [Proc -> SUBSET Block]
    BY TypeConflict DEF stm_acquire_entry
  <1> QED
    BY <1>3, <1>6, <1>7 DEF TypeOK, stm_acquire_entry, dorVars, viewVars

LEMMA TypeValidateEntry ==
  ASSUME TypeOK, NEW p \in Proc, NEW b \in Block, stm_validate_entry(p, b)
  PROVE  TypeOK'
  <1>1. /\ status' \in [Proc -> {"COMMIT", "ABORT"}]
        /\ todo' \in [Proc -> SUBSET Block]
    BY TypeConflict DEF stm_validate_entry
  <1> QED
    BY <1>1 DEF TypeOK, stm_validate_entry, shared, dorVars, logVars, viewVars

LEMMA TypeRounds ==
  ASSUME TypeOK, NEW p \in Proc, stm_acquire(p) \/ stm_validate(p) PROVE TypeOK'
  <1>1. \/ BeginRound(p, "acquire_remote", {"WRITE"}, RemoteProcs(p))
        \/ BeginRound(p, "validate_remote", {"READ"}, RemoteProcs(p))
        \/ BeginFinish(p, status[p])
    BY DEF stm_acquire, stm_validate
  <1>2. /\ "acquire_remote" \in PC /\ "validate_remote" \in PC
        /\ status[p] \in {"COMMIT", "ABORT"}
    BY DEF PC, TypeOK
  <1>3. /\ pc' \in [Proc -> PC]
        /\ status' \in [Proc -> {"COMMIT", "ABORT"}]
        /\ todo' \in [Proc -> SUBSET Block]
        /\ rset' \in [Proc -> [Word -> Val \cup {NoVal}]]
        /\ wset' \in [Proc -> [Word -> Val \cup {NoVal}]]
    BY <1>1, <1>2, TypeBeginFinish, TypeBeginRound
  <1>4. UNCHANGED <<shared, dorVars, logVars, site, op, nops>>
    BY DEF stm_acquire, stm_validate
  <1> QED
    BY <1>3, <1>4 DEF TypeOK, shared, dorVars, logVars

LEMMA TypeFinishEntry ==
  ASSUME TypeOK, NEW p \in Proc, NEW b \in Block, stm_finish_entry(p, b)
  PROVE  TypeOK'
  <1>1. /\ meta \in [Block -> MetaWord] /\ meta[b] \in MetaWord
        /\ dataset \in [Proc -> [Block -> Entry]] /\ dataset[p][b] \in Entry
        /\ mem \in [Word -> Val] /\ saved \in [Proc -> [Word -> Val]]
        /\ saved[p] \in [Word -> Val]
    BY DEF TypeOK
  <1>2. meta' \in [Block -> MetaWord]
    <2>1. meta' = [meta EXCEPT ![b] = Released(dataset[p][b], meta[b], status[p])]
      BY DEF stm_finish_entry
    <2> QED
      BY <1>1, <2>1, ReleasedType
  <1>3. dataset' \in [Proc -> [Block -> Entry]]
    <2>1. dataset' = [dataset EXCEPT ![p][b] = NoEntry]
      BY DEF stm_finish_entry
    <2> QED
      BY <1>1, <2>1, NoEntryType
  <1>4. mem' \in [Word -> Val]
    <2>1. \/ mem' = mem
          \/ mem' = [w \in Word |-> IF BlockOf(w) = b THEN saved[p][w] ELSE mem[w]]
      BY DEF stm_finish_entry
    <2> QED
      BY <1>1, <2>1
  <1>5. saved' \in [Proc -> [Word -> Val]]
    <2>1. saved' = [saved EXCEPT ![p] =
            [w \in Word |-> IF BlockOf(w) = b THEN InitVal ELSE saved[p][w]]]
      BY DEF stm_finish_entry
    <2>2. [w \in Word |-> IF BlockOf(w) = b THEN InitVal ELSE saved[p][w]]
            \in [Word -> Val]
      BY <1>1, SystemAssumption
    <2> QED
      BY <1>1, <2>1, <2>2
  <1> QED
    BY <1>2, <1>3, <1>4, <1>5 DEF TypeOK, stm_finish_entry, dorVars, viewVars

LEMMA TypeFinishHome ==
  ASSUME TypeOK, NEW p \in Proc, stm_finish_home(p) PROVE TypeOK'
  <1>1. /\ site[p] \in Proc /\ 1 \in 0 .. MaxDepth /\ 0 \in 0 .. MaxOps
        /\ "finish_remote" \in PC /\ "run" \in PC
    BY SystemAssumption DEF TypeOK, PC
  <1>2. /\ pc \in [Proc -> PC] /\ remote_procs \in [Proc -> [Proc -> SUBSET Proc]]
        /\ tx_depth \in [Proc -> [Proc -> 0 .. MaxDepth]]
        /\ nops \in [Proc -> 0 .. MaxOps]
        /\ status \in [Proc -> {"COMMIT", "ABORT"}]
    BY DEF TypeOK
  <1>3. /\ pc' \in [Proc -> PC] /\ remote_procs' \in [Proc -> [Proc -> SUBSET Proc]]
        /\ tx_depth' \in [Proc -> [Proc -> 0 .. MaxDepth]]
        /\ nops' \in [Proc -> 0 .. MaxOps]
        /\ status' \in [Proc -> {"COMMIT", "ABORT"}]
    <2>1. CASE pc[p] = "finish_local"
      BY <1>1, <1>2, <2>1 DEF stm_finish_home
    <2>2. CASE pc[p] # "finish_local"
      <3>1. /\ pc' = [pc EXCEPT ![p] = "run"]
            /\ remote_procs' = [remote_procs EXCEPT ![site[p]][p] = {}]
            /\ tx_depth' = tx_depth \/ tx_depth' = [tx_depth EXCEPT ![site[p]][p] = 1]
            /\ nops' = [nops EXCEPT ![p] = 0]
            /\ status' = [status EXCEPT ![p] = "COMMIT"]
        BY <2>2 DEF stm_finish_home
      <3>2. tx_depth' \in [Proc -> [Proc -> 0 .. MaxDepth]]
        <4>1. [tx_depth[site[p]] EXCEPT ![p] = 1] \in [Proc -> 0 .. MaxDepth]
          BY <1>1, <1>2
        <4>2. CASE tx_depth' = [tx_depth EXCEPT ![site[p]][p] = 1]
          BY <1>1, <1>2, <4>1, <4>2
        <4> QED
          BY <1>2, <3>1, <4>2
      <3>3. remote_procs' \in [Proc -> [Proc -> SUBSET Proc]]
        BY <1>1, <1>2, <3>1
      <3> QED
        BY <1>1, <1>2, <3>1, <3>2, <3>3
    <2> QED
      BY <2>1, <2>2
  <1> QED
    BY <1>3 DEF TypeOK, stm_finish_home, shared, logVars, viewVars

THEOREM TypeInvariant == Spec => []TypeOK
  <1>1. TypeOK /\ [Next]_vars => TypeOK'
    <2> SUFFICES ASSUME TypeOK, [Next]_vars PROVE TypeOK'
      OBVIOUS
    <2>1. CASE UNCHANGED vars
      BY <2>1 DEF TypeOK, vars
    <2>2. ASSUME NEW p \in Client, ClientStep(p) PROVE TypeOK'
      <3>1. p \in Proc /\ OnNode \subseteq Proc
        BY SystemAssumption
      <3>2. ASSUME NEW x \in Extent, stm_get(p, x) PROVE TypeOK'
        BY <3>1, <3>2, TypeAccess DEF stm_get
      <3>3. ASSUME NEW x \in Extent, NEW v \in Val, stm_put(p, x, v) PROVE TypeOK'
        <4>1. v \in Val \cup {NoVal} /\ v # NoVal
          BY SystemAssumption
        <4> QED
          BY <3>1, <3>3, <4>1, TypeAccess DEF stm_put
      <3> QED
        BY <2>2, <3>1, <3>2, <3>3, TypeStart, TypeOn, TypeOnReply, TypeCommit
        DEF ClientStep
    <2>3. ASSUME NEW p \in Client, StmStep(p) PROVE TypeOK'
      <3>1. p \in Proc
        BY SystemAssumption
      <3> QED
        BY <2>3, <3>1, TypeHeld, TypeOpenRead, TypeOpenWrite, TypeCopyGet,
           TypeCopyPut, TypeAbort, TypeAcquireEntry, TypeValidateEntry,
           TypeFinishEntry, TypeRounds, TypeFinishHome
        DEF StmStep
    <2> QED
      BY <2>1, <2>2, <2>3 DEF Next
  <1> QED
    BY <1>1, TypeInit, PTL DEF Spec

-----------------------------------------------------------------------------
(* Locks.  LockOK(m, R, W) is what a metadata word m is to say of the      *)
(* readers R and the writers W of its block.  The lemmas about it speak of *)
(* words and sets only; HoldersChange ties them to a change of one entry.  *)

LockOK(m, R, W) == Describes(m, R, W) /\ Exclusive(R, W)

LEMMA ProcSets ==
  ASSUME NEW R \in SUBSET Proc
  PROVE  /\ IsFiniteSet(R)
         /\ Cardinality(R) \in Nat
         /\ Cardinality(R) <= NumProcs
         /\ Cardinality(R) = 0 <=> R = {}
  <1>1. IsFiniteSet(Proc) /\ Cardinality(Proc) = NumProcs
    BY FS_Interval, SystemAssumption DEF Proc
  <1>2. IsFiniteSet(R) /\ Cardinality(R) <= Cardinality(Proc)
    BY <1>1, FS_Subset
  <1> QED
    BY <1>1, <1>2, FS_CardinalityType, FS_EmptySet

(* A reader is added.                                                      *)
LEMMA AddReader ==
  ASSUME NEW m \in MetaWord, NEW R \in SUBSET Proc, NEW p \in Proc \ R,
         LockOK(m, R, {}), ~READ_VERSIONING
  PROVE  LockOK(inc_readers(m), R \cup {p}, {})
  <1>1. Cardinality(R \cup {p}) = Cardinality(R) + 1
    BY ProcSets, FS_AddElement
  <1>2. Cardinality(R) + 1 <= NumProcs
    BY <1>1, ProcSets
  <1>3. m = 2 * Cardinality(R) /\ Cardinality(R) \in Nat
    BY ProcSets DEF LockOK, Describes
  <1>4. inc_readers(m) = 2 * Cardinality(R \cup {p})
    BY <1>1, <1>2, <1>3, SystemAssumption DEF inc_readers
  <1>5. ~test_write_bit(inc_readers(m))
    BY <1>1, <1>3, <1>4 DEF test_write_bit
  <1> QED
    BY <1>4, <1>5 DEF LockOK, Describes, Exclusive

(* A reader leaves.                                                        *)
LEMMA RemoveReader ==
  ASSUME NEW m \in MetaWord, NEW R \in SUBSET Proc, NEW p \in R,
         LockOK(m, R, {}), ~READ_VERSIONING
  PROVE  LockOK(dec_readers(m), R \ {p}, {})
  <1>1. Cardinality(R \ {p}) = Cardinality(R) - 1
    BY ProcSets, FS_RemoveElement
  <1>2. m = 2 * Cardinality(R) /\ Cardinality(R) \in Nat /\ Cardinality(R) # 0
    BY ProcSets DEF LockOK, Describes
  <1>3. dec_readers(m) = 2 * Cardinality(R \ {p})
    BY <1>1, <1>2 DEF dec_readers
  <1>4. ~test_write_bit(dec_readers(m))
    BY <1>1, <1>2, <1>3 DEF test_write_bit
  <1> QED
    BY <1>3, <1>4 DEF LockOK, Describes, Exclusive

(* A word of 0 means no reader, a word of 2 one reader.                    *)
LEMMA SoleReader ==
  ASSUME NEW m \in MetaWord, NEW R \in SUBSET Proc, NEW W, LockOK(m, R, W),
         ~READ_VERSIONING
  PROVE  /\ m = 0 => R = {} /\ W = {}
         /\ m = 2 => W = {} /\ \A p \in R : R = {p}
  <1>1. m \in {0, 2} => W = {} /\ m = 2 * Cardinality(R)
    BY DEF LockOK, Describes, test_write_bit
  <1>2. ASSUME NEW p \in R, m = 2 PROVE R = {p}
    <2>1. Cardinality(R \ {p}) = 0
      BY <1>1, <1>2, ProcSets, FS_RemoveElement
    <2> QED
      BY <2>1, ProcSets
  <1> QED
    BY <1>1, <1>2, ProcSets

-----------------------------------------------------------------------------
(* From here on the state is that of StmDistrib.                           *)

BlockOK == \A b \in Block : LockOK(meta[b], Readers(b), Writers(b))

Marks ==
  \A p \in Proc, b \in Block :
    /\ dataset[p][b].acquired => dataset[p][b].type = "WRITE"
    /\ dataset[p][b].promoted => dataset[p][b].type # "NONE"

Rounds ==
  \A p \in Proc : pc[p] \in {"acquire_local", "acquire_remote"} =>
    LATE_ACQUIRE /\ \A b \in todo[p] : dataset[p][b].type = "WRITE"

LEMMA LockInvParts == LockInv <=> BlockOK /\ Marks /\ Rounds
  BY DEF LockInv, BlockOK, Marks, Rounds, LockOK, LockExact, WriteExclusion

(* Replacing p's entry for b puts p among the holders of b that the new    *)
(* entry says, and changes no other holder.                                *)
LEMMA HoldersChange ==
  ASSUME NEW p \in Proc, NEW b \in Block, NEW e,
         dataset \in [Proc -> [Block -> Entry]],
         dataset' = [dataset EXCEPT ![p][b] = e]
  PROVE  /\ Readers(b)' = IF ReadLocks(e) THEN Readers(b) \cup {p}
                                          ELSE Readers(b) \ {p}
         /\ Writers(b)' = IF WriteLocks(e) THEN Writers(b) \cup {p}
                                           ELSE Writers(b) \ {p}
         /\ \A c \in Block \ {b} : Readers(c)' = Readers(c) /\ Writers(c)' = Writers(c)
  <1>1. /\ dataset'[p][b] = e
        /\ \A q \in Proc \ {p} : dataset'[q] = dataset[q]
        /\ \A c \in Block \ {b} : dataset'[p][c] = dataset[p][c]
    OBVIOUS
  <1>2. \A q \in Proc, c \in Block :
          q # p \/ c # b => dataset'[q][c] = dataset[q][c]
    BY <1>1
  <1>3. /\ \A c \in Block : Readers(c)' = { q \in Proc : ReadLocks(dataset'[q][c]) }
        /\ \A c \in Block : Writers(c)' = { q \in Proc : WriteLocks(dataset'[q][c]) }
    BY DEF Readers, Writers, ReadLocks, WriteLocks
  <1> QED
    BY <1>1, <1>2, <1>3 DEF Readers, Writers

(* Only b's entry and word change, and to what describes b's holders.      *)
LEMMA BlockStep ==
  ASSUME BlockOK, NEW p \in Proc, NEW b \in Block, NEW e, NEW m,
         dataset \in [Proc -> [Block -> Entry]], meta \in [Block -> MetaWord],
         dataset' = [dataset EXCEPT ![p][b] = e],
         meta' = [meta EXCEPT ![b] = m],
         LockOK(m, IF ReadLocks(e) THEN Readers(b) \cup {p} ELSE Readers(b) \ {p},
                   IF WriteLocks(e) THEN Writers(b) \cup {p} ELSE Writers(b) \ {p})
  PROVE  BlockOK'
  <1>1. LockOK(meta'[b], Readers(b)', Writers(b)')
    BY HoldersChange
  <1>2. ASSUME NEW c \in Block \ {b} PROVE LockOK(meta'[c], Readers(c)', Writers(c)')
    <2>1. meta'[c] = meta[c] /\ Readers(c)' = Readers(c) /\ Writers(c)' = Writers(c)
      BY HoldersChange
    <2> QED
      BY <2>1 DEF BlockOK
  <1>3. BlockOK' <=> \A c \in Block : LockOK(meta'[c], Readers(c)', Writers(c)')
    BY DEF BlockOK, LockOK, Describes, Exclusive
  <1> QED
    BY <1>1, <1>2, <1>3

LEMMA BlockStutter == ASSUME BlockOK, UNCHANGED <<meta, dataset>> PROVE BlockOK'
  BY DEF BlockOK, LockOK, Describes, Exclusive, Readers, Writers, ReadLocks, WriteLocks

LEMMA Holding ==
  ASSUME NEW p \in Proc, NEW b \in Block
  PROVE  /\ p \in Readers(b) <=> ReadLocks(dataset[p][b])
         /\ p \in Writers(b) <=> WriteLocks(dataset[p][b])
         /\ Readers(b) \in SUBSET Proc /\ Writers(b) \in SUBSET Proc
         /\ READ_VERSIONING => Readers(b) = {}
  BY DEF Readers, Writers, ReadLocks

LEMMA LocksOpenRead ==
  ASSUME TypeOK, BlockOK, NEW p \in Proc, NEW b \in Block, open_read(p, b)
  PROVE  BlockOK'
  <1> DEFINE e == [NoEntry EXCEPT !.type = "READ",
                     !.old_version = IF READ_VERSIONING THEN meta[b] ELSE 0]
             m == IF READ_VERSIONING THEN meta[b] ELSE inc_readers(meta[b])
  <1>1. /\ dataset \in [Proc -> [Block -> Entry]] /\ dataset[p][b] \in Entry
        /\ meta \in [Block -> MetaWord] /\ meta[b] \in MetaWord
    BY DEF TypeOK
  <1>2. dataset[p][b].type \notin {"READ", "WRITE"}
    BY DEF open_read, Held
  <1>3. p \notin Readers(b) /\ p \notin Writers(b)
    BY <1>2, Holding DEF ReadLocks, WriteLocks
  <1>4. LockOK(meta[b], Readers(b), Writers(b))
    BY DEF BlockOK
  <1>5. CASE test_write_bit(meta[b])
    BY <1>5, BlockStutter DEF open_read
  <1>6. CASE ~test_write_bit(meta[b])
    <2>1. dataset' = [dataset EXCEPT ![p][b] = e]
      BY <1>6 DEF open_read
    <2>2. meta' = [meta EXCEPT ![b] = m]
      BY <1>1, <1>6 DEF open_read
    <2>3. (ReadLocks(e) <=> ~READ_VERSIONING) /\ ~WriteLocks(e)
      BY DEF ReadLocks, WriteLocks, NoEntry
    <2>4. Writers(b) = {}
      BY <1>4, <1>6 DEF LockOK, Describes
    <2>5. READ_VERSIONING => LockOK(m, Readers(b) \ {p}, Writers(b) \ {p})
      BY <1>3, <1>4, <2>4
    <2>6. ~READ_VERSIONING => LockOK(m, Readers(b) \cup {p}, Writers(b) \ {p})
      <3>1. ~READ_VERSIONING => LockOK(inc_readers(meta[b]), Readers(b) \cup {p}, {})
        BY <1>1, <1>3, <1>4, <2>4, AddReader, Holding
      <3> QED
        BY <2>4, <3>1
    <2> HIDE DEF e, m
    <2> QED
      BY <1>1, <2>1, <2>2, <2>3, <2>5, <2>6, BlockStep
  <1> QED
    BY <1>5, <1>6

LEMMA LocksOpenWrite ==
  ASSUME TypeOK, BlockOK, Marks, NEW p \in Proc, NEW b \in Block, open_write(p, b)
  PROVE  BlockOK'
  <1> DEFINE d == dataset[p][b]
             e == IF LATE_ACQUIRE /\ d.type = "READ"
                  THEN [d EXCEPT !.promoted = TRUE] ELSE d
             f == [e EXCEPT !.type = "WRITE"]
             m == IF LATE_ACQUIRE THEN meta[b]
                  ELSE IF READ_VERSIONING THEN set_write_bit(meta[b])
                                          ELSE set_write_bit(2 * p)
             R == Readers(b)
             W == Writers(b)
  <1>1. /\ dataset \in [Proc -> [Block -> Entry]] /\ d \in Entry
        /\ meta \in [Block -> MetaWord] /\ meta[b] \in MetaWord
    BY DEF TypeOK
  <1>2. d.type # "WRITE" /\ ~d.acquired /\ (d.type = "NONE" => ~d.promoted)
    BY DEF open_write, Held, Marks
  <1>3. (p \in R <=> ReadLocks(d)) /\ p \notin W
    BY <1>2, Holding DEF ReadLocks, WriteLocks
  <1>4. LockOK(meta[b], R, W)
    BY DEF BlockOK
  <1>5. d.type \in {"NONE", "READ"}
    BY <1>1, <1>2 DEF Entry
  <1>6. ReadLocks(e) <=> ReadLocks(d)
    BY <1>1, <1>2 DEF ReadLocks, Entry
  <1>7. ~WriteLocks(e)
    BY <1>1, <1>2 DEF WriteLocks, Entry
  <1>8. ReadLocks(f) <=> LATE_ACQUIRE /\ ReadLocks(d)
    BY <1>1, <1>2, <1>5, BuildAssumption DEF ReadLocks, Entry
  <1>9. WriteLocks(f) <=> ~LATE_ACQUIRE
    BY <1>1, <1>2 DEF WriteLocks, Entry
  <1>10. CASE ~WriteGrantable(p, b)
    <2>1. dataset' = [dataset EXCEPT ![p][b] = e] /\ meta' = [meta EXCEPT ![b] = meta[b]]
      BY <1>1, <1>10 DEF open_write
    <2>2. LockOK(meta[b], IF ReadLocks(e) THEN R \cup {p} ELSE R \ {p},
                          IF WriteLocks(e) THEN W \cup {p} ELSE W \ {p})
      <3>1. R = IF ReadLocks(e) THEN R \cup {p} ELSE R \ {p}
        BY <1>3, <1>6
      <3>2. W = IF WriteLocks(e) THEN W \cup {p} ELSE W \ {p}
        BY <1>3, <1>7
      <3> QED
        BY <1>4, <3>1, <3>2
    <2> HIDE DEF e
    <2> QED
      BY <1>1, <2>1, <2>2, BlockStep
  <1>11. CASE WriteGrantable(p, b)
    <2>1. dataset' = [dataset EXCEPT ![p][b] = f] /\ meta' = [meta EXCEPT ![b] = m]
      BY <1>1, <1>11 DEF open_write
    <2>2. CASE LATE_ACQUIRE
      <3>1. R = IF ReadLocks(f) THEN R \cup {p} ELSE R \ {p}
        BY <1>3, <1>8, <2>2
      <3>2. W = IF WriteLocks(f) THEN W \cup {p} ELSE W \ {p}
        BY <1>3, <1>9, <2>2
      <3>3. LockOK(m, IF ReadLocks(f) THEN R \cup {p} ELSE R \ {p},
                      IF WriteLocks(f) THEN W \cup {p} ELSE W \ {p})
        BY <1>4, <2>2, <3>1, <3>2
      <3> HIDE DEF f, m
      <3> QED
        BY <1>1, <2>1, <3>3, BlockStep
    <2>3. CASE ~LATE_ACQUIRE
      <3>1. W = {} /\ R \ {p} = {}
        <4>1. CASE READ_VERSIONING
          BY <1>4, <1>11, <2>3, <4>1, Holding DEF WriteGrantable, LockOK, Describes
        <4>2. CASE ~READ_VERSIONING
          <5>1. meta[b] = 0 \/ (meta[b] = 2 /\ d.type = "READ")
            BY <1>11, <2>3, <4>2 DEF WriteGrantable
          <5>2. d.type = "READ" => p \in R
            BY <1>3, <4>2 DEF ReadLocks
          <5>3. R \in SUBSET Proc
            BY Holding
          <5> HIDE DEF R, W
          <5>4. /\ meta[b] = 0 => R = {} /\ W = {}
                /\ meta[b] = 2 => W = {} /\ \A q \in R : R = {q}
            BY <1>1, <1>4, <4>2, <5>3, SoleReader
          <5> QED
            BY <5>1, <5>2, <5>4
        <4> QED
          BY <4>1, <4>2
      <3>2. test_write_bit(m) /\ (~READ_VERSIONING => m = 2 * p + 1)
        <4>1. meta[b] \in Nat /\ p \in Nat
          BY <1>1, SystemAssumption DEF MetaWord, Proc
        <4>2. set_write_bit(2 * p) = 2 * p + 1 /\ test_write_bit(2 * p + 1)
          BY <4>1 DEF set_write_bit, test_write_bit
        <4>3. test_write_bit(set_write_bit(meta[b]))
          BY <4>1 DEF set_write_bit, test_write_bit
        <4> QED
          BY <2>3, <4>2, <4>3
      <3>3. LockOK(m, {}, {p})
        <4> HIDE DEF m
        <4>1. Describes(m, {}, {p})
          BY <2>3, <3>2 DEF Describes
        <4> QED
          BY <4>1 DEF LockOK, Exclusive
      <3>4. LockOK(m, IF ReadLocks(f) THEN R \cup {p} ELSE R \ {p},
                      IF WriteLocks(f) THEN W \cup {p} ELSE W \ {p})
        BY <1>8, <1>9, <2>3, <3>1, <3>3
      <3> HIDE DEF f, m
      <3> QED
        BY <1>1, <2>1, <3>4, BlockStep
    <2> QED
      BY <2>2, <2>3
  <1> QED
    BY <1>10, <1>11

LEMMA LocksAcquire ==
  ASSUME TypeOK, BlockOK, Rounds, NEW p \in Proc, NEW b \in Block,
         stm_acquire_entry(p, b)
  PROVE  BlockOK'
  <1> DEFINE d == dataset[p][b]
             e == [d EXCEPT !.acquired = TRUE]
             m == set_write_bit(meta[b])
             R == Readers(b)
             W == Writers(b)
  <1>1. /\ dataset \in [Proc -> [Block -> Entry]] /\ d \in Entry
        /\ meta \in [Block -> MetaWord] /\ meta[b] \in MetaWord
    BY DEF TypeOK
  <1>2. LATE_ACQUIRE /\ d.type = "WRITE"
    BY DEF Rounds, stm_acquire_entry
  <1>3. LockOK(meta[b], R, W)
    BY DEF BlockOK
  <1>4. ~READ_VERSIONING
    BY <1>2, BuildAssumption
  <1>5. CASE ~Acquirable(p, b)
    BY <1>5, BlockStutter DEF stm_acquire_entry
  <1>6. CASE Acquirable(p, b)
    <2>1. dataset' = [dataset EXCEPT ![p][b] = e] /\ meta' = [meta EXCEPT ![b] = m]
      BY <1>6 DEF stm_acquire_entry
    <2>2. ~ReadLocks(e) /\ WriteLocks(e)
      BY <1>1, <1>2 DEF ReadLocks, WriteLocks, Entry
    <2>3. meta[b] = 0 \/ (meta[b] = 2 /\ d.promoted)
      BY <1>6 DEF Acquirable
    <2>4. R \in SUBSET Proc
      BY Holding
    <2>5. /\ meta[b] = 0 => R = {} /\ W = {}
          /\ meta[b] = 2 => W = {} /\ \A q \in R : R = {q}
      <3> HIDE DEF R, W
      <3> QED
        BY <1>1, <1>3, <1>4, <2>4, SoleReader
    <2>6. W = {}
      BY <2>3, <2>5
    <2>7. ~d.acquired
      <3>1. p \notin W
        BY <2>6
      <3> QED
        BY <1>2, <3>1, Holding DEF WriteLocks
    <2>8. d.promoted => p \in R
      BY <1>2, <1>4, <2>7, Holding DEF ReadLocks
    <2>9. R \ {p} = {}
      BY <2>3, <2>5, <2>8
    <2>10. m \in {1, 3} /\ test_write_bit(m)
      BY <2>3 DEF set_write_bit, test_write_bit
    <2>11. LockOK(m, {}, {p})
      <3> HIDE DEF m
      <3>1. Describes(m, {}, {p})
        BY <1>2, <2>10 DEF Describes
      <3> QED
        BY <3>1 DEF LockOK, Exclusive
    <2>12. LockOK(m, IF ReadLocks(e) THEN R \cup {p} ELSE R \ {p},
                     IF WriteLocks(e) THEN W \cup {p} ELSE W \ {p})
      BY <2>2, <2>6, <2>9, <2>11
    <2> HIDE DEF e, m
    <2> QED
      BY <1>1, <2>1, <2>12, BlockStep
  <1> QED
    BY <1>5, <1>6

LEMMA LocksFinishEntry ==
  ASSUME TypeOK, BlockOK, NEW p \in Proc, NEW b \in Block, stm_finish_entry(p, b)
  PROVE  BlockOK'
  <1> DEFINE d == dataset[p][b]
             m == Released(d, meta[b], status[p])
             R == Readers(b)
             W == Writers(b)
  <1>1. /\ dataset \in [Proc -> [Block -> Entry]] /\ d \in Entry
        /\ meta \in [Block -> MetaWord] /\ meta[b] \in MetaWord
    BY DEF TypeOK
  <1>2. dataset' = [dataset EXCEPT ![p][b] = NoEntry] /\ meta' = [meta EXCEPT ![b] = m]
    BY DEF stm_finish_entry
  <1>3. ~ReadLocks(NoEntry) /\ ~WriteLocks(NoEntry)
    BY DEF ReadLocks, WriteLocks, NoEntry
  <1>4. LockOK(meta[b], R, W) /\ d.type \in {"READ", "WRITE"}
    BY DEF BlockOK, stm_finish_entry, EntriesAt
  <1>5. /\ p \in R <=> ReadLocks(d)
        /\ p \in W <=> WriteLocks(d)
        /\ R \in SUBSET Proc /\ W \in SUBSET Proc
        /\ READ_VERSIONING => R = {}
    BY Holding
  <1>6. meta[b] \in Nat /\ WordMod \in Nat /\ WordMod % 2 = 0
    BY <1>1, SystemAssumption DEF MetaWord
  <1>7. LockOK(m, R \ {p}, W \ {p})
    <2>1. CASE ReadLocks(d)
      <3>1. m = dec_readers(meta[b])
        BY <1>4, <2>1, BuildAssumption DEF Released, ReadLocks
      <3>2. W = {}
        BY <1>4, <1>5, <2>1 DEF LockOK, Exclusive
      <3>3. LockOK(dec_readers(meta[b]), R \ {p}, {})
        BY <1>1, <1>4, <1>5, <2>1, <3>2, RemoveReader DEF ReadLocks
      <3> QED
        BY <3>1, <3>2, <3>3
    <2>2. CASE WriteLocks(d)
      <3>1. W = {p} /\ R = {}
        BY <1>4, <1>5, <2>2 DEF LockOK, Exclusive
      <3>2. test_write_bit(meta[b])
        BY <1>4, <3>1 DEF LockOK, Describes
      <3>3. CASE READ_VERSIONING
        <4>1. m \in {clear_write_bit(meta[b]), inc_readers(clear_write_bit(meta[b]))}
          BY <2>2, <3>3 DEF Released, WriteLocks
        <4>2. ~test_write_bit(m)
          BY <1>6, <3>2, <4>1 DEF clear_write_bit, inc_readers, test_write_bit
        <4> HIDE DEF m, R, W
        <4> QED
          BY <3>1, <3>3, <4>2, BuildAssumption DEF LockOK, Describes, Exclusive
      <3>4. CASE ~READ_VERSIONING
        <4>1. m = 0
          BY <2>2, <3>4 DEF Released, WriteLocks
        <4>2. ~test_write_bit(0) /\ Cardinality({}) = 0
          BY FS_EmptySet DEF test_write_bit
        <4> HIDE DEF m, R, W
        <4> QED
          BY <3>1, <4>1, <4>2 DEF LockOK, Describes, Exclusive
      <3> QED
        BY <3>3, <3>4
    <2>3. CASE ~ReadLocks(d) /\ ~WriteLocks(d)
      <3>1. R \ {p} = R /\ W \ {p} = W
        BY <1>5, <2>3
      <3>2. CASE d.type = "WRITE"
        <4>1. LATE_ACQUIRE /\ ~d.acquired /\ ~READ_VERSIONING /\ ~d.promoted
          BY <2>3, <3>2, BuildAssumption DEF ReadLocks, WriteLocks
        <4>2. m = meta[b]
          BY <3>2, <4>1 DEF Released
        <4> QED
          BY <1>4, <3>1, <4>2
      <3>3. CASE d.type = "READ"
        <4>1. READ_VERSIONING /\ ~LATE_ACQUIRE /\ R = {}
          BY <1>5, <2>3, <3>3, BuildAssumption DEF ReadLocks
        <4>2. m = dec_readers(meta[b])
          BY <3>3 DEF Released
        <4>3. test_write_bit(m) <=> test_write_bit(meta[b])
          BY <1>6, <4>2 DEF dec_readers, test_write_bit
        <4>4. LockOK(m, R, W)
          <5> HIDE DEF m, R, W
          <5> QED
            BY <1>4, <4>1, <4>3 DEF LockOK, Describes
        <4> QED
          BY <3>1, <4>4
      <3> QED
        BY <1>4, <3>2, <3>3
    <2> QED
      BY <2>1, <2>2, <2>3
  <1> HIDE DEF m
  <1> QED
    BY <1>1, <1>2, <1>3, <1>7, NoEntryType, BlockStep

LEMMA MarksStep ==
  ASSUME Marks, NEW p \in Proc, NEW b \in Block, NEW e,
         dataset \in [Proc -> [Block -> Entry]],
         dataset' = [dataset EXCEPT ![p][b] = e],
         e.acquired => e.type = "WRITE", e.promoted => e.type # "NONE"
  PROVE  Marks'
  <1> SUFFICES ASSUME NEW q \in Proc, NEW c \in Block
               PROVE  /\ dataset'[q][c].acquired => dataset'[q][c].type = "WRITE"
                      /\ dataset'[q][c].promoted => dataset'[q][c].type # "NONE"
    BY DEF Marks
  <1>1. CASE q = p /\ c = b
    <2>1. dataset'[q][c] = e
      BY <1>1
    <2> QED
      BY <2>1
  <1>2. CASE ~(q = p /\ c = b)
    <2>1. dataset'[q][c] = dataset[q][c]
      BY <1>2
    <2> QED
      BY <2>1 DEF Marks
  <1> QED
    BY <1>1, <1>2

(* What the four actions that touch the data set do to it.                 *)
LEMMA MarksOpen ==
  ASSUME TypeOK, Marks, NEW p \in Proc, NEW b \in Block,
         open_read(p, b) \/ open_write(p, b)
  PROVE  Marks'
  <1> DEFINE d == dataset[p][b]
             e == [NoEntry EXCEPT !.type = "READ",
                     !.old_version = IF READ_VERSIONING THEN meta[b] ELSE 0]
             f == IF LATE_ACQUIRE /\ d.type = "READ"
                  THEN [d EXCEPT !.promoted = TRUE] ELSE d
             g == [f EXCEPT !.type = "WRITE"]
  <1>1. dataset \in [Proc -> [Block -> Entry]] /\ d \in Entry
    BY DEF TypeOK
  <1>2. /\ d.acquired => d.type = "WRITE"
        /\ d.promoted => d.type # "NONE"
    BY DEF Marks
  <1>3. \/ UNCHANGED dataset
        \/ dataset' = [dataset EXCEPT ![p][b] = e]
        \/ dataset' = [dataset EXCEPT ![p][b] = f]
        \/ dataset' = [dataset EXCEPT ![p][b] = g]
    BY DEF open_read, open_write
  <1>4. /\ e.acquired => e.type = "WRITE"
        /\ e.promoted => e.type # "NONE"
    BY DEF NoEntry
  <1>5. /\ f.acquired => f.type = "WRITE"
        /\ f.promoted => f.type # "NONE"
    BY <1>1, <1>2 DEF Entry
  <1>6. g.type = "WRITE"
    BY <1>1 DEF Entry
  <1>7. CASE UNCHANGED dataset
    BY <1>7 DEF Marks
  <1> HIDE DEF d, e, f, g
  <1> QED
    BY <1>1, <1>3, <1>4, <1>5, <1>6, <1>7, MarksStep

LEMMA MarksFinish ==
  ASSUME TypeOK, Marks, Rounds, NEW p \in Proc, NEW b \in Block,
         stm_acquire_entry(p, b) \/ stm_finish_entry(p, b)
  PROVE  Marks'
  <1> DEFINE e == [dataset[p][b] EXCEPT !.acquired = TRUE]
  <1>1. dataset \in [Proc -> [Block -> Entry]] /\ dataset[p][b] \in Entry
    BY DEF TypeOK
  <1>2. \/ UNCHANGED dataset
        \/ dataset' = [dataset EXCEPT ![p][b] = e] /\ stm_acquire_entry(p, b)
        \/ dataset' = [dataset EXCEPT ![p][b] = NoEntry]
    BY DEF stm_acquire_entry, stm_finish_entry
  <1>3. stm_acquire_entry(p, b) => e.type = "WRITE"
    BY <1>1 DEF Rounds, stm_acquire_entry, Entry
  <1>4. ~NoEntry.acquired /\ ~NoEntry.promoted
    BY DEF NoEntry
  <1>5. CASE UNCHANGED dataset
    BY <1>5 DEF Marks
  <1> HIDE DEF e
  <1> QED
    BY <1>1, <1>2, <1>3, <1>4, <1>5, MarksStep

RoundAt(p) ==
  pc[p] \in {"acquire_local", "acquire_remote"} =>
    LATE_ACQUIRE /\ \A b \in todo[p] : dataset[p][b].type = "WRITE"

(* A step of p keeps Rounds if it leaves the other processors alone.       *)
LEMMA RoundsStep ==
  ASSUME Rounds, NEW p \in Proc, RoundAt(p)',
         \A q \in Proc \ {p} : /\ pc'[q] = pc[q] /\ todo'[q] = todo[q]
                                /\ dataset'[q] = dataset[q]
  PROVE  Rounds'
  <1> SUFFICES ASSUME NEW q \in Proc PROVE RoundAt(q)'
    BY DEF Rounds, RoundAt
  <1>1. CASE q = p
    BY <1>1
  <1>2. CASE q # p
    BY <1>2 DEF Rounds, RoundAt
  <1> QED
    BY <1>1, <1>2

LEMMA OthersKept ==
  ASSUME TypeOK, NEW p \in Proc, ClientStep(p) \/ StmStep(p)
  PROVE  \A q \in Proc \ {p} : /\ pc'[q] = pc[q] /\ todo'[q] = todo[q]
                                /\ dataset'[q] = dataset[q]
  <1>1. /\ pc \in [Proc -> PC] /\ todo \in [Proc -> SUBSET Block]
        /\ dataset \in [Proc -> [Block -> Entry]]
    BY DEF TypeOK
  <1>2. CASE ClientStep(p)
    BY <1>1, <1>2
    DEF ClientStep, stm_start, stm_on, stm_on_reply, stm_get, stm_put, Access,
        stm_commit, BeginRound, BeginFinish, logVars
  <1>3. ASSUME NEW b \in Block, open_held(p, b) \/ open_read(p, b) \/ open_write(p, b)
        PROVE  \A q \in Proc \ {p} : /\ pc'[q] = pc[q] /\ todo'[q] = todo[q]
                                      /\ dataset'[q] = dataset[q]
    BY <1>1, <1>3 DEF open_held, open_read, open_write, Opened, FailOpen, logVars
  <1>4. ASSUME NEW w \in Word, copy_get(p, w) \/ copy_put(p, w)
        PROVE  \A q \in Proc \ {p} : /\ pc'[q] = pc[q] /\ todo'[q] = todo[q]
                                      /\ dataset'[q] = dataset[q]
    BY <1>1, <1>4 DEF copy_get, copy_put, Copied, logVars
  <1>5. ASSUME NEW b \in Block, \/ stm_acquire_entry(p, b) \/ stm_validate_entry(p, b)
                                \/ stm_finish_entry(p, b)
        PROVE  \A q \in Proc \ {p} : /\ pc'[q] = pc[q] /\ todo'[q] = todo[q]
                                      /\ dataset'[q] = dataset[q]
    BY <1>1, <1>5
    DEF stm_acquire_entry, stm_validate_entry, stm_finish_entry, Conflict, logVars
  <1>6. CASE stm_abort(p) \/ stm_acquire(p) \/ stm_validate(p) \/ stm_finish_home(p)
    BY <1>1, <1>6
    DEF stm_abort, stm_acquire, stm_validate, stm_finish_home, BeginRound,
        BeginFinish, logVars
  <1>7. CASE StmStep(p)
    BY <1>3, <1>4, <1>5, <1>6, <1>7 DEF StmStep
  <1> QED
    BY <1>2, <1>7

(* The rounds of an acquire start with the entries open for writing, and   *)
(* every other step of p leaves p outside them.                            *)
LEMMA RoundsBegin ==
  ASSUME TypeOK, NEW p \in Proc, NEW round \in PC, NEW nodes, LATE_ACQUIRE,
         BeginRound(p, round, {"WRITE"}, nodes), UNCHANGED dataset
  PROVE  RoundAt(p)'
  <1>1. todo'[p] = EntriesAt(p, {"WRITE"}, nodes)
    BY DEF BeginRound, TypeOK
  <1>2. \A b \in todo'[p] : dataset'[p][b].type = "WRITE"
    BY <1>1 DEF EntriesAt
  <1> QED
    BY <1>2 DEF RoundAt

LEMMA RoundsClient ==
  ASSUME TypeOK, NEW p \in Proc, ClientStep(p) PROVE RoundAt(p)'
  <1>1. pc \in [Proc -> PC]
    BY DEF TypeOK
  <1>2. CASE stm_commit(p)
    <2>1. pc[p] = "run" /\ UNCHANGED dataset /\ "acquire_local" \in PC
      BY <1>2 DEF stm_commit, logVars, PC
    <2>2. \/ UNCHANGED pc
          \/ LATE_ACQUIRE /\ BeginRound(p, "acquire_local", {"WRITE"}, {site[p]})
          \/ BeginRound(p, "validate_local", {"READ"}, {site[p]})
          \/ BeginFinish(p, "COMMIT")
      BY <1>2 DEF stm_commit
    <2>3. CASE LATE_ACQUIRE /\ BeginRound(p, "acquire_local", {"WRITE"}, {site[p]})
      BY <2>1, <2>3, RoundsBegin
    <2>4. CASE \/ UNCHANGED pc
               \/ BeginRound(p, "validate_local", {"READ"}, {site[p]})
               \/ BeginFinish(p, "COMMIT")
      BY <1>1, <2>1, <2>4 DEF RoundAt, BeginRound, BeginFinish
    <2> QED
      BY <2>2, <2>3, <2>4
  <1>3. CASE ~stm_commit(p)
    <2>1. pc'[p] \in {"run", "open"}
      BY <1>1, <1>3
      DEF ClientStep, stm_start, stm_on, stm_on_reply, stm_get, stm_put, Access
    <2> QED
      BY <2>1 DEF RoundAt
  <1> QED
    BY <1>2, <1>3

LEMMA RoundsStm ==
  ASSUME TypeOK, Rounds, NEW p \in Proc, StmStep(p) PROVE RoundAt(p)'
  <1>1. /\ pc \in [Proc -> PC] /\ todo \in [Proc -> SUBSET Block]
        /\ dataset \in [Proc -> [Block -> Entry]] /\ dataset[p] \in [Block -> Entry]
    BY DEF TypeOK
  <1>2. ASSUME NEW b \in Block, \/ open_held(p, b) \/ open_read(p, b)
                                \/ open_write(p, b)
        PROVE  RoundAt(p)'
    BY <1>1, <1>2 DEF open_held, open_read, open_write, Opened, FailOpen, RoundAt
  <1>3. ASSUME NEW w \in Word, copy_get(p, w) \/ copy_put(p, w) PROVE RoundAt(p)'
    BY <1>1, <1>3 DEF copy_get, copy_put, Copied, RoundAt
  <1>4. ASSUME NEW b \in Block, stm_validate_entry(p, b) \/ stm_finish_entry(p, b)
        PROVE  RoundAt(p)'
    <2>1. pc'[p] \notin {"acquire_local", "acquire_remote"}
      BY <1>4 DEF stm_validate_entry, stm_finish_entry, EntriesAt, Finishing
    <2> QED
      BY <2>1 DEF RoundAt
  <1>5. ASSUME NEW b \in Block, stm_acquire_entry(p, b) PROVE RoundAt(p)'
    <2>1. LATE_ACQUIRE /\ \A c \in todo[p] : dataset[p][c].type = "WRITE"
      BY <1>5 DEF Rounds, stm_acquire_entry
    <2>2. todo'[p] \in SUBSET todo[p]
      BY <1>1, <1>5 DEF stm_acquire_entry, Conflict
    <2>3. ASSUME NEW c \in Block PROVE dataset'[p][c].type = dataset[p][c].type
      <3>1. CASE UNCHANGED dataset
        BY <3>1
      <3>2. CASE dataset' = [dataset EXCEPT ![p][b].acquired = TRUE]
        <4>1. CASE c = b
          BY <1>1, <3>2, <4>1 DEF Entry
        <4>2. CASE c # b
          BY <1>1, <3>2, <4>2
        <4> QED
          BY <4>1, <4>2
      <3> QED
        BY <1>5, <3>1, <3>2 DEF stm_acquire_entry
    <2> QED
      BY <1>1, <2>1, <2>2, <2>3 DEF RoundAt
  <1>6. CASE stm_abort(p)
    <2>1. pc'[p] \in {"finish_local", "failed"}
      BY <1>1, <1>6 DEF stm_abort, BeginFinish
    <2> QED
      BY <2>1 DEF RoundAt
  <1>7. CASE stm_acquire(p)
    <2>1. LATE_ACQUIRE /\ UNCHANGED dataset /\ "acquire_remote" \in PC
      BY <1>7 DEF stm_acquire, Rounds, logVars, PC
    <2>2. CASE BeginRound(p, "acquire_remote", {"WRITE"}, RemoteProcs(p))
      BY <2>1, <2>2, RoundsBegin
    <2>3. CASE BeginFinish(p, status[p])
      BY <1>1, <2>3 DEF BeginFinish, RoundAt
    <2> QED
      BY <1>7, <2>2, <2>3 DEF stm_acquire
  <1>8. CASE stm_validate(p)
    <2>1. pc'[p] \in {"validate_remote", "finish_local"}
      BY <1>1, <1>8 DEF stm_validate, BeginRound, BeginFinish
    <2> QED
      BY <2>1 DEF RoundAt
  <1>9. CASE stm_finish_home(p)
    <2>1. pc'[p] \in {"finish_remote", "run"}
      BY <1>1, <1>9 DEF stm_finish_home
    <2> QED
      BY <2>1 DEF RoundAt
  <1> QED
    BY <1>2, <1>3, <1>4, <1>5, <1>6, <1>7, <1>8, <1>9 DEF StmStep

-----------------------------------------------------------------------------
(* LockInv is inductive given the types, in every build.                   *)

LEMMA LockInit == Init => LockInv
  <1> SUFFICES ASSUME Init PROVE LockInv
    OBVIOUS
  <1>1. \A b \in Block : Readers(b) = {} /\ Writers(b) = {} /\ meta[b] = 0
    BY DEF Init, NoEntry, Readers, Writers, ReadLocks, WriteLocks
  <1>2. ~test_write_bit(0) /\ Cardinality({}) = 0
    BY FS_EmptySet DEF test_write_bit
  <1>3. BlockOK
    BY <1>1, <1>2 DEF BlockOK, LockOK, Describes, Exclusive
  <1>4. Marks /\ Rounds
    BY DEF Init, Marks, Rounds, NoEntry
  <1> QED
    BY <1>3, <1>4, LockInvParts

LEMMA LockNext == TypeOK /\ LockInv /\ [Next]_vars => LockInv'
  <1> SUFFICES ASSUME TypeOK, BlockOK, Marks, Rounds, [Next]_vars
               PROVE  BlockOK' /\ Marks' /\ Rounds'
    <2>1. LockInv' <=> BlockOK' /\ Marks' /\ Rounds'
      BY LockInvParts, PTL
    <2> QED
      BY <2>1, LockInvParts
  <1>1. CASE UNCHANGED vars
    <2>1. BlockOK'
      BY <1>1, BlockStutter DEF vars
    <2> QED
      BY <1>1, <2>1 DEF vars, Marks, Rounds
  <1>2. ASSUME NEW p \in Client, ClientStep(p) \/ StmStep(p)
        PROVE  BlockOK' /\ Marks' /\ Rounds'
    <2>1. p \in Proc
      BY SystemAssumption
    <2>2. Rounds'
      BY <1>2, <2>1, OthersKept, RoundsClient, RoundsStm, RoundsStep
    <2>3. CASE UNCHANGED <<meta, dataset>>
      BY <2>2, <2>3, BlockStutter DEF Marks
    <2>4. CASE ~UNCHANGED <<meta, dataset>>
      <3>1. PICK b \in Block : \/ open_read(p, b) \/ open_write(p, b)
                               \/ stm_acquire_entry(p, b) \/ stm_finish_entry(p, b)
        BY <1>2, <2>4
        DEF ClientStep, StmStep, stm_start, stm_on, stm_on_reply, stm_get, stm_put,
            Access, stm_commit, open_held, copy_get, copy_put, stm_abort,
            stm_validate_entry, stm_acquire, stm_validate, stm_finish_home,
            shared, logVars
      <3> QED
        BY <2>1, <2>2, <3>1, LocksOpenRead, LocksOpenWrite, LocksAcquire,
           LocksFinishEntry, MarksOpen, MarksFinish
    <2> QED
      BY <2>3, <2>4
  <1> QED
    BY <1>1, <1>2 DEF Next

(* A block's write bit belongs to one transaction and excludes readers,    *)
(* and its metadata word is exactly what the data sets of all transactions *)
(* say, in every build and for every number of processors and blocks.      *)
THEOREM LockInvariant == Spec => []LockInv
  BY TypeInvariant, LockInit, LockNext, PTL DEF Spec

(* meta_lock, the write bit and the reader count exclude conflicting       *)
(* holders of a block.                                                     *)
THEOREM Exclusion == Spec => []WriteExclusion
  <1>1. LockInv => WriteExclusion
    BY DEF LockInv
  <1> QED
    BY <1>1, LockInvariant, PTL

(* stm_finish_local finds in a metadata word just the locks it releases.   *)
THEOREM MetaExact == Spec => []LockExact
  <1>1. LockInv => LockExact
    BY DEF LockInv
  <1> QED
    BY <1>1, LockInvariant, PTL
=============================================================================

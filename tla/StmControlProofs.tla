-------------------------- MODULE StmControlProofs --------------------------
(***************************************************************************)
(* Theorems about where a transaction of StmDistrib has been and how far   *)
(* it has come: the nodes that hold entries of it are the ones its finish  *)
(* visits, its rounds acquire all it has written before it commits, and    *)
(* its accesses copy no word whose block they do not hold.                 *)
(***************************************************************************)
EXTENDS StmDistribProofs

(* Client code or an access; the acquire and validate rounds; the finish.  *)
Inside(p) == pc[p] \in {"run", "open", "copy", "failed"}
Asking(p) == pc[p] \in {"acquire_local", "acquire_remote",
                        "validate_local", "validate_remote"}
Ending(p) == pc[p] \in {"finish_local", "finish_remote"}

(* The node of p's outermost transaction, and the nodes its finish visits. *)
Outer(p) == IF tx_depth[p][p] > 0 THEN p ELSE site[p]
Visited(p) == {Outer(p)} \cup remote_procs[Outer(p)][p]

(* The descriptors of p: the one where its code runs names the node of the *)
(* outermost transaction, which has recorded where the code was taken.     *)
PlaceOK(p) ==
  /\ tx_depth[p][p] > 0 => tx_proc[p][p] = p
  /\ Depth(p) > 0 \/ pc[p] # "run" => TxProc(p) = Outer(p)
  /\ Depth(p) >= tx_depth[p][p]
  /\ site[p] # Outer(p) => site[p] \in remote_procs[p][p]
  /\ pc[p] \in {"open", "copy", "failed"} => Depth(p) > 0
  /\ ~Inside(p) => site[p] = Outer(p)
  /\ Asking(p) => Depth(p) = 0
  /\ Ending(p) => Depth(p) = 0 \/ status[p] = "ABORT"
  /\ Inside(p) => status[p] = "COMMIT"

PlaceInv == \A p \in Proc : PlaceOK(p)

-----------------------------------------------------------------------------
(* A step of p leaves alone whatever is kept on behalf of another q.       *)

SameFor(q) ==
  /\ \A n \in Proc : /\ tx_depth'[n][q] = tx_depth[n][q]
                     /\ tx_proc'[n][q] = tx_proc[n][q]
                     /\ remote_procs'[n][q] = remote_procs[n][q]
  /\ dataset'[q] = dataset[q] /\ saved'[q] = saved[q]
  /\ pc'[q] = pc[q] /\ site'[q] = site[q] /\ op'[q] = op[q]
  /\ status'[q] = status[q] /\ todo'[q] = todo[q]
  /\ rset'[q] = rset[q] /\ wset'[q] = wset[q]

(* A step within an access, a round or a finish: the descriptors stay.     *)
InnerStep(p) ==
  \/ \E b \in Block : \/ open_held(p, b) \/ open_read(p, b) \/ open_write(p, b)
                      \/ stm_acquire_entry(p, b) \/ stm_validate_entry(p, b)
                      \/ stm_finish_entry(p, b)
  \/ \E w \in Word : copy_get(p, w) \/ copy_put(p, w)

LEMMA StepCases ==
  ASSUME NEW p \in Proc, ClientStep(p) \/ StmStep(p)
  PROVE  \/ stm_start(p) \/ (\E q \in Proc : stm_on(p, q)) \/ stm_on_reply(p)
         \/ \E x \in Extent : stm_get(p, x)
         \/ \E x \in Extent, v \in Val : stm_put(p, x, v)
         \/ stm_commit(p) \/ stm_abort(p) \/ stm_acquire(p) \/ stm_validate(p)
         \/ stm_finish_home(p) \/ InnerStep(p)
  <1>1. CASE ClientStep(p)
    BY <1>1, SystemAssumption DEF ClientStep
  <1>2. CASE StmStep(p)
    BY <1>2 DEF StmStep, InnerStep
  <1> QED
    BY <1>1, <1>2

LEMMA Typed ==
  ASSUME TypeOK, NEW p \in Proc
  PROVE  /\ tx_depth \in [Proc -> [Proc -> Nat]]
         /\ tx_proc \in [Proc -> [Proc -> Proc]]
         /\ remote_procs \in [Proc -> [Proc -> SUBSET Proc]]
         /\ site[p] \in Proc /\ Depth(p) \in Nat /\ tx_depth[p][p] \in Nat
         /\ Depth(p) = tx_depth[site[p]][p]
         /\ pc \in [Proc -> PC] /\ site \in [Proc -> Proc] /\ pc[p] \in PC
         /\ status \in [Proc -> {"COMMIT", "ABORT"}] /\ op \in [Proc -> Op]
         /\ todo \in [Proc -> SUBSET Block]
         /\ dataset \in [Proc -> [Block -> Entry]]
         /\ saved \in [Proc -> [Word -> Val]] /\ mem \in [Word -> Val]
         /\ rset \in [Proc -> [Word -> Val \cup {NoVal}]]
         /\ wset \in [Proc -> [Word -> Val \cup {NoVal}]]
  <1>1. tx_depth \in [Proc -> [Proc -> Nat]]
    BY SystemAssumption DEF TypeOK
  <1> QED
    BY <1>1 DEF TypeOK, Depth

LEMMA InnerKeeps ==
  ASSUME NEW p \in Proc, InnerStep(p) PROVE UNCHANGED <<dorVars, site>>
  BY DEF InnerStep, open_held, open_read, open_write, stm_acquire_entry,
         stm_validate_entry, stm_finish_entry, copy_get, copy_put

LEMMA SameInner ==
  ASSUME TypeOK, NEW p \in Proc, InnerStep(p), NEW q \in Proc \ {p}
  PROVE  SameFor(q)
  <1>1. /\ pc \in [Proc -> PC] /\ todo \in [Proc -> SUBSET Block]
        /\ dataset \in [Proc -> [Block -> Entry]] /\ op \in [Proc -> Op]
        /\ saved \in [Proc -> [Word -> Val]]
        /\ status \in [Proc -> {"COMMIT", "ABORT"}]
        /\ rset \in [Proc -> [Word -> Val \cup {NoVal}]]
        /\ wset \in [Proc -> [Word -> Val \cup {NoVal}]]
    BY DEF TypeOK
  <1>2. ASSUME NEW b \in Block, open_held(p, b) \/ open_read(p, b) \/ open_write(p, b)
        PROVE  SameFor(q)
    BY <1>1, <1>2 DEF open_held, open_read, open_write, Opened, FailOpen, logVars,
                      SameFor, dorVars, viewVars
  <1>3. ASSUME NEW w \in Word, copy_get(p, w) \/ copy_put(p, w)
        PROVE  SameFor(q)
    BY <1>1, <1>3 DEF copy_get, copy_put, Copied, logVars, SameFor, dorVars
  <1>4. ASSUME NEW b \in Block, \/ stm_acquire_entry(p, b) \/ stm_validate_entry(p, b)
                                \/ stm_finish_entry(p, b)
        PROVE  SameFor(q)
    BY <1>1, <1>4 DEF stm_acquire_entry, stm_validate_entry, stm_finish_entry,
                      Conflict, logVars, viewVars, SameFor, dorVars
  <1> QED
    BY <1>2, <1>3, <1>4 DEF InnerStep

LEMMA SameForOthers ==
  ASSUME TypeOK, NEW p \in Proc, ClientStep(p) \/ StmStep(p), NEW q \in Proc \ {p}
  PROVE  SameFor(q)
  <1>1. /\ tx_depth \in [Proc -> [Proc -> Nat]]
        /\ tx_proc \in [Proc -> [Proc -> Proc]]
        /\ remote_procs \in [Proc -> [Proc -> SUBSET Proc]]
        /\ site[p] \in Proc /\ pc \in [Proc -> PC] /\ site \in [Proc -> Proc]
        /\ status \in [Proc -> {"COMMIT", "ABORT"}] /\ op \in [Proc -> Op]
        /\ todo \in [Proc -> SUBSET Block]
        /\ rset \in [Proc -> [Word -> Val \cup {NoVal}]]
        /\ wset \in [Proc -> [Word -> Val \cup {NoVal}]]
    BY Typed
  <1>2. CASE stm_start(p)
    BY <1>1, <1>2 DEF stm_start, SameFor, shared, logVars, viewVars
  <1>3. ASSUME NEW n \in Proc, stm_on(p, n) PROVE SameFor(q)
    BY <1>1, <1>3 DEF stm_on, SameFor, shared, logVars, viewVars
  <1>4. CASE stm_on_reply(p)
    BY <1>1, <1>4 DEF stm_on_reply, SameFor, shared, dorVars, logVars, viewVars
  <1>5. ASSUME NEW x, NEW k, NEW v, Access(p, x, k, v) PROVE SameFor(q)
    BY <1>1, <1>5 DEF Access, SameFor, shared, logVars, viewVars
  <1>6. CASE stm_commit(p)
    BY <1>1, <1>6 DEF stm_commit, BeginRound, BeginFinish, SameFor, shared, logVars, viewVars
  <1>7. CASE stm_abort(p) \/ stm_acquire(p) \/ stm_validate(p)
    BY <1>1, <1>7 DEF stm_abort, stm_acquire, stm_validate, BeginRound, BeginFinish,
                      SameFor, shared, dorVars, logVars, viewVars
  <1>8. CASE stm_finish_home(p)
    <2>1. \/ tx_depth' = tx_depth
          \/ tx_depth' = [tx_depth EXCEPT ![site[p]][p] = 1]
      BY <1>8 DEF stm_finish_home
    <2>2. \A n \in Proc : tx_depth'[n][q] = tx_depth[n][q]
      <3>1. CASE tx_depth' = [tx_depth EXCEPT ![site[p]][p] = 1]
        BY <1>1, <3>1
      <3> QED
        BY <2>1, <3>1
    <2>3. \/ remote_procs' = remote_procs
          \/ remote_procs' = [remote_procs EXCEPT ![site[p]][p] = {}]
      BY <1>8 DEF stm_finish_home
    <2>4. \A n \in Proc : remote_procs'[n][q] = remote_procs[n][q]
      <3>1. CASE remote_procs' = [remote_procs EXCEPT ![site[p]][p] = {}]
        BY <1>1, <3>1
      <3> QED
        BY <2>3, <3>1
    <2>5. /\ pc'[q] = pc[q] /\ status'[q] = status[q]
          /\ UNCHANGED <<shared, tx_proc, logVars, site, op, todo, viewVars>>
      BY <1>1, <1>8 DEF stm_finish_home
    <2> QED
      BY <2>2, <2>4, <2>5 DEF SameFor, logVars, viewVars
  <1> QED
    BY <1>2, <1>3, <1>4, <1>5, <1>6, <1>7, <1>8, SameInner, StepCases DEF stm_get, stm_put

-----------------------------------------------------------------------------
(* Places.  One lemma for each action that moves p's code or changes its   *)
(* descriptors.                                                            *)

LEMMA PlaceOthers ==
  ASSUME NEW p \in Proc, PlaceOK(p), SameFor(p), site[p] \in Proc PROVE PlaceOK(p)'
  BY DEF PlaceOK, SameFor, Depth, TxProc, Outer, Inside, Asking, Ending

LEMMA PlaceStart ==
  ASSUME TypeOK, NEW p \in Proc, PlaceOK(p), stm_start(p) PROVE PlaceOK(p)'
  <1> DEFINE s == site[p]
  <1>1. s \in Proc /\ Depth(p) \in Nat /\ Depth(p) = tx_depth[s][p]
        /\ tx_depth[p][p] \in Nat
    BY Typed
  <1>2. UNCHANGED <<site, pc, status, remote_procs>> /\ pc[p] = "run"
    BY DEF stm_start
  <1>3. tx_depth'[s][p] = Depth(p) + 1 /\ \A n \in Proc \ {s} : tx_depth'[n] = tx_depth[n]
    BY <1>1, Typed DEF stm_start
  <1>4. /\ tx_proc'[s][p] = IF Depth(p) = 0 THEN s ELSE tx_proc[s][p]
        /\ \A n \in Proc \ {s} : tx_proc'[n] = tx_proc[n]
    BY <1>1, Typed DEF stm_start
  <1>5. Depth(p)' = Depth(p) + 1 /\ TxProc(p)' = tx_proc'[s][p]
    BY <1>2, <1>3 DEF Depth, TxProc
  <1>6. Outer(p)' = Outer(p)
    BY <1>1, <1>2, <1>3 DEF Outer
  <1>7. Depth(p) = 0 => Outer(p) = s
    BY <1>1 DEF PlaceOK, Outer
  <1> QED
    BY <1>1, <1>2, <1>3, <1>4, <1>5, <1>6, <1>7
    DEF PlaceOK, TxProc, Inside, Asking, Ending, Outer

LEMMA PlaceOn ==
  ASSUME TypeOK, NEW p \in Proc, NEW q \in Proc, PlaceOK(p), stm_on(p, q)
  PROVE  PlaceOK(p)'
  <1>1. tx_depth[p][p] \in Nat /\ Depth(p) = tx_depth[p][p] /\ q # p
    BY Typed DEF stm_on
  <1>2. UNCHANGED <<pc, status>> /\ pc[p] = "run" /\ site'[p] = q
    BY Typed DEF stm_on
  <1>3. tx_depth'[q][p] = tx_depth[p][p] /\ tx_depth'[p][p] = tx_depth[p][p]
    BY <1>1, Typed DEF stm_on
  <1>4. tx_proc'[q][p] = tx_proc[p][p] /\ tx_proc'[p][p] = tx_proc[p][p]
    BY <1>1, Typed DEF stm_on
  <1>5. tx_depth[p][p] > 0 => q \in remote_procs'[p][p]
    BY Typed DEF stm_on
  <1> QED
    BY <1>1, <1>2, <1>3, <1>4, <1>5
    DEF PlaceOK, Depth, TxProc, Inside, Asking, Ending, Outer

LEMMA PlaceReply ==
  ASSUME TypeOK, NEW p \in Proc, PlaceOK(p), stm_on_reply(p) PROVE PlaceOK(p)'
  <1>1. tx_depth[p][p] \in Nat
    BY Typed
  <1>2. UNCHANGED <<pc, status, tx_depth, tx_proc, remote_procs>> /\ pc[p] = "run"
        /\ site'[p] = p
    BY Typed DEF stm_on_reply, dorVars
  <1> QED
    BY <1>1, <1>2 DEF PlaceOK, Depth, TxProc, Inside, Asking, Ending, Outer

LEMMA PlaceAccess ==
  ASSUME TypeOK, NEW p \in Proc, PlaceOK(p), NEW x, NEW k, NEW v, Access(p, x, k, v)
  PROVE  PlaceOK(p)'
  <1>1. tx_depth[p][p] \in Nat /\ site[p] \in Proc
    BY Typed
  <1>2. /\ UNCHANGED <<site, status, tx_depth, tx_proc>>
        /\ pc[p] = "run" /\ pc'[p] = "open" /\ Depth(p) > 0
    BY Typed DEF Access
  <1>3. remote_procs[p][p] \subseteq remote_procs'[p][p]
    BY <1>1, Typed DEF Access
  <1>4. UNCHANGED <<Depth(p), TxProc(p), Outer(p)>>
    BY <1>2 DEF Depth, TxProc, Outer
  <1> QED
    BY <1>2, <1>3, <1>4 DEF PlaceOK, Inside, Asking, Ending

LEMMA PlaceCommit ==
  ASSUME TypeOK, NEW p \in Proc, PlaceOK(p), stm_commit(p) PROVE PlaceOK(p)'
  <1> DEFINE s == site[p]
  <1>1. s \in Proc /\ Depth(p) \in Nat /\ Depth(p) = tx_depth[s][p]
        /\ tx_depth[p][p] \in Nat
    BY Typed
  <1>2. UNCHANGED <<site, tx_proc, remote_procs>> /\ pc[p] = "run"
    BY DEF stm_commit
  <1>3. tx_depth'[s][p] = Depth(p) - 1 /\ \A n \in Proc \ {s} : tx_depth'[n] = tx_depth[n]
    BY <1>1, Typed DEF stm_commit
  <1>4. Depth(p) > 0 /\ (s # p => Depth(p) > tx_depth[p][p])
    BY <1>1 DEF stm_commit
  <1>5. Depth(p)' = Depth(p) - 1 /\ TxProc(p)' = TxProc(p) /\ Outer(p)' = Outer(p)
    BY <1>1, <1>2, <1>3 DEF Depth, TxProc, Outer
  <1>6. CASE Depth(p) > 1
    <2>1. UNCHANGED <<pc, status>>
      BY <1>6 DEF stm_commit
    <2> QED
      BY <1>1, <1>2, <1>3, <1>4, <1>5, <1>6, <2>1
      DEF PlaceOK, Inside, Asking, Ending
  <1>7. CASE Depth(p) = 1
    <2>1. pc'[p] \in {"acquire_local", "validate_local", "finish_local"}
      BY <1>7, Typed DEF stm_commit, BeginRound, BeginFinish
    <2>2. s = Outer(p)
      BY <1>1, <1>4, <1>7 DEF PlaceOK, Outer
    <2> QED
      BY <1>1, <1>2, <1>3, <1>4, <1>5, <1>7, <2>1, <2>2
      DEF PlaceOK, Inside, Asking, Ending
  <1> QED
    BY <1>1, <1>4, <1>6, <1>7

LEMMA PlaceAbort ==
  ASSUME TypeOK, NEW p \in Proc, PlaceOK(p), stm_abort(p) PROVE PlaceOK(p)'
  <1>1. /\ UNCHANGED <<tx_depth, tx_proc, remote_procs>> /\ pc[p] = "failed"
        /\ tx_depth[p][p] \in Nat /\ site[p] \in Proc
    BY Typed DEF stm_abort, dorVars
  <1>2. CASE TxProc(p) = site[p]
    <2>1. UNCHANGED site /\ pc'[p] = "finish_local" /\ status'[p] = "ABORT"
      BY <1>2, Typed DEF stm_abort, BeginFinish
    <2>2. Outer(p)' = Outer(p) /\ Depth(p)' = Depth(p) /\ TxProc(p)' = TxProc(p)
      BY <1>1, <2>1 DEF Outer, Depth, TxProc
    <2>3. Outer(p) = site[p]
      BY <1>1, <1>2 DEF PlaceOK
    <2> QED
      BY <1>1, <1>2, <2>1, <2>2, <2>3 DEF PlaceOK, Inside, Asking, Ending
  <1>3. CASE TxProc(p) # site[p]
    <2>1. UNCHANGED <<pc, status>> /\ site'[p] = p
      BY <1>3, Typed DEF stm_abort
    <2>2. tx_depth[p][p] > 0
      BY <1>1, <1>3 DEF PlaceOK, Outer
    <2> QED
      BY <1>1, <2>1, <2>2 DEF PlaceOK, Inside, Asking, Ending, Depth, TxProc, Outer
  <1> QED
    BY <1>2, <1>3

LEMMA PlaceRounds ==
  ASSUME TypeOK, NEW p \in Proc, PlaceOK(p), stm_acquire(p) \/ stm_validate(p)
  PROVE  PlaceOK(p)'
  <1>1. UNCHANGED <<tx_depth, tx_proc, remote_procs, site>> /\ Asking(p)
    BY DEF stm_acquire, stm_validate, dorVars, Asking
  <1>2. pc'[p] \in {"acquire_remote", "validate_remote", "finish_local"}
    BY Typed DEF stm_acquire, stm_validate, BeginRound, BeginFinish
  <1>3. Outer(p)' = Outer(p) /\ Depth(p)' = Depth(p) /\ TxProc(p)' = TxProc(p)
    BY <1>1 DEF Outer, Depth, TxProc
  <1> QED
    BY <1>1, <1>2, <1>3 DEF PlaceOK, Inside, Asking, Ending

LEMMA PlaceFinishHome ==
  ASSUME TypeOK, NEW p \in Proc, PlaceOK(p), stm_finish_home(p) PROVE PlaceOK(p)'
  <1> DEFINE s == site[p]
  <1>1. s \in Proc /\ Depth(p) \in Nat /\ Depth(p) = tx_depth[s][p]
        /\ tx_depth[p][p] \in Nat
    BY Typed
  <1>2. UNCHANGED <<tx_proc, site>> /\ Ending(p)
    BY DEF stm_finish_home, Ending
  <1>3. s = Outer(p) /\ TxProc(p) = Outer(p) /\ (s # p => tx_depth[p][p] = 0)
    BY <1>1, <1>2 DEF PlaceOK, Inside, Ending, Outer
  <1>4. CASE pc[p] = "finish_local"
    <2>1. pc'[p] = "finish_remote" /\ UNCHANGED <<tx_depth, remote_procs, status>>
      BY <1>4, Typed DEF stm_finish_home
    <2>2. Outer(p)' = Outer(p) /\ Depth(p)' = Depth(p) /\ TxProc(p)' = TxProc(p)
      BY <1>2, <2>1 DEF Outer, Depth, TxProc
    <2> QED
      BY <1>2, <1>3, <2>1, <2>2 DEF PlaceOK, Inside, Asking, Ending
  <1>5. CASE pc[p] # "finish_local"
    <2>1. pc'[p] = "run" /\ status'[p] = "COMMIT"
      BY <1>5, Typed DEF stm_finish_home
    <2>2. /\ tx_depth'[s][p] = IF status[p] = "ABORT" THEN 1 ELSE Depth(p)
          /\ \A n \in Proc \ {s} : tx_depth'[n] = tx_depth[n]
      <3>1. CASE status[p] = "ABORT"
        <4>1. tx_depth' = [tx_depth EXCEPT ![s][p] = 1]
          BY <1>5, <3>1 DEF stm_finish_home
        <4> QED
          BY <1>1, <3>1, <4>1, Typed
      <3>2. CASE status[p] # "ABORT"
        BY <1>1, <1>5, <3>2 DEF stm_finish_home
      <3> QED
        BY <3>1, <3>2
    <2>3. Outer(p)' = s
      BY <1>1, <1>2, <1>3, <2>2 DEF Outer
    <2>4. tx_proc'[s][p] = s
      BY <1>2, <1>3 DEF TxProc
    <2>5. Depth(p)' = tx_depth'[s][p] /\ TxProc(p)' = s
      BY <1>2, <2>4 DEF Depth, TxProc
    <2>6. Depth(p)' >= tx_depth'[p][p]
      BY <1>1, <1>3, <2>2, <2>5
    <2> QED
      BY <1>1, <1>2, <1>3, <2>1, <2>2, <2>3, <2>4, <2>5, <2>6
      DEF PlaceOK, Inside, Asking, Ending
  <1> QED
    BY <1>4, <1>5

LEMMA PlaceInner ==
  ASSUME TypeOK, NEW p \in Proc, PlaceOK(p), InnerStep(p),
         UNCHANGED <<dorVars, site>>
  PROVE  PlaceOK(p)'
  <1>1. /\ pc \in [Proc -> PC] /\ status \in [Proc -> {"COMMIT", "ABORT"}]
    BY Typed
  <1>2. Outer(p)' = Outer(p) /\ Depth(p)' = Depth(p) /\ TxProc(p)' = TxProc(p)
    BY DEF dorVars, Outer, Depth, TxProc
  <1>3. ASSUME NEW b \in Block, open_held(p, b) \/ open_read(p, b) \/ open_write(p, b)
        PROVE  pc[p] = "open" /\ pc'[p] \in {"open", "copy", "failed"} /\ UNCHANGED status
    BY <1>1, <1>3 DEF open_held, open_read, open_write, Opening, Opened, FailOpen
  <1>4. ASSUME NEW w \in Word, copy_get(p, w) \/ copy_put(p, w)
        PROVE  pc[p] = "copy" /\ pc'[p] \in {"copy", "run"} /\ UNCHANGED status
    BY <1>1, <1>4 DEF copy_get, copy_put, Copied
  <1>5. ASSUME NEW b \in Block, stm_acquire_entry(p, b) \/ stm_validate_entry(p, b)
        PROVE  Asking(p) /\ UNCHANGED pc
    BY <1>5 DEF stm_acquire_entry, stm_validate_entry, Asking
  <1>6. ASSUME NEW b \in Block, stm_finish_entry(p, b)
        PROVE  Ending(p) /\ UNCHANGED <<pc, status>>
    BY <1>6 DEF stm_finish_entry, EntriesAt, Finishing, Ending
  <1>7. \/ pc[p] = "open" /\ pc'[p] \in {"open", "copy", "failed"} /\ UNCHANGED status
        \/ pc[p] = "copy" /\ pc'[p] \in {"copy", "run"} /\ UNCHANGED status
        \/ Asking(p) /\ UNCHANGED pc
        \/ Ending(p) /\ UNCHANGED <<pc, status>>
    BY <1>3, <1>4, <1>5, <1>6 DEF InnerStep
  <1> QED
    BY <1>2, <1>7 DEF PlaceOK, Inside, Asking, Ending, dorVars

LEMMA PlaceNext == TypeOK /\ PlaceInv /\ [Next]_vars => PlaceInv'
  <1> SUFFICES ASSUME TypeOK, PlaceInv, [Next]_vars, NEW q \in Proc PROVE PlaceOK(q)'
    BY DEF PlaceInv
  <1>1. PlaceOK(q)
    BY DEF PlaceInv
  <1>2. CASE UNCHANGED vars
    BY <1>1, <1>2 DEF vars, PlaceOK, Depth, TxProc, Outer, Inside, Asking, Ending
  <1>3. ASSUME NEW p \in Client, ClientStep(p) \/ StmStep(p) PROVE PlaceOK(q)'
    <2>1. p \in Proc
      BY SystemAssumption
    <2>2. CASE q # p
      BY <1>1, <1>3, <2>1, <2>2, SameForOthers, PlaceOthers, Typed
    <2>3. CASE q = p
      <3>1. InnerStep(p) => UNCHANGED <<dorVars, site>>
        BY <2>1, InnerKeeps
      <3> QED
        BY <1>1, <1>3, <2>1, <2>3, <3>1, StepCases, PlaceStart, PlaceOn, PlaceReply,
           PlaceAccess, PlaceCommit, PlaceAbort, PlaceRounds, PlaceFinishHome, PlaceInner
        DEF stm_get, stm_put
    <2> QED
      BY <2>2, <2>3
  <1> QED
    BY <1>2, <1>3 DEF Next

LEMMA PlaceInit == Init => PlaceInv
  <1> SUFFICES ASSUME Init, NEW p \in Proc PROVE PlaceOK(p)
    BY DEF PlaceInv
  <1>1. pc[p] = "run" /\ site[p] = p /\ tx_depth[p][p] = 0 /\ status[p] = "COMMIT"
    BY DEF Init
  <1> QED
    BY <1>1 DEF PlaceOK, Depth, TxProc, Outer, Inside, Asking, Ending

LEMMA PlaceInvariant == Spec => []PlaceInv
  BY TypeInvariant, PlaceInit, PlaceNext, PTL DEF Spec

-----------------------------------------------------------------------------
(* Entries.  What the four actions that touch p's data set do to it; its   *)
(* other actions leave the data set alone.                                 *)

LEMMA DataStep ==
  ASSUME TypeOK, NEW p \in Proc, ClientStep(p) \/ StmStep(p)
  PROVE  \/ UNCHANGED dataset
         \/ \E b \in Block :
              /\ \A c \in Block \ {b} : dataset'[p][c] = dataset[p][c]
              /\ \/ /\ open_read(p, b) \/ open_write(p, b)
                    /\ pc[p] = "open" /\ b \in op[p].opening
                    /\ \/ dataset'[p][b] = dataset[p][b]
                       \/ dataset'[p][b].type # "NONE"
                 \/ /\ stm_acquire_entry(p, b)
                    /\ dataset'[p][b] = [dataset[p][b] EXCEPT !.acquired = TRUE]
                 \/ /\ stm_finish_entry(p, b)
                    /\ dataset'[p][b] = NoEntry
  <1>1. dataset \in [Proc -> [Block -> Entry]]
    BY Typed
  <1>2. ASSUME NEW b \in Block, open_read(p, b)
        PROVE  \/ UNCHANGED dataset
               \/ /\ \A c \in Block \ {b} : dataset'[p][c] = dataset[p][c]
                  /\ pc[p] = "open" /\ b \in op[p].opening
                  /\ dataset'[p][b].type # "NONE"
    <2> DEFINE e == [NoEntry EXCEPT !.type = "READ",
                       !.old_version = IF READ_VERSIONING THEN meta[b] ELSE 0]
    <2>1. e.type = "READ"
      BY DEF NoEntry
    <2>2. UNCHANGED dataset \/ dataset' = [dataset EXCEPT ![p][b] = e]
      BY <1>2 DEF open_read
    <2> HIDE DEF e
    <2> QED
      BY <1>1, <1>2, <2>1, <2>2 DEF open_read, Opening
  <1>3. ASSUME NEW b \in Block, open_write(p, b)
        PROVE  /\ \A c \in Block \ {b} : dataset'[p][c] = dataset[p][c]
               /\ pc[p] = "open" /\ b \in op[p].opening
               /\ \/ dataset'[p][b] = dataset[p][b]
                  \/ dataset'[p][b].type # "NONE"
    <2> DEFINE d == dataset[p][b]
               e == IF LATE_ACQUIRE /\ d.type = "READ"
                    THEN [d EXCEPT !.promoted = TRUE] ELSE d
               f == [e EXCEPT !.type = "WRITE"]
    <2>1. d \in Entry
      BY <1>1
    <2>2. e = d \/ e.type = "READ"
      BY <2>1 DEF Entry
    <2>3. f.type = "WRITE"
      BY <2>1 DEF Entry
    <2>4. dataset' = [dataset EXCEPT ![p][b] = f] \/ dataset' = [dataset EXCEPT ![p][b] = e]
      BY <1>3 DEF open_write
    <2> HIDE DEF d, e, f
    <2>5. dataset'[p][b] \in {e, f} /\ \A c \in Block \ {b} : dataset'[p][c] = dataset[p][c]
      BY <1>1, <2>4
    <2> QED
      BY <1>3, <2>2, <2>3, <2>5 DEF open_write, Opening, d
  <1>4. ASSUME NEW b \in Block, stm_acquire_entry(p, b)
        PROVE  \/ UNCHANGED dataset
               \/ /\ \A c \in Block \ {b} : dataset'[p][c] = dataset[p][c]
                  /\ dataset'[p][b] = [dataset[p][b] EXCEPT !.acquired = TRUE]
    <2> DEFINE e == [dataset[p][b] EXCEPT !.acquired = TRUE]
    <2>1. UNCHANGED dataset \/ dataset' = [dataset EXCEPT ![p][b] = e]
      BY <1>4 DEF stm_acquire_entry
    <2> HIDE DEF e
    <2>2. \/ UNCHANGED dataset
          \/ (\A c \in Block \ {b} : dataset'[p][c] = dataset[p][c]) /\ dataset'[p][b] = e
      BY <1>1, <2>1
    <2> QED
      BY <2>2 DEF e
  <1>5. ASSUME NEW b \in Block, stm_finish_entry(p, b)
        PROVE  /\ \A c \in Block \ {b} : dataset'[p][c] = dataset[p][c]
               /\ dataset'[p][b] = NoEntry
    BY <1>1, <1>5 DEF stm_finish_entry
  <1>6. CASE ~\E b \in Block : \/ open_read(p, b) \/ open_write(p, b)
                               \/ stm_acquire_entry(p, b) \/ stm_finish_entry(p, b)
    BY <1>6
    DEF ClientStep, StmStep, stm_start, stm_on, stm_on_reply, stm_get, stm_put,
        Access, stm_commit, open_held, copy_get, copy_put, stm_abort,
        stm_validate_entry, stm_acquire, stm_validate, stm_finish_home, logVars
  <1> QED
    BY <1>2, <1>3, <1>4, <1>5, <1>6

(* An inner stm_commit releases nothing, wherever the code has gone and    *)
(* however deep it is: entries leave the data set in stm_finish_local only, *)
(* after the outermost commit or for an abort.                             *)
THEOREM HeldUntilOutcome == Spec => HeldToTheEnd
  <1> DEFINE Kept == \A p \in Proc, b \in Block :
               dataset[p][b].type # "NONE" /\ dataset'[p][b].type = "NONE" =>
                 Depth(p) = 0 \/ status[p] = "ABORT"
  <1>1. TypeOK /\ PlaceInv /\ [Next]_vars => [Kept]_vars
    <2> SUFFICES ASSUME TypeOK, PlaceInv, Next, NEW q \in Proc, NEW b \in Block,
                        dataset[q][b].type # "NONE", dataset'[q][b].type = "NONE"
                 PROVE  Depth(q) = 0 \/ status[q] = "ABORT"
      OBVIOUS
    <2>1. PICK p \in Client : ClientStep(p) \/ StmStep(p)
      BY DEF Next
    <2>2. p \in Proc
      BY SystemAssumption
    <2>3. q = p
      BY <2>1, <2>2, SameForOthers DEF SameFor
    <2>4. stm_finish_entry(p, b)
      <3>1. dataset[p][b] \in Entry
        BY <2>2, Typed
      <3>2. [dataset[p][b] EXCEPT !.acquired = TRUE].type = dataset[p][b].type
        BY <3>1 DEF Entry
      <3> QED
        BY <2>1, <2>2, <2>3, <3>2, DataStep
    <2>5. Ending(p)
      BY <2>4 DEF stm_finish_entry, EntriesAt, Finishing, Ending
    <2> QED
      BY <2>2, <2>3, <2>5 DEF PlaceInv, PlaceOK
  <1> QED
    BY <1>1, TypeInvariant, PlaceInvariant, PTL DEF Spec, HeldToTheEnd

-----------------------------------------------------------------------------
(* The finish reaches every entry: p's entries, and the blocks it is about *)
(* to open, live on the nodes its outermost transaction has recorded.      *)

EntriesOK(p) ==
  /\ \A b \in Block : dataset[p][b].type = "NONE" => dataset[p][b] = NoEntry
  /\ \A b \in Block : dataset[p][b].type # "NONE" => NodeOf[b] \in Visited(p)
  /\ pc[p] = "open" => \A b \in op[p].opening : NodeOf[b] \in Visited(p)
  /\ pc[p] = "finish_remote" =>
       \A b \in Block : NodeOf[b] = site[p] => dataset[p][b].type = "NONE"
  /\ pc[p] = "run" /\ Depth(p) = 0 => \A b \in Block : dataset[p][b].type = "NONE"

EntriesInv == \A p \in Proc : EntriesOK(p)

NoEntries(p) == \A b \in Block : dataset[p][b].type = "NONE"

LEMMA EntriesOthers ==
  ASSUME NEW p \in Proc, EntriesOK(p), SameFor(p), site[p] \in Proc PROVE EntriesOK(p)'
  <1>1. Visited(p)' = Visited(p) /\ Depth(p)' = Depth(p)
    BY DEF SameFor, Visited, Outer, Depth
  <1> QED
    BY <1>1 DEF EntriesOK, SameFor

(* A step that moves p's code keeps the data set, and forgets no node      *)
(* while it holds an entry.                                                *)
LEMMA EntriesMove ==
  ASSUME NEW p \in Proc, EntriesOK(p), UNCHANGED dataset,
         NoEntries(p) \/ Visited(p) \subseteq Visited(p)',
         pc'[p] \notin {"open", "finish_remote"},
         pc'[p] = "run" /\ Depth(p)' = 0 => NoEntries(p)
  PROVE  EntriesOK(p)'
  BY DEF EntriesOK, NoEntries

LEMMA EntriesStart ==
  ASSUME TypeOK, NEW p \in Proc, PlaceOK(p), EntriesOK(p), stm_start(p)
  PROVE  EntriesOK(p)'
  <1> DEFINE s == site[p]
  <1>1. s \in Proc /\ Depth(p) \in Nat /\ Depth(p) = tx_depth[s][p]
        /\ tx_depth[p][p] \in Nat
    BY Typed
  <1>2. UNCHANGED <<site, pc, dataset, remote_procs>> /\ pc[p] = "run"
    BY DEF stm_start, logVars
  <1>3. tx_depth'[s][p] = Depth(p) + 1 /\ \A n \in Proc \ {s} : tx_depth'[n] = tx_depth[n]
    BY <1>1, Typed DEF stm_start
  <1>4. Depth(p)' = Depth(p) + 1
    BY <1>2, <1>3 DEF Depth
  <1>5. Outer(p)' = Outer(p)
    BY <1>1, <1>2, <1>3 DEF Outer
  <1>6. Visited(p)' = Visited(p)
    BY <1>2, <1>5 DEF Visited
  <1> QED
    BY <1>1, <1>2, <1>4, <1>6, EntriesMove

LEMMA EntriesOn ==
  ASSUME TypeOK, NEW p \in Proc, NEW q \in Proc, EntriesOK(p), stm_on(p, q)
  PROVE  EntriesOK(p)'
  <1>1. tx_depth[p][p] \in Nat /\ Depth(p) = tx_depth[p][p] /\ q # p
    BY Typed DEF stm_on
  <1>2. UNCHANGED <<pc, dataset>> /\ pc[p] = "run" /\ site'[p] = q
    BY Typed DEF stm_on, logVars
  <1>3. tx_depth'[q][p] = tx_depth[p][p] /\ tx_depth'[p][p] = tx_depth[p][p]
    BY <1>1, Typed DEF stm_on
  <1>4. Depth(p)' = Depth(p)
    BY <1>1, <1>2, <1>3 DEF Depth
  <1>5. CASE Depth(p) = 0
    BY <1>2, <1>5, EntriesMove DEF EntriesOK, NoEntries
  <1>6. CASE Depth(p) > 0
    <2>1. Outer(p) = p /\ Outer(p)' = p
      BY <1>1, <1>3, <1>6 DEF Outer
    <2>2. remote_procs[p][p] \subseteq remote_procs'[p][p]
      BY Typed DEF stm_on
    <2>3. Visited(p) \subseteq Visited(p)'
      BY <2>1, <2>2 DEF Visited
    <2> QED
      BY <1>2, <1>4, <1>6, <2>3, EntriesMove
  <1> QED
    BY <1>1, <1>5, <1>6

LEMMA EntriesReply ==
  ASSUME TypeOK, NEW p \in Proc, EntriesOK(p), stm_on_reply(p) PROVE EntriesOK(p)'
  <1>1. tx_depth[p][p] \in Nat /\ Depth(p) = tx_depth[p][p]
    BY Typed DEF stm_on_reply
  <1>2. UNCHANGED <<pc, dataset, tx_depth, remote_procs>> /\ pc[p] = "run"
        /\ site'[p] = p
    BY Typed DEF stm_on_reply, dorVars, logVars
  <1>3. Depth(p)' = Depth(p)
    BY <1>1, <1>2 DEF Depth
  <1>4. Depth(p) > 0 => Visited(p)' = Visited(p)
    BY <1>1, <1>2 DEF Visited, Outer
  <1> QED
    BY <1>1, <1>2, <1>3, <1>4, EntriesMove DEF EntriesOK, NoEntries

(* Where accesses may go is within what the transaction has recorded.      *)
LEMMA EntriesAccess ==
  ASSUME ~NestedRemote, TypeOK, NEW p \in Proc, PlaceOK(p), EntriesOK(p),
         NEW x \in Extent, NEW k, NEW v, Access(p, x, k, v)
  PROVE  EntriesOK(p)'
  <1> DEFINE n == NodeOf[BlockOf(CHOOSE w \in x : TRUE)]
             s == site[p]
             o == [kind |-> k, copying |-> x, val |-> v,
                   opening |-> { BlockOf(w) : w \in x }]
  <1>1. s \in Proc /\ tx_depth[p][p] \in Nat
    BY Typed
  <1>2. UNCHANGED <<site, dataset, tx_depth, tx_proc>> /\ pc'[p] = "open" /\ Depth(p) > 0
    BY Typed DEF Access, logVars
  <1>3. \A b \in op'[p].opening : NodeOf[b] = n
    <2>1. op'[p] = o
      BY Typed DEF Access
    <2>2. op'[p].opening = { BlockOf(w) : w \in x }
      BY <2>1
    <2>3. x # {} /\ \A u, w \in x : NodeOf[BlockOf(u)] = NodeOf[BlockOf(w)]
      BY ExtentAssumption
    <2> QED
      BY <2>2, <2>3
  <1>4. n \in Reachable(p)
    BY DEF Access
  <1>5. remote_procs' = IF n # s THEN [remote_procs EXCEPT ![s][p] = @ \cup {n}]
                                 ELSE remote_procs
    BY DEF Access
  <1> HIDE DEF n
  <1>6. /\ n # s => n \in remote_procs'[s][p]
        /\ \A m \in Proc : remote_procs[m][p] \subseteq remote_procs'[m][p]
    BY <1>1, <1>5, Typed
  <1>7. Outer(p)' = Outer(p) /\ Outer(p) \in Proc
    BY <1>1, <1>2 DEF Outer
  <1>8. Visited(p) \subseteq Visited(p)'
    BY <1>6, <1>7 DEF Visited
  <1>9. n \in Visited(p)'
    <2>1. CASE TxProc(p) = s
      <3>1. Outer(p) = s
        BY <1>2, <2>1 DEF PlaceOK
      <3> QED
        BY <1>6, <1>7, <3>1 DEF Visited
    <2>2. CASE TxProc(p) # s
      <3>1. n = s \/ n = TxProc(p)
        BY <1>4, <2>2 DEF Reachable
      <3>2. TxProc(p) = Outer(p) /\ Outer(p) = p /\ s \in remote_procs[p][p]
        BY <1>2, <2>2 DEF PlaceOK, Outer
      <3> QED
        BY <1>6, <1>7, <3>1, <3>2 DEF Visited
    <2> QED
      BY <2>1, <2>2
  <1> QED
    BY <1>2, <1>3, <1>8, <1>9 DEF EntriesOK

LEMMA EntriesCommit ==
  ASSUME TypeOK, NEW p \in Proc, PlaceOK(p), EntriesOK(p), stm_commit(p)
  PROVE  EntriesOK(p)'
  <1> DEFINE s == site[p]
  <1>1. s \in Proc /\ Depth(p) \in Nat /\ Depth(p) = tx_depth[s][p]
        /\ tx_depth[p][p] \in Nat
    BY Typed
  <1>2. UNCHANGED <<site, dataset, remote_procs>>
    BY DEF stm_commit, logVars
  <1>3. tx_depth'[s][p] = Depth(p) - 1 /\ \A n \in Proc \ {s} : tx_depth'[n] = tx_depth[n]
    BY <1>1, Typed DEF stm_commit
  <1>4. Depth(p) > 0 /\ (s # p => Depth(p) > tx_depth[p][p])
    BY <1>1 DEF stm_commit
  <1>5. Depth(p)' = Depth(p) - 1 /\ Visited(p)' = Visited(p)
    BY <1>1, <1>2, <1>3, <1>4 DEF Depth, Visited, Outer
  <1>6. /\ pc'[p] \in {"run", "acquire_local", "validate_local", "finish_local"}
        /\ pc'[p] = "run" => Depth(p) > 1
    BY <1>1, Typed DEF stm_commit, BeginRound, BeginFinish
  <1> QED
    BY <1>1, <1>2, <1>5, <1>6, EntriesMove

LEMMA EntriesAbort ==
  ASSUME TypeOK, NEW p \in Proc, PlaceOK(p), EntriesOK(p), stm_abort(p)
  PROVE  EntriesOK(p)'
  <1>1. UNCHANGED <<tx_depth, dataset, remote_procs>> /\ pc[p] = "failed"
        /\ tx_depth[p][p] \in Nat
    BY Typed DEF stm_abort, dorVars, logVars
  <1>2. pc'[p] \in {"finish_local", "failed"} /\ site'[p] \in {site[p], p}
    BY Typed DEF stm_abort, BeginFinish
  <1>3. site'[p] = site[p] \/ tx_depth[p][p] > 0
    <2>1. CASE TxProc(p) = site[p]
      BY <2>1 DEF stm_abort
    <2>2. CASE TxProc(p) # site[p]
      BY <1>1, <2>2 DEF PlaceOK, Outer
    <2> QED
      BY <2>1, <2>2
  <1>4. Visited(p)' = Visited(p)
    BY <1>1, <1>3 DEF Visited, Outer
  <1> QED
    BY <1>1, <1>2, <1>4, EntriesMove

LEMMA EntriesRounds ==
  ASSUME TypeOK, NEW p \in Proc, EntriesOK(p), stm_acquire(p) \/ stm_validate(p)
  PROVE  EntriesOK(p)'
  <1>1. UNCHANGED <<tx_depth, remote_procs, site, dataset>>
    BY DEF stm_acquire, stm_validate, dorVars, logVars
  <1>2. pc'[p] \in {"acquire_remote", "validate_remote", "finish_local"}
    BY Typed DEF stm_acquire, stm_validate, BeginRound, BeginFinish
  <1>3. Visited(p)' = Visited(p)
    BY <1>1 DEF Visited, Outer
  <1> QED
    BY <1>1, <1>2, <1>3, EntriesMove

(* The finish on the home node leaves no entry there; the finish of the    *)
(* recorded nodes leaves none at all.                                      *)
LEMMA EntriesFinishHome ==
  ASSUME TypeOK, NEW p \in Proc, PlaceOK(p), EntriesOK(p), stm_finish_home(p)
  PROVE  EntriesOK(p)' /\ (pc[p] = "finish_remote" => NoEntries(p))
  <1>1. UNCHANGED <<dataset, site>> /\ Ending(p)
    BY DEF stm_finish_home, logVars, Ending
  <1>2. \A b \in Block : NodeOf[b] \in Finishing(p) => dataset[p][b].type = "NONE"
    <2>1. ASSUME NEW b \in Block, NodeOf[b] \in Finishing(p),
                 dataset[p][b].type # "NONE" PROVE FALSE
      <3>1. dataset[p][b] \in Entry
        BY Typed
      <3>2. dataset[p][b].type \in {"READ", "WRITE"}
        BY <2>1, <3>1 DEF Entry
      <3> QED
        BY <2>1, <3>2 DEF stm_finish_home, EntriesAt
    <2> QED
      BY <2>1
  <1>3. CASE pc[p] = "finish_local"
    <2>1. pc'[p] = "finish_remote" /\ UNCHANGED <<tx_depth, remote_procs>>
      BY <1>3, Typed DEF stm_finish_home
    <2>2. Visited(p)' = Visited(p)
      BY <1>1, <2>1 DEF Visited, Outer
    <2>3. \A b \in Block : NodeOf[b] = site[p] => dataset[p][b].type = "NONE"
      BY <1>2, <1>3 DEF Finishing
    <2> QED
      BY <1>1, <1>3, <2>1, <2>2, <2>3 DEF EntriesOK
  <1>4. CASE pc[p] = "finish_remote"
    <2>1. pc'[p] = "run"
      BY <1>4, Typed DEF stm_finish_home
    <2>2. site[p] = Outer(p)
      BY <1>1 DEF PlaceOK, Inside, Ending
    <2>3. NoEntries(p)
      <3> SUFFICES ASSUME NEW b \in Block, dataset[p][b].type # "NONE" PROVE FALSE
        BY DEF NoEntries
      <3>1. NodeOf[b] = site[p] \/ NodeOf[b] \in remote_procs[site[p]][p]
        BY <2>2 DEF EntriesOK, Visited
      <3>2. Finishing(p) = remote_procs[site[p]][p]
        BY <1>4 DEF Finishing, RemoteProcs
      <3> QED
        BY <1>2, <1>4, <3>1, <3>2 DEF EntriesOK
    <2> QED
      BY <1>1, <2>1, <2>3, EntriesMove
  <1> QED
    BY <1>1, <1>3, <1>4 DEF Ending

LEMMA EntriesInner ==
  ASSUME TypeOK, LockInv, NEW p \in Proc, PlaceOK(p), EntriesOK(p), InnerStep(p)
  PROVE  EntriesOK(p)'
  <1>1. /\ pc \in [Proc -> PC] /\ op \in [Proc -> Op] /\ op[p] \in Op
        /\ dataset \in [Proc -> [Block -> Entry]]
    BY Typed
  <1>2. Visited(p)' = Visited(p) /\ Depth(p)' = Depth(p) /\ UNCHANGED site
    BY InnerKeeps DEF dorVars, Outer, Depth, Visited
  <1>3. ASSUME NEW b \in Block, open_held(p, b) \/ open_read(p, b) \/ open_write(p, b)
        PROVE  /\ pc[p] = "open" /\ pc'[p] \in {"open", "copy", "failed"}
               /\ pc'[p] = "open" => op'[p].opening \subseteq op[p].opening
    <2>1. Opened(p, b) \/ FailOpen(p)
      BY <1>3 DEF open_held, open_read, open_write
    <2>2. pc[p] = "open"
      BY <1>3 DEF open_held, open_read, open_write, Opening
    <2>3. CASE Opened(p, b)
      <3>1. op'[p] = [op[p] EXCEPT !.opening = op[p].opening \ {b}]
        BY <1>1, <2>3 DEF Opened
      <3>2. op'[p].opening = op[p].opening \ {b}
        BY <1>1, <3>1 DEF Op
      <3> QED
        BY <1>1, <2>2, <2>3, <3>2 DEF Opened
    <2>4. CASE FailOpen(p)
      BY <1>1, <2>2, <2>4 DEF FailOpen
    <2> QED
      BY <2>1, <2>3, <2>4
  <1>4. ASSUME NEW w \in Word, copy_get(p, w) \/ copy_put(p, w)
        PROVE  pc[p] = "copy" /\ pc'[p] \in {"copy", "run"}
    BY <1>1, <1>4 DEF copy_get, copy_put, Copied
  <1>5. ASSUME NEW b \in Block, \/ stm_acquire_entry(p, b) \/ stm_validate_entry(p, b)
                                \/ stm_finish_entry(p, b)
        PROVE  UNCHANGED pc /\ ~Inside(p)
    BY <1>5 DEF stm_acquire_entry, stm_validate_entry, stm_finish_entry, EntriesAt,
                Finishing, Inside
  <1>6. /\ pc'[p] = "open" => pc[p] = "open" /\ op'[p].opening \subseteq op[p].opening
        /\ pc'[p] = "run" => pc[p] = "copy"
        /\ pc'[p] = "finish_remote" => pc[p] = "finish_remote"
    BY <1>3, <1>4, <1>5 DEF InnerStep, Inside
  <1>7. pc'[p] = "run" => Depth(p) > 0
    BY <1>6 DEF PlaceOK
  <1>8. ASSUME NEW b \in Block
        PROVE  \/ dataset'[p][b] = dataset[p][b]
               \/ dataset'[p][b] = NoEntry
               \/ /\ dataset'[p][b].type # "NONE"
                  /\ \/ pc[p] = "open" /\ b \in op[p].opening
                     \/ dataset[p][b].type # "NONE"
    <2>1. dataset[p][b] \in Entry
      BY <1>1
    <2>2. stm_acquire_entry(p, b) => dataset[p][b].type = "WRITE"
      BY DEF stm_acquire_entry, LockInv
    <2>3. [dataset[p][b] EXCEPT !.acquired = TRUE].type = dataset[p][b].type
      BY <2>1 DEF Entry
    <2>4. StmStep(p)
      BY DEF InnerStep, StmStep
    <2> QED
      BY <2>2, <2>3, <2>4, DataStep
  <1> QED
    BY <1>2, <1>6, <1>7, <1>8 DEF EntriesOK

LEMMA EntriesNext ==
  ASSUME ~NestedRemote
  PROVE  TypeOK /\ LockInv /\ PlaceInv /\ EntriesInv /\ [Next]_vars => EntriesInv'
  <1> SUFFICES ASSUME TypeOK, LockInv, PlaceInv, EntriesInv, [Next]_vars, NEW q \in Proc
               PROVE  EntriesOK(q)'
    BY DEF EntriesInv
  <1>1. PlaceOK(q) /\ EntriesOK(q)
    BY DEF PlaceInv, EntriesInv
  <1>2. CASE UNCHANGED vars
    BY <1>1, <1>2 DEF vars, EntriesOK, Visited, Outer, Depth
  <1>3. ASSUME NEW p \in Client, ClientStep(p) \/ StmStep(p) PROVE EntriesOK(q)'
    <2>1. p \in Proc
      BY SystemAssumption
    <2>2. CASE q # p
      BY <1>1, <1>3, <2>1, <2>2, SameForOthers, EntriesOthers, Typed
    <2>3. CASE q = p
      BY <1>1, <1>3, <2>1, <2>3, StepCases, EntriesStart, EntriesOn, EntriesReply,
         EntriesAccess, EntriesCommit, EntriesAbort, EntriesRounds, EntriesFinishHome,
         EntriesInner
      DEF stm_get, stm_put
    <2> QED
      BY <2>2, <2>3
  <1> QED
    BY <1>2, <1>3 DEF Next

LEMMA EntriesInit == Init => EntriesInv
  BY DEF Init, EntriesInv, EntriesOK, NoEntry

LEMMA EntriesInvariant == ASSUME ~NestedRemote PROVE Spec => []EntriesInv
  BY TypeInvariant, LockInvariant, PlaceInvariant, EntriesInit, EntriesNext, PTL DEF Spec

(* Unless stm_on code accesses nodes that only its own descriptor knows    *)
(* of, stm_finish_home reaches every node that has an entry of the         *)
(* transaction: none is left when it has ended, in any build.              *)
THEOREM FinishReachesAll == ASSUME ~NestedRemote PROVE Spec => []NothingLeftBehind
  <1>1. TypeOK /\ EntriesInv => NothingLeftBehind
    <2> SUFFICES ASSUME TypeOK, EntriesInv, NEW p \in Proc, ~Live(p), pc[p] = "run",
                        NEW b \in Block
                 PROVE  dataset[p][b] = NoEntry
      BY DEF NothingLeftBehind
    <2>1. Depth(p) = 0
      BY Typed DEF Live
    <2> QED
      BY <2>1 DEF EntriesInv, EntriesOK
  <1> QED
    BY <1>1, TypeInvariant, EntriesInvariant, PTL

-----------------------------------------------------------------------------
(* The rounds of a late acquire.  Marks of an acquire are only on entries  *)
(* that are not to be acquired any more, and a transaction that commits    *)
(* has acquired all that it has written.                                   *)

AcquireOK(p) ==
  /\ \A n \in Proc : n \notin remote_procs[n][p]
  /\ Inside(p) => \A b \in Block : ~dataset[p][b].acquired
  /\ pc[p] = "acquire_local" =>
       /\ \A b \in Block : dataset[p][b].acquired => NodeOf[b] = site[p]
       /\ \A b \in todo[p] : NodeOf[b] = site[p]
       /\ \A b \in Block : dataset[p][b].type = "WRITE" /\ NodeOf[b] = site[p]
            => dataset[p][b].acquired \/ b \in todo[p] \/ status[p] = "ABORT"
  /\ pc[p] = "acquire_remote" =>
       \A b \in Block : dataset[p][b].type = "WRITE"
            => dataset[p][b].acquired \/ b \in todo[p] \/ status[p] = "ABORT"
  /\ pc[p] \in {"acquire_local", "acquire_remote"} =>
       \A b \in todo[p] : ~dataset[p][b].acquired
  /\ Ending(p) /\ LATE_ACQUIRE =>
       \A b \in Block : dataset[p][b].type = "WRITE"
            => dataset[p][b].acquired \/ status[p] = "ABORT"
  /\ pc[p] \in {"validate_local", "validate_remote"} => READ_VERSIONING

AcquireInv == \A p \in Proc : AcquireOK(p)

LEMMA AcquireOthers ==
  ASSUME NEW p \in Proc, AcquireOK(p), SameFor(p) PROVE AcquireOK(p)'
  BY DEF AcquireOK, SameFor, Inside, Ending

(* Client code and accesses acquire nothing.                               *)
LEMMA AcquireInside ==
  ASSUME NEW p \in Proc, AcquireOK(p), Inside(p), Inside(p)',
         \A n \in Proc : n \notin remote_procs'[n][p],
         \A b \in Block : dataset'[p][b].acquired => dataset[p][b].acquired
  PROVE  AcquireOK(p)'
  BY DEF AcquireOK, Inside, Ending

LEMMA AcquireClient ==
  ASSUME TypeOK, NEW p \in Proc, AcquireOK(p),
         \/ stm_start(p) \/ (\E q \in Proc : stm_on(p, q)) \/ stm_on_reply(p)
         \/ \E x \in Extent, k \in {"GET", "PUT"}, v \in Val \cup {NoVal} : Access(p, x, k, v)
  PROVE  AcquireOK(p)'
  <1>1. UNCHANGED dataset /\ Inside(p) /\ Inside(p)'
    <2>1. UNCHANGED dataset /\ pc[p] = "run"
      BY DEF stm_start, stm_on, stm_on_reply, Access, logVars
    <2>2. UNCHANGED pc \/ pc'[p] = "open"
      BY Typed DEF stm_start, stm_on, stm_on_reply, Access
    <2> QED
      BY <2>1, <2>2 DEF Inside
  <1>2. \A n \in Proc : n \notin remote_procs[n][p]
    BY DEF AcquireOK
  <1>3. CASE stm_start(p) \/ stm_on_reply(p)
    BY <1>1, <1>2, <1>3, AcquireInside DEF stm_start, stm_on_reply, dorVars
  <1>4. ASSUME NEW q \in Proc, stm_on(p, q) PROVE \A n \in Proc : n \notin remote_procs'[n][p]
    BY <1>2, <1>4, Typed DEF stm_on
  <1>5. ASSUME NEW x, NEW k, NEW v, Access(p, x, k, v)
        PROVE  \A n \in Proc : n \notin remote_procs'[n][p]
    <2> DEFINE m == NodeOf[BlockOf(CHOOSE w \in x : TRUE)]
    <2>1. remote_procs' = IF m # site[p] THEN [remote_procs EXCEPT ![site[p]][p] = @ \cup {m}]
                                         ELSE remote_procs
      BY <1>5 DEF Access
    <2> HIDE DEF m
    <2> QED
      BY <1>2, <2>1, Typed
  <1> QED
    BY <1>1, <1>2, <1>3, <1>4, <1>5, AcquireInside

LEMMA AcquireCommit ==
  ASSUME TypeOK, NEW p \in Proc, AcquireOK(p), stm_commit(p) PROVE AcquireOK(p)'
  <1>1. UNCHANGED <<dataset, remote_procs, site>> /\ pc[p] = "run" /\ Depth(p) \in Nat
    BY Typed DEF stm_commit, logVars
  <1>2. \A b \in Block : ~dataset[p][b].acquired
    BY <1>1 DEF AcquireOK, Inside
  <1>3. \/ UNCHANGED pc
        \/ LATE_ACQUIRE /\ BeginRound(p, "acquire_local", {"WRITE"}, {site[p]})
        \/ READ_VERSIONING /\ ~LATE_ACQUIRE /\ BeginRound(p, "validate_local", {"READ"}, {site[p]})
        \/ ~LATE_ACQUIRE /\ BeginFinish(p, "COMMIT")
    <2>1. LATE_ACQUIRE \in BOOLEAN /\ READ_VERSIONING \in BOOLEAN
          /\ ~(LATE_ACQUIRE /\ READ_VERSIONING)
      BY BuildAssumption
    <2>2. CASE Depth(p) > 1
      BY <2>2 DEF stm_commit
    <2>3. CASE ~(Depth(p) > 1) /\ LATE_ACQUIRE
      BY <2>1, <2>3 DEF stm_commit
    <2>4. CASE ~(Depth(p) > 1) /\ READ_VERSIONING
      BY <2>1, <2>4 DEF stm_commit
    <2>5. CASE ~(Depth(p) > 1) /\ ~LATE_ACQUIRE /\ ~READ_VERSIONING
      BY <2>1, <2>5 DEF stm_commit
    <2> QED
      BY <2>2, <2>3, <2>4, <2>5
  <1>4. CASE UNCHANGED pc
    BY <1>1, <1>4, AcquireInside DEF Inside, AcquireOK
  <1>5. CASE LATE_ACQUIRE /\ BeginRound(p, "acquire_local", {"WRITE"}, {site[p]})
    <2>1. pc'[p] = "acquire_local" /\ todo'[p] = EntriesAt(p, {"WRITE"}, {site[p]})
      BY <1>5, Typed DEF BeginRound
    <2> QED
      BY <1>1, <1>2, <2>1 DEF AcquireOK, Inside, Ending, EntriesAt
  <1>6. CASE READ_VERSIONING /\ ~LATE_ACQUIRE
             /\ BeginRound(p, "validate_local", {"READ"}, {site[p]})
    <2>1. pc'[p] = "validate_local"
      BY <1>6, Typed DEF BeginRound
    <2> QED
      BY <1>1, <1>6, <2>1 DEF AcquireOK, Inside, Ending
  <1>7. CASE ~LATE_ACQUIRE /\ BeginFinish(p, "COMMIT")
    <2>1. pc'[p] = "finish_local"
      BY <1>7, Typed DEF BeginFinish
    <2> QED
      BY <1>1, <1>7, <2>1 DEF AcquireOK, Inside, Ending
  <1> QED
    BY <1>3, <1>4, <1>5, <1>6, <1>7

LEMMA AcquireAbort ==
  ASSUME TypeOK, NEW p \in Proc, AcquireOK(p), stm_abort(p) PROVE AcquireOK(p)'
  <1>1. UNCHANGED <<dataset, remote_procs>> /\ Inside(p)
    BY DEF stm_abort, dorVars, logVars, Inside
  <1>2. \/ UNCHANGED pc
        \/ pc'[p] = "finish_local" /\ status'[p] = "ABORT"
    BY Typed DEF stm_abort, BeginFinish
  <1> QED
    BY <1>1, <1>2 DEF AcquireOK, Inside, Ending

(* The request of the second round goes to the recorded nodes; PlaceOK and *)
(* EntriesOK say that those have all the entries that home has not.        *)
LEMMA AcquireRounds ==
  ASSUME TypeOK, NEW p \in Proc, PlaceOK(p), EntriesOK(p), AcquireOK(p), stm_acquire(p)
  PROVE  AcquireOK(p)'
  <1>1. UNCHANGED <<dataset, remote_procs, site>> /\ todo[p] = {} /\ Asking(p)
        /\ pc[p] \in {"acquire_local", "acquire_remote"} /\ site[p] \in Proc
    BY Typed DEF stm_acquire, dorVars, logVars, Asking
  <1>2. CASE pc[p] = "acquire_local" /\ status[p] = "COMMIT"
    <2>1. /\ pc'[p] = "acquire_remote" /\ UNCHANGED status
          /\ todo'[p] = EntriesAt(p, {"WRITE"}, RemoteProcs(p))
      BY <1>2, Typed DEF stm_acquire, BeginRound
    <2>2. site[p] = Outer(p)
      BY <1>1 DEF PlaceOK, Asking, Inside
    <2>3. ASSUME NEW b \in Block, dataset[p][b].type = "WRITE"
          PROVE  dataset[p][b].acquired \/ b \in todo'[p]
      <3>1. NodeOf[b] = site[p] \/ NodeOf[b] \in RemoteProcs(p)
        BY <2>2, <2>3 DEF EntriesOK, Visited, RemoteProcs
      <3> QED
        BY <1>1, <1>2, <2>1, <2>3, <3>1 DEF AcquireOK, EntriesAt
    <2>4. ASSUME NEW b \in todo'[p] PROVE ~dataset[p][b].acquired
      <3>1. b \in Block /\ NodeOf[b] \in RemoteProcs(p) /\ site[p] \notin RemoteProcs(p)
        BY <1>1, <2>1, <2>4 DEF EntriesAt, AcquireOK, RemoteProcs
      <3> QED
        BY <1>2, <3>1 DEF AcquireOK
    <2> QED
      BY <1>1, <2>1, <2>3, <2>4 DEF AcquireOK, Inside, Ending
  <1>3. CASE ~(pc[p] = "acquire_local" /\ status[p] = "COMMIT")
    <2>1. pc'[p] = "finish_local" /\ status'[p] = status[p]
      BY <1>3, Typed DEF stm_acquire, BeginFinish
    <2>2. status[p] = "ABORT" \/ pc[p] = "acquire_remote"
      BY <1>1, <1>3, Typed
    <2> QED
      BY <1>1, <2>1, <2>2 DEF AcquireOK, Inside, Ending
  <1> QED
    BY <1>2, <1>3

LEMMA AcquireValidate ==
  ASSUME TypeOK, NEW p \in Proc, AcquireOK(p), stm_validate(p) PROVE AcquireOK(p)'
  <1>1. /\ UNCHANGED <<dataset, remote_procs>>
        /\ pc[p] \in {"validate_local", "validate_remote"}
    BY DEF stm_validate, dorVars, logVars
  <1>2. pc'[p] \in {"validate_remote", "finish_local"}
    BY Typed DEF stm_validate, BeginRound, BeginFinish
  <1> QED
    BY <1>1, <1>2, BuildAssumption DEF AcquireOK, Inside, Ending

LEMMA AcquireFinishHome ==
  ASSUME TypeOK, LockInv, NEW p \in Proc, PlaceOK(p), EntriesOK(p), AcquireOK(p),
         stm_finish_home(p)
  PROVE  AcquireOK(p)'
  <1>1. UNCHANGED <<dataset, site>> /\ site[p] \in Proc
    BY Typed DEF stm_finish_home, logVars
  <1>2. CASE pc[p] = "finish_local"
    <2>1. pc'[p] = "finish_remote" /\ UNCHANGED <<remote_procs, status>>
      BY <1>2, Typed DEF stm_finish_home
    <2> QED
      BY <1>1, <1>2, <2>1 DEF AcquireOK, Inside, Ending
  <1>3. CASE pc[p] = "finish_remote"
    <2>1. pc'[p] = "run" /\ remote_procs' = [remote_procs EXCEPT ![site[p]][p] = {}]
      BY <1>3, Typed DEF stm_finish_home
    <2>2. \A n \in Proc : n \notin remote_procs'[n][p]
      BY <1>1, <2>1, Typed DEF AcquireOK
    <2>3. \A b \in Block : ~dataset[p][b].acquired
      BY <1>3, EntriesFinishHome DEF NoEntries, LockInv
    <2> QED
      BY <1>1, <2>1, <2>2, <2>3 DEF AcquireOK, Inside, Ending
  <1> QED
    BY <1>2, <1>3 DEF stm_finish_home

LEMMA AcquireOpen ==
  ASSUME TypeOK, NEW p \in Proc, AcquireOK(p), NEW b \in Block,
         open_held(p, b) \/ open_read(p, b) \/ open_write(p, b)
  PROVE  AcquireOK(p)'
  <1> DEFINE d == dataset[p][b]
             e == [NoEntry EXCEPT !.type = "READ",
                     !.old_version = IF READ_VERSIONING THEN meta[b] ELSE 0]
             f == IF LATE_ACQUIRE /\ d.type = "READ"
                  THEN [d EXCEPT !.promoted = TRUE] ELSE d
             g == [f EXCEPT !.type = "WRITE"]
  <1>1. dataset \in [Proc -> [Block -> Entry]] /\ d \in Entry
    BY Typed
  <1>2. \/ UNCHANGED dataset
        \/ dataset' = [dataset EXCEPT ![p][b] = e]
        \/ dataset' = [dataset EXCEPT ![p][b] = f]
        \/ dataset' = [dataset EXCEPT ![p][b] = g]
    BY DEF open_held, open_read, open_write, logVars
  <1>3. ~e.acquired /\ f.acquired = d.acquired /\ g.acquired = d.acquired
    BY <1>1 DEF NoEntry, Entry
  <1> HIDE DEF d, e, f, g
  <1>4. \A c \in Block : dataset'[p][c].acquired => dataset[p][c].acquired
    BY <1>1, <1>2, <1>3 DEF d
  <1>5. Inside(p) /\ Inside(p)'
    BY Typed DEF open_held, open_read, open_write, Opening, Opened, FailOpen, Inside
  <1>6. UNCHANGED remote_procs
    BY DEF open_held, open_read, open_write, dorVars
  <1> QED
    BY <1>4, <1>5, <1>6, AcquireInside DEF AcquireOK

LEMMA AcquireEntry ==
  ASSUME TypeOK, NEW p \in Proc, AcquireOK(p), NEW b \in Block, stm_acquire_entry(p, b)
  PROVE  AcquireOK(p)'
  <1>1. /\ dataset \in [Proc -> [Block -> Entry]] /\ dataset[p][b] \in Entry
        /\ todo \in [Proc -> SUBSET Block] /\ status \in [Proc -> {"COMMIT", "ABORT"}]
    BY Typed
  <1>2. UNCHANGED <<pc, site, remote_procs>> /\ b \in todo[p]
        /\ pc[p] \in {"acquire_local", "acquire_remote"}
    BY DEF stm_acquire_entry, dorVars
  <1>3. CASE Acquirable(p, b)
    <2> DEFINE e == [dataset[p][b] EXCEPT !.acquired = TRUE]
    <2>1. dataset' = [dataset EXCEPT ![p][b] = e] /\ todo'[p] = todo[p] \ {b}
          /\ UNCHANGED status
      BY <1>1, <1>3 DEF stm_acquire_entry
    <2>2. e.acquired /\ e.type = dataset[p][b].type
      BY <1>1 DEF Entry
    <2> HIDE DEF e
    <2>3. dataset'[p][b] = e /\ \A c \in Block \ {b} : dataset'[p][c] = dataset[p][c]
      BY <1>1, <2>1
    <2> QED
      BY <1>1, <1>2, <2>1, <2>2, <2>3 DEF AcquireOK, Inside, Ending
  <1>4. CASE ~Acquirable(p, b)
    <2>1. /\ UNCHANGED dataset /\ status'[p] = "ABORT"
          /\ todo'[p] \subseteq todo[p]
      BY <1>1, <1>4 DEF stm_acquire_entry, Conflict
    <2> QED
      BY <1>2, <2>1 DEF AcquireOK, Inside, Ending
  <1> QED
    BY <1>3, <1>4

LEMMA AcquireOther ==
  ASSUME TypeOK, NEW p \in Proc, AcquireOK(p),
         \/ \E w \in Word : copy_get(p, w) \/ copy_put(p, w)
         \/ \E b \in Block : stm_validate_entry(p, b) \/ stm_finish_entry(p, b)
  PROVE  AcquireOK(p)'
  <1>1. CASE \E w \in Word : copy_get(p, w) \/ copy_put(p, w)
    <2>1. Inside(p) /\ Inside(p)' /\ UNCHANGED <<dataset, remote_procs>>
      BY <1>1, Typed DEF copy_get, copy_put, Copied, dorVars, logVars, Inside
    <2> QED
      BY <2>1, AcquireInside DEF AcquireOK
  <1>2. CASE \E b \in Block : stm_validate_entry(p, b)
    <2>1. /\ pc[p] \in {"validate_local", "validate_remote"}
          /\ UNCHANGED <<pc, dataset, remote_procs>>
      BY <1>2 DEF stm_validate_entry, dorVars, logVars
    <2> QED
      BY <2>1 DEF AcquireOK, Inside, Ending
  <1>3. ASSUME NEW b \in Block, stm_finish_entry(p, b) PROVE AcquireOK(p)'
    <2>1. Ending(p) /\ UNCHANGED <<pc, status, remote_procs>>
      BY <1>3 DEF stm_finish_entry, EntriesAt, Finishing, Ending, dorVars
    <2>2. dataset' = [dataset EXCEPT ![p][b] = NoEntry]
      BY <1>3 DEF stm_finish_entry
    <2>3. /\ dataset'[p][b] = NoEntry /\ NoEntry.type = "NONE"
          /\ \A c \in Block \ {b} : dataset'[p][c] = dataset[p][c]
      BY <2>2, Typed DEF NoEntry
    <2> QED
      BY <2>1, <2>3 DEF AcquireOK, Inside, Ending
  <1> QED
    BY <1>1, <1>2, <1>3

NodeInv == TypeOK /\ LockInv /\ PlaceInv /\ EntriesInv

LEMMA NodeInvariant == ASSUME ~NestedRemote PROVE Spec => []NodeInv
  BY TypeInvariant, LockInvariant, PlaceInvariant, EntriesInvariant, PTL DEF NodeInv

LEMMA AcquireNext == NodeInv /\ AcquireInv /\ [Next]_vars => AcquireInv'
  <1> SUFFICES ASSUME NodeInv, AcquireInv, [Next]_vars, NEW q \in Proc
               PROVE  AcquireOK(q)'
    BY DEF AcquireInv
  <1>1. TypeOK /\ LockInv /\ PlaceOK(q) /\ EntriesOK(q) /\ AcquireOK(q)
    BY DEF NodeInv, PlaceInv, EntriesInv, AcquireInv
  <1>2. CASE UNCHANGED vars
    BY <1>1, <1>2 DEF vars, AcquireOK, Inside, Ending
  <1>3. ASSUME NEW p \in Client, ClientStep(p) \/ StmStep(p) PROVE AcquireOK(q)'
    <2>1. p \in Proc
      BY SystemAssumption
    <2>2. CASE q # p
      BY <1>1, <1>3, <2>1, <2>2, SameForOthers, AcquireOthers
    <2>3. CASE q = p
      <3>1. ASSUME NEW x \in Extent, stm_get(p, x) PROVE AcquireOK(p)'
        BY <1>1, <2>1, <2>3, <3>1, AcquireClient DEF stm_get
      <3>2. ASSUME NEW x \in Extent, NEW v \in Val, stm_put(p, x, v) PROVE AcquireOK(p)'
        BY <1>1, <2>1, <2>3, <3>2, AcquireClient DEF stm_put
      <3>3. CASE InnerStep(p)
        BY <1>1, <2>1, <2>3, <3>3, AcquireOpen, AcquireEntry, AcquireOther DEF InnerStep
      <3> QED
        BY <1>1, <1>3, <2>1, <2>3, <3>1, <3>2, <3>3, StepCases, AcquireClient,
           AcquireCommit, AcquireAbort, AcquireRounds, AcquireValidate, AcquireFinishHome
    <2> QED
      BY <2>2, <2>3
  <1> QED
    BY <1>2, <1>3 DEF Next

LEMMA AcquireInit == Init => AcquireInv
  <1> SUFFICES ASSUME Init, NEW p \in Proc PROVE AcquireOK(p)
    BY DEF AcquireInv
  <1>1. /\ \A n \in Proc : remote_procs[n][p] = {}
        /\ \A b \in Block : dataset[p][b] = NoEntry
        /\ pc[p] = "run"
    BY DEF Init
  <1> QED
    BY <1>1 DEF AcquireOK, NoEntry, Inside, Ending

LEMMA AcquireInvariant == ASSUME ~NestedRemote PROVE Spec => []AcquireInv
  BY NodeInvariant, AcquireInit, AcquireNext, PTL DEF Spec

-----------------------------------------------------------------------------
(* The steps between the accesses, the rounds and the loops of the finish: *)
(* they move no data, and only the start of the finish ends the client's   *)
(* view of the transaction.                                                *)
MoveStep(p) ==
  \/ stm_start(p) \/ (\E q \in Proc : stm_on(p, q)) \/ stm_on_reply(p)
  \/ stm_commit(p) \/ stm_abort(p) \/ stm_acquire(p) \/ stm_validate(p)
  \/ stm_finish_home(p)

Decide(p) ==
  /\ pc'[p] = "finish_local" /\ ~Ending(p)
  /\ rset'[p] = Untouched /\ wset'[p] = Untouched
  /\ \A q \in Proc \ {p} : rset'[q] = rset[q] /\ wset'[q] = wset[q]
  /\ status'[p] = "COMMIT" => pc[p] = "run" \/ Asking(p)
  /\ pc[p] = "run" => Depth(p) > 0

Move(p) ==
  /\ UNCHANGED <<rset, wset>>
  /\ \/ /\ pc[p] = "run" /\ pc'[p] \in {"run", "acquire_local", "validate_local"}
        /\ pc'[p] = "run" /\ Depth(p) > 0 => Depth(p)' > 0
     \/ Asking(p) /\ pc'[p] \in {"acquire_remote", "validate_remote"}
     \/ pc[p] = "failed" /\ pc'[p] = "failed"
     \/ pc[p] = "finish_local" /\ pc'[p] = "finish_remote" /\ UNCHANGED status
     \/ pc[p] = "finish_remote" /\ pc'[p] = "run" /\ stm_finish_home(p)

LEMMA FinishBegins ==
  ASSUME TypeOK, NEW p \in Proc, NEW s, BeginFinish(p, s), ~Ending(p),
         s = "COMMIT" => pc[p] = "run" \/ Asking(p), pc[p] = "run" => Depth(p) > 0
  PROVE  Decide(p)
  BY Typed DEF BeginFinish, Decide

LEMMA MoveOrDecide ==
  ASSUME TypeOK, NEW p \in Proc, MoveStep(p)
  PROVE  UNCHANGED <<dataset, saved, mem>> /\ (Move(p) \/ Decide(p))
  <1>1. /\ site[p] \in Proc /\ pc \in [Proc -> PC] /\ Depth(p) \in Nat
        /\ Depth(p) = tx_depth[site[p]][p] /\ tx_depth \in [Proc -> [Proc -> Nat]]
        /\ status[p] \in {"COMMIT", "ABORT"} /\ site \in [Proc -> Proc]
    BY Typed
  <1>2. CASE stm_start(p)
    <2>1. tx_depth'[site[p]][p] = Depth(p) + 1 /\ UNCHANGED site
      BY <1>1, <1>2 DEF stm_start
    <2>2. Depth(p)' > 0
      BY <1>1, <2>1 DEF Depth
    <2> QED
      BY <1>2, <2>2 DEF stm_start, Move, shared, logVars, viewVars
  <1>3. ASSUME NEW q \in Proc, stm_on(p, q)
        PROVE  UNCHANGED <<dataset, saved, mem>> /\ Move(p)
    <2>1. tx_depth'[q][p] = tx_depth[p][p] /\ site'[p] = q /\ site[p] = p
      BY <1>1, <1>3 DEF stm_on
    <2>2. Depth(p)' = Depth(p)
      BY <1>1, <2>1 DEF Depth
    <2> QED
      BY <1>3, <2>2 DEF stm_on, Move, shared, logVars, viewVars
  <1>4. CASE stm_on_reply(p)
    <2>1. Depth(p)' = Depth(p)
      BY <1>1, <1>4 DEF stm_on_reply, dorVars, Depth
    <2> QED
      BY <1>4, <2>1 DEF stm_on_reply, Move, shared, logVars, viewVars
  <1>5. CASE stm_commit(p)
    <2>1. UNCHANGED <<dataset, saved, mem, site>> /\ pc[p] = "run" /\ Depth(p) > 0
      BY <1>1, <1>5, Typed DEF stm_commit, shared, logVars
    <2>2. CASE Depth(p) > 1
      <3>1. tx_depth'[site[p]][p] = Depth(p) - 1
        BY <1>1, <1>5 DEF stm_commit
      <3>2. Depth(p)' > 0
        BY <1>1, <2>1, <2>2, <3>1 DEF Depth
      <3> QED
        BY <1>5, <2>1, <2>2, <3>2 DEF stm_commit, Move, viewVars
    <2>3. CASE ~(Depth(p) > 1)
      <3>1. \/ BeginRound(p, "acquire_local", {"WRITE"}, {site[p]})
            \/ BeginRound(p, "validate_local", {"READ"}, {site[p]})
            \/ BeginFinish(p, "COMMIT")
        <4>1. CASE LATE_ACQUIRE
          BY <1>5, <2>3, <4>1, BuildAssumption DEF stm_commit
        <4>2. CASE READ_VERSIONING
          BY <1>5, <2>3, <4>2, BuildAssumption DEF stm_commit
        <4>3. CASE ~LATE_ACQUIRE /\ ~READ_VERSIONING
          BY <1>5, <2>3, <4>3 DEF stm_commit
        <4> QED
          BY <4>1, <4>2, <4>3
      <3>2. CASE BeginFinish(p, "COMMIT")
        BY <2>1, <3>2, FinishBegins DEF Ending
      <3>3. CASE ~BeginFinish(p, "COMMIT")
        BY <1>1, <2>1, <3>1, <3>3 DEF BeginRound, Move, viewVars
      <3> QED
        BY <3>2, <3>3, <2>1
    <2> QED
      BY <2>2, <2>3
  <1>6. CASE stm_abort(p)
    <2>1. UNCHANGED <<dataset, saved, mem>> /\ pc[p] = "failed"
      BY <1>6 DEF stm_abort, shared, logVars
    <2>2. CASE TxProc(p) = site[p]
      BY <1>6, <2>1, <2>2, FinishBegins DEF stm_abort, Ending
    <2>3. CASE TxProc(p) # site[p]
      BY <1>6, <2>1, <2>3 DEF stm_abort, Move, viewVars
    <2> QED
      BY <2>1, <2>2, <2>3
  <1>7. CASE stm_acquire(p) \/ stm_validate(p)
    <2>1. UNCHANGED <<dataset, saved, mem>> /\ Asking(p)
      BY <1>7 DEF stm_acquire, stm_validate, shared, logVars, Asking
    <2>2. \/ BeginRound(p, "acquire_remote", {"WRITE"}, RemoteProcs(p))
          \/ BeginRound(p, "validate_remote", {"READ"}, RemoteProcs(p))
          \/ BeginFinish(p, status[p])
      BY <1>7 DEF stm_acquire, stm_validate
    <2>3. CASE BeginFinish(p, status[p])
      BY <2>1, <2>3, FinishBegins DEF Asking, Ending
    <2>4. CASE ~BeginFinish(p, status[p])
      BY <1>1, <2>1, <2>2, <2>4 DEF BeginRound, Move, viewVars
    <2> QED
      BY <2>1, <2>3, <2>4
  <1>8. CASE stm_finish_home(p)
    <2>1. UNCHANGED <<dataset, saved, mem, rset, wset>>
          /\ pc[p] \in {"finish_local", "finish_remote"}
      BY <1>8 DEF stm_finish_home, shared, logVars, viewVars
    <2>2. CASE pc[p] = "finish_local"
      BY <1>1, <1>8, <2>1, <2>2 DEF stm_finish_home, Move
    <2>3. CASE pc[p] = "finish_remote"
      <3>1. pc'[p] = "run"
        BY <1>1, <1>8, <2>3 DEF stm_finish_home
      <3> QED
        BY <1>8, <2>1, <2>3, <3>1 DEF Move
    <2> QED
      BY <2>1, <2>2, <2>3
  <1> QED
    BY <1>2, <1>3, <1>4, <1>5, <1>6, <1>7, <1>8 DEF MoveStep

-----------------------------------------------------------------------------
(* Accesses.  The words still to be copied are in blocks still to be       *)
(* opened or held already, and every block to be opened has one of them.   *)

AccessOK(p) ==
  /\ pc[p] \in {"open", "copy"} =>
       \A w \in op[p].copying : BlockOf(w) \in op[p].opening \/ Held(p, BlockOf(w))
  /\ pc[p] = "open" =>
       \A b \in op[p].opening : \E w \in op[p].copying : BlockOf(w) = b
  /\ pc[p] = "copy" => op[p].opening = {}

AccessInv == \A p \in Proc : AccessOK(p)

LEMMA AccessOthers ==
  ASSUME NEW p \in Proc, AccessOK(p), SameFor(p) PROVE AccessOK(p)'
  BY DEF AccessOK, SameFor, Held

LEMMA OpenedBlock ==
  ASSUME TypeOK, NEW p \in Proc, NEW b, Opened(p, b)
  PROVE  /\ op'[p].kind = op[p].kind /\ op'[p].copying = op[p].copying
         /\ op'[p].val = op[p].val /\ op'[p].opening = op[p].opening \ {b}
         /\ pc'[p] = IF op'[p].opening = {} THEN "copy" ELSE "open"
  <1>1. op \in [Proc -> Op] /\ op[p] \in Op /\ pc \in [Proc -> PC]
    BY Typed
  <1> DEFINE o == [op[p] EXCEPT !.opening = op[p].opening \ {b}]
  <1>2. o.kind = op[p].kind /\ o.copying = op[p].copying
        /\ o.val = op[p].val /\ o.opening = op[p].opening \ {b}
    BY <1>1 DEF Op
  <1>3. op' = [op EXCEPT ![p] = o]
    BY DEF Opened
  <1> HIDE DEF o
  <1> QED
    BY <1>1, <1>2, <1>3 DEF Opened

LEMMA CopiedWord ==
  ASSUME TypeOK, NEW p \in Proc, NEW w, Copied(p, w)
  PROVE  \/ pc'[p] = "run" /\ op[p].copying \subseteq {w}
         \/ /\ pc'[p] = "copy" /\ op'[p].kind = op[p].kind
            /\ op'[p].opening = op[p].opening /\ op'[p].val = op[p].val
            /\ op'[p].copying = op[p].copying \ {w}
  <1>1. op \in [Proc -> Op] /\ op[p] \in Op /\ pc \in [Proc -> PC]
    BY Typed
  <1> DEFINE o == [op[p] EXCEPT !.copying = op[p].copying \ {w}]
  <1>2. o.kind = op[p].kind /\ o.copying = op[p].copying \ {w}
        /\ o.val = op[p].val /\ o.opening = op[p].opening
    BY <1>1 DEF Op
  <1>3. op[p].copying \ {w} # {} => op' = [op EXCEPT ![p] = o]
    BY DEF Copied
  <1> HIDE DEF o
  <1> QED
    BY <1>1, <1>2, <1>3 DEF Copied

(* What the opens do to the entry of the block, and to the access.         *)
LEMMA OpenHeldStep ==
  ASSUME TypeOK, NEW p \in Proc, NEW b \in Block, open_held(p, b)
  PROVE  /\ UNCHANGED <<dataset, saved, mem, rset, wset, status, site, dorVars>>
         /\ pc[p] = "open" /\ b \in op[p].opening /\ Held(p, b) /\ Opened(p, b)
  BY DEF open_held, Opening, shared, logVars, viewVars

LEMMA OpenReadStep ==
  ASSUME TypeOK, NEW p \in Proc, NEW b \in Block, open_read(p, b)
  PROVE  /\ UNCHANGED <<saved, mem, rset, wset, status, site, dorVars>>
         /\ pc[p] = "open" /\ b \in op[p].opening
         /\ op[p].kind = "GET" /\ dataset[p][b].type = "NONE"
         /\ \A c \in Block \ {b} : dataset'[p][c] = dataset[p][c]
         /\ \/ Opened(p, b) /\ dataset'[p][b].type = "READ" /\ ~test_write_bit(meta[b])
            \/ pc'[p] = "failed" /\ UNCHANGED dataset /\ test_write_bit(meta[b])
  <1> DEFINE e == [NoEntry EXCEPT !.type = "READ",
                     !.old_version = IF READ_VERSIONING THEN meta[b] ELSE 0]
  <1>1. dataset \in [Proc -> [Block -> Entry]] /\ dataset[p][b] \in Entry
        /\ pc \in [Proc -> PC]
    BY Typed
  <1>2. /\ UNCHANGED <<saved, mem, rset, wset, status, site, dorVars>>
        /\ pc[p] = "open" /\ b \in op[p].opening /\ op[p].kind = "GET" /\ ~Held(p, b)
    BY DEF open_read, Opening, viewVars
  <1>3. dataset[p][b].type = "NONE"
    BY <1>1, <1>2 DEF Held, Entry
  <1>4. \/ Opened(p, b) /\ dataset' = [dataset EXCEPT ![p][b] = e] /\ ~test_write_bit(meta[b])
        \/ FailOpen(p) /\ UNCHANGED dataset /\ test_write_bit(meta[b])
    BY DEF open_read
  <1>5. e.type = "READ"
    BY DEF NoEntry
  <1> HIDE DEF e
  <1>6. CASE Opened(p, b) /\ dataset' = [dataset EXCEPT ![p][b] = e] /\ ~test_write_bit(meta[b])
    BY <1>1, <1>2, <1>3, <1>5, <1>6
  <1>7. CASE FailOpen(p) /\ UNCHANGED dataset /\ test_write_bit(meta[b])
    BY <1>1, <1>2, <1>3, <1>7 DEF FailOpen
  <1> QED
    BY <1>4, <1>6, <1>7

LEMMA OpenWriteStep ==
  ASSUME TypeOK, NEW p \in Proc, NEW b \in Block, open_write(p, b)
  PROVE  /\ UNCHANGED <<mem, rset, wset, status, site, dorVars>>
         /\ pc[p] = "open" /\ b \in op[p].opening
         /\ op[p].kind = "PUT" /\ dataset[p][b].type \in {"NONE", "READ"}
         /\ \A c \in Block \ {b} : dataset'[p][c] = dataset[p][c]
         /\ dataset[p][b].promoted => dataset'[p][b].promoted
         /\ dataset[p][b].type = "READ" /\ LATE_ACQUIRE => dataset'[p][b].promoted
         /\ dataset'[p][b].acquired = dataset[p][b].acquired
         /\ \/ /\ Opened(p, b) /\ dataset'[p][b].type = "WRITE" /\ WriteGrantable(p, b)
               /\ \A w \in Word : saved'[p][w] = IF BlockOf(w) = b THEN mem[w]
                                                   ELSE saved[p][w]
            \/ /\ pc'[p] = "failed" /\ UNCHANGED saved /\ ~WriteGrantable(p, b)
               /\ dataset'[p][b].type = dataset[p][b].type
  <1> DEFINE d == dataset[p][b]
             e == IF LATE_ACQUIRE /\ d.type = "READ"
                  THEN [d EXCEPT !.promoted = TRUE] ELSE d
             f == [e EXCEPT !.type = "WRITE"]
             g == [w \in Word |-> IF BlockOf(w) = b THEN mem[w] ELSE saved[p][w]]
  <1>1. dataset \in [Proc -> [Block -> Entry]] /\ d \in Entry
        /\ pc \in [Proc -> PC] /\ saved \in [Proc -> [Word -> Val]]
    BY Typed
  <1>2. /\ UNCHANGED <<mem, rset, wset, status, site, dorVars>>
        /\ pc[p] = "open" /\ b \in op[p].opening /\ op[p].kind = "PUT" /\ ~Held(p, b)
    BY DEF open_write, Opening, viewVars
  <1>3. d.type \in {"NONE", "READ"}
    BY <1>1, <1>2 DEF Held, Entry
  <1>4. \/ /\ Opened(p, b) /\ WriteGrantable(p, b) /\ dataset' = [dataset EXCEPT ![p][b] = f]
           /\ saved' = [saved EXCEPT ![p] = g]
        \/ /\ FailOpen(p) /\ ~WriteGrantable(p, b) /\ dataset' = [dataset EXCEPT ![p][b] = e]
           /\ UNCHANGED saved
    BY DEF open_write
  <1>5. /\ e.type = d.type /\ f.type = "WRITE" /\ e.acquired = d.acquired
        /\ f.acquired = d.acquired /\ f.promoted = e.promoted
        /\ d.promoted => e.promoted
        /\ d.type = "READ" /\ LATE_ACQUIRE => e.promoted
    BY <1>1 DEF Entry
  <1>6. \A w \in Word : g[w] = IF BlockOf(w) = b THEN mem[w] ELSE saved[p][w]
    OBVIOUS
  <1> HIDE DEF d, e, f, g
  <1>7. CASE /\ Opened(p, b) /\ WriteGrantable(p, b) /\ dataset' = [dataset EXCEPT ![p][b] = f]
             /\ saved' = [saved EXCEPT ![p] = g]
    <2>1. dataset'[p][b] = f /\ saved'[p] = g
          /\ \A c \in Block \ {b} : dataset'[p][c] = dataset[p][c]
      BY <1>1, <1>7
    <2> QED
      BY <1>2, <1>3, <1>5, <1>6, <1>7, <2>1 DEF d
  <1>8. CASE /\ FailOpen(p) /\ ~WriteGrantable(p, b) /\ dataset' = [dataset EXCEPT ![p][b] = e]
             /\ UNCHANGED saved
    <2>1. dataset'[p][b] = e /\ pc'[p] = "failed"
          /\ \A c \in Block \ {b} : dataset'[p][c] = dataset[p][c]
      BY <1>1, <1>8 DEF FailOpen
    <2> QED
      BY <1>2, <1>3, <1>5, <1>8, <2>1 DEF d
  <1> QED
    BY <1>4, <1>7, <1>8

LEMMA AccessOpen ==
  ASSUME TypeOK, NEW p \in Proc, AccessOK(p), NEW b \in Block,
         open_held(p, b) \/ open_read(p, b) \/ open_write(p, b)
  PROVE  AccessOK(p)'
  <1>1. /\ pc[p] = "open" /\ \A c \in Block \ {b} : dataset'[p][c] = dataset[p][c]
        /\ \/ pc'[p] = "failed"
           \/ /\ Opened(p, b)
              /\ \/ dataset'[p][b].type = "WRITE"
                 \/ dataset'[p][b].type = "READ" /\ op[p].kind = "GET"
    BY OpenHeldStep, OpenReadStep, OpenWriteStep DEF Held
  <1>2. CASE pc'[p] = "failed"
    BY <1>2 DEF AccessOK
  <1>3. CASE Opened(p, b) /\ pc'[p] # "failed"
    <2>1. op[p].copying \subseteq Word
      BY Typed DEF Op
    <2> QED
      BY <1>1, <1>3, <2>1, OpenedBlock, BlockOfWord DEF AccessOK, Held
  <1> QED
    BY <1>1, <1>2, <1>3

LEMMA AccessNext == NodeInv /\ AccessInv /\ [Next]_vars => AccessInv'
  <1> SUFFICES ASSUME NodeInv, AccessInv, [Next]_vars, NEW q \in Proc
               PROVE  AccessOK(q)'
    BY DEF AccessInv
  <1>1. TypeOK /\ AccessOK(q)
    BY DEF NodeInv, AccessInv
  <1>2. CASE UNCHANGED vars
    BY <1>1, <1>2 DEF vars, AccessOK, Held
  <1>3. ASSUME NEW p \in Client, ClientStep(p) \/ StmStep(p) PROVE AccessOK(q)'
    <2>1. p \in Proc
      BY SystemAssumption
    <2>2. CASE q # p
      BY <1>1, <1>3, <2>1, <2>2, SameForOthers, AccessOthers
    <2>3. CASE q = p
      <3>1. ASSUME NEW x \in Extent, NEW k, NEW v, Access(p, x, k, v) PROVE AccessOK(p)'
        <4> DEFINE o == [kind |-> k, copying |-> x, val |-> v,
                         opening |-> { BlockOf(w) : w \in x }]
        <4>1. op'[p] = o /\ pc'[p] = "open"
          BY <1>1, <2>1, <3>1, Typed DEF Access
        <4>2. op'[p].opening = { BlockOf(w) : w \in x } /\ op'[p].copying = x
          BY <4>1
        <4> QED
          BY <4>1, <4>2 DEF AccessOK
      <3>2. ASSUME NEW w \in Word, copy_get(p, w) \/ copy_put(p, w) PROVE AccessOK(p)'
        <4>1. Copied(p, w) /\ UNCHANGED dataset /\ pc[p] = "copy"
          BY <3>2 DEF copy_get, copy_put, logVars
        <4> QED
          BY <1>1, <2>1, <2>3, <4>1, CopiedWord DEF AccessOK, Held
      <3>3. ASSUME NEW b \in Block, \/ stm_acquire_entry(p, b) \/ stm_validate_entry(p, b)
                                    \/ stm_finish_entry(p, b)
            PROVE  AccessOK(p)'
        BY <3>3 DEF stm_acquire_entry, stm_validate_entry, stm_finish_entry,
                    EntriesAt, Finishing, AccessOK
      <3>4. CASE MoveStep(p)
        <4>1. pc'[p] \notin {"open", "copy"}
          BY <1>1, <2>1, <3>4, MoveOrDecide DEF Move, Decide
        <4> QED
          BY <2>3, <4>1 DEF AccessOK
      <3> QED
        BY <1>1, <1>3, <2>1, <2>3, <3>1, <3>2, <3>3, <3>4, StepCases, AccessOpen
        DEF InnerStep, MoveStep, stm_get, stm_put
    <2> QED
      BY <2>2, <2>3
  <1> QED
    BY <1>2, <1>3 DEF Next

LEMMA AccessInit == Init => AccessInv
  BY DEF Init, AccessInv, AccessOK

LEMMA AccessInvariant == ASSUME ~NestedRemote PROVE Spec => []AccessInv
  BY NodeInvariant, AccessInit, AccessNext, PTL DEF Spec
=============================================================================

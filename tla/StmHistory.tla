---------------------------- MODULE StmHistory ----------------------------
(***************************************************************************)
(* StmDistrib with a record of what each committed transaction read and    *)
(* wrote, to ask of the builds that do not implement AtomicTM step by step *)
(* whether their committed transactions are serializable at all.           *)
(***************************************************************************)
EXTENDS StmDistribProps, Sequences

CONSTANT MaxCommits  \* bound on the committed transactions recorded

VARIABLE history     \* the [reads, writes] of each, in the order they committed

HInit == Init /\ history = <<>>

(* The step that decides that p's transaction commits.                     *)
Decides(p) == /\ pc[p] # "finish_local" /\ pc'[p] = "finish_local"
              /\ status'[p] = "COMMIT"

HNext ==
  /\ Next
  /\ \/ \E p \in Client :
          /\ Decides(p)
          /\ Len(history) < MaxCommits
          /\ history' = Append(history, [reads |-> rset[p], writes |-> wset[p]])
     \/ (\A p \in Client : ~Decides(p)) /\ UNCHANGED history

HSpec == HInit /\ [][HNext]_<<vars, history>>

S == INSTANCE Serializability

(* The committed transactions could have run one after the other, in some  *)
(* order: the STM's transactions guarantee serializability.                *)
Serializable == S!SerializableHistory(history)
=============================================================================

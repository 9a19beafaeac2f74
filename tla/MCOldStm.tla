------------------------------ MODULE MCOldStm ------------------------------
(* Small instances of StmBase for TLC.                                     *)
EXTENDS StmBase

NodesAlternate == [b \in Block |-> b % NumProcs]

(* With MaxCommits transactions committed, clients are done; any other     *)
(* state without a next one is a deadlock.                                 *)
Done ==
  /\ Len(history) >= MaxCommits /\ \A p \in Proc : pc[p] = "idle"
  /\ net = EmptyBag
  /\ UNCHANGED vars

MCSpec == Init /\ [][Next \/ Done]_vars

(* Behaviours that stop at the first acquire that is overtaken: what is    *)
(* claimed of blocks on which none has been is checked up to there.        *)
Overtaken == overtaken # {} /\ UNCHANGED vars

(* Nesting is a count that only its own processor sees: one nests.         *)
OneNests == \A p \in Proc \ {0} : nesting_count'[p] < 2

UntilOvertaken ==
  Init /\ [][(overtaken = {} /\ Next /\ OneNests) \/ Done \/ Overtaken]_vars
=============================================================================

------------------------------ MODULE AtomicTM ------------------------------
(***************************************************************************)
(* What a transactional memory promises its clients: a single store that   *)
(* changes only when a transaction commits, and then by all of its writes  *)
(* at once; every read of a live transaction returns the committed value   *)
(* (or the transaction's own write), and a transaction commits only if     *)
(* everything it read is still committed.                                  *)
(***************************************************************************)
CONSTANTS Proc, Word, Val, NoVal, InitVal

VARIABLES
  store,   \* the committed values
  live,    \* the processors with an open transaction
  rset,    \* the values each open transaction has read ...
  wset     \* ... and written; NoVal for the words it has not

vars == <<store, live, rset, wset>>

Untouched == [w \in Word |-> NoVal]

Init ==
  /\ store = [w \in Word |-> InitVal]
  /\ live = {}
  /\ rset = [p \in Proc |-> Untouched]
  /\ wset = [p \in Proc |-> Untouched]

Begin(p) ==
  /\ p \notin live
  /\ live' = live \cup {p}
  /\ UNCHANGED <<store, rset, wset>>

Read(p, w) ==
  /\ p \in live /\ wset[p][w] = NoVal
  /\ rset' = [rset EXCEPT ![p][w] = store[w]]
  /\ UNCHANGED <<store, live, wset>>

Write(p, w, v) ==
  /\ p \in live
  /\ wset' = [wset EXCEPT ![p][w] = v]
  /\ UNCHANGED <<store, live, rset>>

End(p) ==
  /\ p \in live
  /\ live' = live \ {p}
  /\ rset' = [rset EXCEPT ![p] = Untouched]
  /\ wset' = [wset EXCEPT ![p] = Untouched]

Commit(p) ==
  /\ End(p)
  /\ \A w \in Word : rset[p][w] \in {NoVal, store[w]}
  /\ store' = [w \in Word |-> IF wset[p][w] = NoVal THEN store[w]
                              ELSE wset[p][w]]

Abort(p) == End(p) /\ UNCHANGED store

Next == \E p \in Proc :
  \/ Begin(p) \/ Commit(p) \/ Abort(p)
  \/ \E w \in Word : Read(p, w) \/ \E v \in Val : Write(p, w, v)

Spec == Init /\ [][Next]_vars
=============================================================================

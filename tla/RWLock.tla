------------------------------- MODULE RWLock -------------------------------
(***************************************************************************)
(* What a reader/writer lock of the GRT promises: any number of processors *)
(* hold it for reading, or one holds it for writing.  Who comes first is   *)
(* left open.                                                              *)
(***************************************************************************)
CONSTANT Proc

VARIABLE held   \* held[p]: how processor p holds the lock

Init == held = [p \in Proc |-> "NONE"]

Compatible(t) ==
  \A q \in Proc : held[q] = "NONE" \/ (held[q] = "READ" /\ t = "READ")

Acquire(p, t) ==
  /\ held[p] = "NONE" /\ Compatible(t)
  /\ held' = [held EXCEPT ![p] = t]

Release(p) ==
  /\ held[p] # "NONE"
  /\ held' = [held EXCEPT ![p] = "NONE"]

Next ==
  \E p \in Proc : Release(p) \/ \E t \in {"READ", "WRITE"} : Acquire(p, t)

Spec == Init /\ [][Next]_held
=============================================================================

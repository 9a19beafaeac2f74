-------------------------- MODULE Serializability --------------------------
(***************************************************************************)
(* What it means that a history of committed transactions, each given by   *)
(* the values it read and wrote, is serializable.                          *)
(***************************************************************************)
EXTENDS Naturals, Sequences

CONSTANTS Word, InitVal, NoVal

(* What the i-th transaction of s read from w is what the last one before  *)
(* it to write w wrote, or what w had at first.                            *)
ReadsLast(s, i, w) ==
  LET before == { j \in 1 .. i - 1 : s[j].writes[w] # NoVal } IN
  \/ before = {} /\ s[i].reads[w] = InitVal
  \/ \E j \in before : /\ \A k \in before : k <= j
                       /\ s[i].reads[w] = s[j].writes[w]

(* Run in the order s, each transaction would have read what it did read.  *)
Explains(s) ==
  \A i \in 1 .. Len(s), w \in Word : s[i].reads[w] # NoVal => ReadsLast(s, i, w)

(* The orders of n transactions: f[i] is the i-th to run.                  *)
Orders(n) == { f \in [1 .. n -> 1 .. n] : \A i, j \in 1 .. n : i # j => f[i] # f[j] }

Reordered(h, f) == [i \in 1 .. Len(h) |-> h[f[i]]]

SerializableHistory(h) == \E f \in Orders(Len(h)) : Explains(Reordered(h, f))

(* In an order, too, in which every transaction comes after those that had *)
(* committed when it began (h[i].began is their number).                   *)
StrictlySerializableHistory(h) ==
  \E f \in Orders(Len(h)) :
    /\ Explains(Reordered(h, f))
    /\ \A i, j \in 1 .. Len(h) : i < j => f[j] > h[f[i]].began
=============================================================================

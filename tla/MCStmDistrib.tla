--------------------------- MODULE MCStmDistrib ---------------------------
(* Small instances of StmDistrib for TLC.                                  *)
EXTENDS StmDistribProps

(* Where the blocks live: alternating between nodes 0 and 1, all on the    *)
(* last node, or each on the node after the one of its number.             *)
NodesAlternate == [b \in Block |-> b % 2]
NodesLast == [b \in Block |-> NumProcs - 1]
NodesUpper == [b \in Block |-> b + 1]

(* Accesses of single words, of all words as one range, and of the two     *)
(* words around the boundary between the blocks {0, 1} and {2, 3}.         *)
Singles == { {w} : w \in Word }
Whole == {Word}
SinglesAndPair == { {0}, {2}, {1, 2} }
=============================================================================

--------------------------- MODULE MCStmHistory ---------------------------
(* Small instances of StmHistory for TLC.                                  *)
EXTENDS StmHistory

NodesAlternate == [b \in Block |-> b % 2]
Singles == { {w} : w \in Word }
=============================================================================

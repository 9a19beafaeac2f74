----------------------------- MODULE MCGrtAlloc -----------------------------
(* Small instances of GrtAlloc for TLC: fragments are quarter blocks.      *)
EXTENDS GrtAlloc

Quarters == <<4>>
OneBlock == { [log |-> 0, blocks |-> 1] }
=============================================================================

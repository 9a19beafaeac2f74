----------------------------- MODULE MCGrtLock -----------------------------
(* Small instances of GrtLock for TLC, with locks on all nodes.            *)
EXTENDS GrtLock

HomesSpread == [l \in Lock |-> l % NumProcs]
=============================================================================

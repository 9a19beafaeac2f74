------------------------------ MODULE MCSsca2 -------------------------------
(* An instance of Ssca2: one graph of six vertices.                        *)
EXTENDS Ssca2

GraphOf(E) ==
  [v \in Vertex |-> {u \in Vertex : <<u, v>> \in E \/ <<v, u>> \in E}]

(* Vertices 3 and 2 stand between 0 and 4, 5: each may be next to a        *)
(* cluster of its own node's processor and to one of the other's.          *)
Links == {<<0, 3>>, <<1, 3>>, <<2, 3>>, <<1, 2>>, <<1, 4>>, <<4, 5>>}
TwoClusters == {GraphOf(Links)}
=============================================================================

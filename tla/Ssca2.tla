------------------------------- MODULE Ssca2 --------------------------------
(***************************************************************************)
(* The graph clustering benchmark src/Benchmarks/ssca2/parallel, built     *)
(* with locks (no STM, no NB_ON; NO_RETRY is 1): cut_clusters.cpp and the  *)
(* handlers of ssca2_handler.c. Each processor goes through the vertices   *)
(* of its node once. From each it collects a candidate set, locking every  *)
(* vertex it looks at wherever it lives, claims the best part of it as a   *)
(* cluster and takes the links to the cluster out of the remaining graph.  *)
(* A lock that fails makes it give everything back and go on.              *)
(*                                                                         *)
(* A node's own processor runs the handlers' code itself and the node's    *)
(* polling thread runs it for others, at the same time. The steps are the  *)
(* stretches of that code between two accesses to vertices that others may *)
(* get at; what a processor computes from its own data belongs to the step *)
(* before it.                                                              *)
(***************************************************************************)
EXTENDS Naturals, Sequences, FiniteSets, FiniteSetsExt, Functions, SequencesExt

CONSTANTS
  NumProcs,        \* grt_num_procs
  local_num_v,     \* number of vertices of each processor
  Graphs,          \* the graphs to start from: each a symmetric function from
                   \* Vertex to SUBSET Vertex, no vertex next to itself
  MaxClusterSize,  \* max_cluster_size
  StartSearch,     \* start_search, from alpha and max_cluster_size
  LinkWeight,      \* link_weight
  Uninit           \* what words behind the end of arg_buf may be

Proc == 0 .. NumProcs - 1
Vertex == 0 .. NumProcs * local_num_v - 1

VARIABLES
  graph,                \* adjLists of the graph read, which stays
  remaining_adj_lists,  \* the copy that is cut
  vertex_states,        \* 0 claimed, 1 available, p + 2 locked by p
  vertex_cache,         \* of each processor: the lists of the vertices it locked
  cluster_set,          \* of each processor: the clusters it claimed, in a row
  index,                \* where each processor is in its vertices
  cluster,              \* the candidates, then the cluster, in order
  next_v,               \* the next candidate
  pc, why,              \* where it is, and what it calls lock_all for
  wanted,               \* the vertices lock_all has still to ask for
  results,              \* the answers of a node, as [v, state, list]
  failed,               \* whether lock_all's status is FAIL
  adj_set_to_cluster,   \* the vertices next to the cluster
  nodes,                \* the nodes claim_vertices has still to visit
  residual,             \* the vertices update_adj_list has still to unlock
  buf, buf_idx          \* the lists it has to put back, and how far it is

shared == <<graph, remaining_adj_lists, vertex_states>>
locking == <<wanted, results, failed>>
claiming == <<adj_set_to_cluster, nodes, residual, buf, buf_idx>>
vars == <<shared, vertex_cache, cluster_set, index, cluster, next_v, pc, why,
          locking, claiming>>

PROC(v) == v \div local_num_v
AtNode(n, S) == {v \in S : PROC(v) = n}
(* The vertex of node n that a word of a message stands for there.         *)
IDX(n, w) == n * local_num_v + (w % local_num_v)
Ascending(S) == SetToSortSeq(S, <)

Init ==
  /\ graph \in Graphs
  /\ remaining_adj_lists = [v \in Vertex |-> Ascending(graph[v])]
  /\ vertex_states = [v \in Vertex |-> IF graph[v] = {} THEN 0 ELSE 1]
  /\ vertex_cache = [p \in Proc |-> <<>>]
  /\ cluster_set = [p \in Proc |-> <<>>]
  /\ index = [p \in Proc |-> 0]
  /\ cluster = [p \in Proc |-> <<>>]
  /\ next_v = [p \in Proc |-> 0]
  /\ pc = [p \in Proc |-> "choose"]
  /\ why = [p \in Proc |-> "seed"]
  /\ wanted = [p \in Proc |-> {}]
  /\ results = [p \in Proc |-> <<>>]
  /\ failed = [p \in Proc |-> FALSE]
  /\ adj_set_to_cluster = [p \in Proc |-> {}]
  /\ nodes = [p \in Proc |-> {}]
  /\ residual = [p \in Proc |-> {}]
  /\ buf = [p \in Proc |-> <<>>]
  /\ buf_idx = [p \in Proc |-> 1]

-----------------------------------------------------------------------------
(* lock_all                                                                *)

(* The call: it asks for the vertices p has not locked yet.                *)
lock_all(p, V) ==
  LET new == V \ DOMAIN vertex_cache[p] IN
  /\ wanted' = [wanted EXCEPT ![p] = new]
  /\ pc' = [pc EXCEPT ![p] = IF new = {} THEN "answered" ELSE "locking"]

Lockable(state) == state = 1

(* One round of the loop of lock_all_local, for p on the vertex's node.    *)
lock_all_local(p) ==
  LET v == Min(wanted[p])
      rest == wanted[p] \ {v} IN
  /\ pc[p] = "locking"
  /\ results' = [results EXCEPT ![p] =
       Append(@, [v |-> v, state |-> vertex_states[v],
                  list |-> remaining_adj_lists[v]])]
  /\ vertex_states' = [vertex_states EXCEPT ![v] =
       IF Lockable(@) THEN p + 2 ELSE @]
  /\ wanted' = [wanted EXCEPT ![p] = rest]
  /\ pc' = [pc EXCEPT ![p] =
       IF AtNode(PROC(v), rest) = {} THEN "answered" ELSE "locking"]
  /\ UNCHANGED <<graph, remaining_adj_lists, vertex_cache, cluster_set, index,
                 cluster, next_v, why, failed, claiming>>

Failures(p) == {k \in DOMAIN results[p] : results[p][k].state # 1}

(* The cache with the first n answers.                                     *)
CacheWith(p, n) ==
  LET got == {k \in 1 .. n : results[p][k].state = 1} IN
  [v \in DOMAIN vertex_cache[p] \cup {results[p][k].v : k \in got} |->
     IF \E k \in got : results[p][k].v = v
     THEN (CHOOSE r \in {results[p][k] : k \in got} : r.v = v).list
     ELSE vertex_cache[p][v]]

(* An answer that is not AVAILABLE: everything cached so far is unlocked,  *)
(* and the answers behind it are looked at afterwards.                     *)
vertex_taken(p) ==
  LET k == Min(Failures(p)) IN
  /\ pc[p] = "answered" /\ Failures(p) # {}
  /\ vertex_cache' = [vertex_cache EXCEPT ![p] = CacheWith(p, k - 1)]
  /\ results' = [results EXCEPT ![p] = SubSeq(@, k + 1, Len(@))]
  /\ failed' = [failed EXCEPT ![p] = TRUE]
  /\ pc' = [pc EXCEPT ![p] = "unlocking"]
  /\ UNCHANGED <<shared, cluster_set, index, cluster, next_v, why, wanted, claiming>>

(* unlock_all, one round of the loop of write_vertices_local each.         *)
unlock_all(p) ==
  LET mine == DOMAIN vertex_cache[p]
      v == Min(mine) IN
  /\ pc[p] = "unlocking"
  /\ \/ /\ mine # {}
        /\ vertex_states' = [vertex_states EXCEPT ![v] = 1]
        /\ vertex_cache' = [vertex_cache EXCEPT ![p] = Restrict(@, mine \ {v})]
        /\ UNCHANGED pc
     \/ /\ mine = {}
        /\ pc' = [pc EXCEPT ![p] = "answered"]
        /\ UNCHANGED <<vertex_states, vertex_cache>>
  /\ UNCHANGED <<graph, remaining_adj_lists, cluster_set, index, cluster, next_v,
                 why, locking, claiming>>

(* The answers of a node have all been looked at: lock_all goes to the     *)
(* next node or returns SUCCEED, unless it has failed.                     *)
lock_all_goes_on(p) ==
  /\ pc[p] = "answered" /\ Failures(p) = {} /\ ~failed[p]
  /\ vertex_cache' = [vertex_cache EXCEPT ![p] = CacheWith(p, Len(results[p]))]
  /\ results' = [results EXCEPT ![p] = <<>>]
  /\ pc' = [pc EXCEPT ![p] = IF wanted[p] = {} THEN "locked" ELSE "locking"]
  /\ UNCHANGED <<shared, cluster_set, index, cluster, next_v, why, wanted, failed,
                 claiming>>

lock_all_fails(p) ==
  /\ pc[p] = "answered" /\ Failures(p) = {} /\ failed[p]
  /\ vertex_cache' = [vertex_cache EXCEPT ![p] = CacheWith(p, Len(results[p]))]
  /\ results' = [results EXCEPT ![p] = <<>>]
  /\ failed' = [failed EXCEPT ![p] = FALSE]
  /\ wanted' = [wanted EXCEPT ![p] = {}]
  /\ index' = [index EXCEPT ![p] = @ + 1]
  /\ pc' = [pc EXCEPT ![p] = "choose"]
  /\ UNCHANGED <<shared, cluster_set, cluster, next_v, why, claiming>>

-----------------------------------------------------------------------------
(* cut_clusters and compute_cluster                                        *)

vertex_is_taken(p) ==
  /\ pc[p] = "choose" /\ index[p] < local_num_v
  /\ vertex_states[p * local_num_v + index[p]] = 0
  /\ index' = [index EXCEPT ![p] = @ + 1]
  /\ UNCHANGED <<shared, vertex_cache, cluster_set, cluster, next_v, pc, why,
                 locking, claiming>>

choose_vertex(p) ==
  LET v == p * local_num_v + index[p] IN
  /\ pc[p] = "choose" /\ index[p] < local_num_v
  /\ vertex_states[v] # 0
  /\ next_v' = [next_v EXCEPT ![p] = v]
  /\ why' = [why EXCEPT ![p] = "seed"]
  /\ lock_all(p, {v})
  /\ UNCHANGED <<shared, vertex_cache, cluster_set, index, cluster, results, failed,
                 claiming>>

Adjacent(p, v) == Range(vertex_cache[p][v])

(* adj_counts_to_cluster and adj_set_to_cluster for the candidates cl.     *)
adj_count(p, cl, v) == Cardinality({u \in Range(cl) : v \in Adjacent(p, u)})
adj_set(p, cl) == UNION {Adjacent(p, u) : u \in Range(cl)} \ Range(cl)
new_adj(p, cl, v) == Adjacent(p, v) \ Range(cl)

(* find_next_v: the first vertex that brings nothing new, or else the one  *)
(* most linked to the cluster, with the fewest new adjacencies among       *)
(* equals, and the first of those.                                         *)
find_next_v(p, cl) ==
  LET adj == adj_set(p, cl)
      inner == {v \in adj : new_adj(p, cl, v) \subseteq adj}
      cn(v) == MapThenSumSet(LAMBDA u : adj_count(p, cl, u), new_adj(p, cl, v))
               + LinkWeight * adj_count(p, cl, v)
      fanout(v) == Cardinality(new_adj(p, cl, v))
      better(v, w) == \/ cn(v) > cn(w)
                      \/ cn(v) = cn(w) /\ fanout(v) < fanout(w)
      best == {v \in adj : \A w \in adj : ~better(w, v)} IN
  IF inner # {} THEN Min(inner) ELSE Min(best)

(* The links that a cut behind the first n candidates cuts; those to       *)
(* vertex 0 are not counted.                                               *)
cn_len(p, n) ==
  LET cl == SubSeq(cluster[p], 1, n) IN
  MapThenSumSet(LAMBDA v : adj_count(p, cl, v), adj_set(p, cl) \ {0})

(* The last best cut of those that were looked at, if any was.             *)
Cut(p) ==
  LET size == Len(cluster[p])
      tried == {n \in 2 .. size : n >= StartSearch} IN
  IF tried = {} THEN size
  ELSE Max({n \in tried : \A m \in tried : cn_len(p, n) <= cn_len(p, m)})

start_cluster(p) ==
  /\ pc[p] = "locked" /\ why[p] = "seed"
  /\ cluster' = [cluster EXCEPT ![p] = <<next_v[p]>>]
  /\ why' = [why EXCEPT ![p] = "adjacent"]
  /\ lock_all(p, Adjacent(p, next_v[p]))
  /\ UNCHANGED <<shared, vertex_cache, cluster_set, index, next_v, results, failed,
                 claiming>>

(* A round of the loop of compute_cluster, from add_next_v (which the      *)
(* first round does not have) to the next call of lock_all, or its end.    *)
Candidates(p) ==
  IF why[p] = "adjacent" THEN cluster[p] ELSE Append(cluster[p], next_v[p])

Complete(p, cl) ==
  \/ adj_set(p, cl) = {}
  \/ why[p] = "grow" /\ Len(cl) >= StartSearch /\ Len(cl) >= MaxClusterSize

grow_cluster(p) ==
  LET cl == Candidates(p)
      v == find_next_v(p, cl) IN
  /\ pc[p] = "locked" /\ why[p] # "seed"
  /\ cluster' = [cluster EXCEPT ![p] = cl]
  /\ \/ /\ ~Complete(p, cl)
        /\ next_v' = [next_v EXCEPT ![p] = v]
        /\ why' = [why EXCEPT ![p] = "grow"]
        /\ lock_all(p, new_adj(p, cl, v))
     \/ /\ Complete(p, cl)
        /\ pc' = [pc EXCEPT ![p] = "computed"]
        /\ UNCHANGED <<next_v, why, wanted>>
  /\ UNCHANGED <<shared, vertex_cache, cluster_set, index, results, failed, claiming>>

-----------------------------------------------------------------------------
(* claim_vertices                                                          *)

(* What the cache keeps when the vertices of cl are claimed.               *)
Unclaimed(p, cl) == DOMAIN vertex_cache[p] \ Range(cl)

claim_vertices(p) ==
  LET cl == SubSeq(cluster[p], 1, Cut(p))
      rest == Unclaimed(p, cl) IN
  /\ pc[p] = "computed"
  /\ cluster' = [cluster EXCEPT ![p] = cl]
  /\ vertex_cache' = [vertex_cache EXCEPT ![p] = Restrict(@, rest)]
  /\ adj_set_to_cluster' = [adj_set_to_cluster EXCEPT ![p] = adj_set(p, cl)]
  /\ nodes' = [nodes EXCEPT ![p] = {PROC(v) : v \in Range(cl) \cup rest}]
  /\ pc' = [pc EXCEPT ![p] = "visiting"]
  /\ UNCHANGED <<shared, cluster_set, index, next_v, why, locking, residual, buf,
                 buf_idx>>

(* A list without its links to the cluster.                                *)
Kept(p, v) ==
  SelectSeq(vertex_cache[p][v], LAMBDA u : u \notin Range(cluster[p]))

Entry(p, v) == <<v, Len(Kept(p, v))>> \o Kept(p, v)

(* The buffer for a node, and the first loop of update_adj_list_local.     *)
visit_node(p) ==
  LET n == Min(nodes[p])
      claimed == AtNode(n, Range(cluster[p]))
      cached == AtNode(n, DOMAIN vertex_cache[p])
      left == cached \ adj_set_to_cluster[p] IN
  /\ pc[p] = "visiting" /\ nodes[p] # {}
  /\ vertex_states' = [v \in Vertex |-> IF v \in claimed THEN 0 ELSE vertex_states[v]]
  /\ residual' = [residual EXCEPT ![p] = left]
  /\ vertex_cache' = [vertex_cache EXCEPT ![p] = Restrict(@, DOMAIN @ \ left)]
  /\ buf' = [buf EXCEPT ![p] =
       FlattenSeq([k \in 1 .. Cardinality(cached \ left) |->
                     Entry(p, Ascending(cached \ left)[k])])]
  /\ buf_idx' = [buf_idx EXCEPT ![p] = 1]
  /\ pc' = [pc EXCEPT ![p] = "updating"]
  /\ UNCHANGED <<graph, remaining_adj_lists, cluster_set, index, cluster, next_v, why,
                 locking, adj_set_to_cluster, nodes>>

(* The second loop, one round each.                                        *)
unlock_residual(p) ==
  LET v == Min(residual[p]) IN
  /\ pc[p] = "updating" /\ residual[p] # {}
  /\ vertex_states' = [vertex_states EXCEPT ![v] = 1]
  /\ residual' = [residual EXCEPT ![p] = @ \ {v}]
  /\ UNCHANGED <<graph, remaining_adj_lists, vertex_cache, cluster_set, index, cluster,
                 next_v, pc, why, locking, adj_set_to_cluster, nodes, buf, buf_idx>>

(* The third loop: a list is put back and its vertex made available.       *)
put_back(p) ==
  /\ pc[p] = "updating" /\ residual[p] = {} /\ buf_idx[p] <= Len(buf[p])
  /\ \E u \in Uninit :
       LET word(k) == IF k <= Len(buf[p]) THEN buf[p][k] ELSE u
           i == buf_idx[p]
           v == IDX(Min(nodes[p]), word(i)) IN
       /\ remaining_adj_lists' = [remaining_adj_lists EXCEPT ![v] =
            [k \in 1 .. word(i + 1) |-> word(i + 1 + k)]]
       /\ vertex_states' = [vertex_states EXCEPT ![v] = 1]
  /\ pc' = [pc EXCEPT ![p] = "stepping"]
  /\ UNCHANGED <<graph, vertex_cache, cluster_set, index, cluster, next_v, why,
                 locking, claiming>>

(* The end of the round: the next list is as far away as the vertex's list *)
(* is long by now, which another may have cut since it was put back.       *)
step_over(p) ==
  LET i == buf_idx[p]
      rav == remaining_adj_lists[IDX(Min(nodes[p]), buf[p][i])] IN
  /\ pc[p] = "stepping"
  /\ buf_idx' = [buf_idx EXCEPT ![p] = i + Len(rav) + 2]
  /\ pc' = [pc EXCEPT ![p] = "updating"]
  /\ UNCHANGED <<graph, remaining_adj_lists, vertex_states, vertex_cache, cluster_set,
                 index, cluster, next_v, why, locking, adj_set_to_cluster, nodes,
                 residual, buf>>

(* update_adj_list_local is done on the node.                              *)
leave_node(p) ==
  LET n == Min(nodes[p]) IN
  /\ pc[p] = "updating" /\ residual[p] = {} /\ buf_idx[p] > Len(buf[p])
  /\ vertex_cache' = [vertex_cache EXCEPT ![p] =
       Restrict(@, DOMAIN @ \ AtNode(n, adj_set_to_cluster[p]))]
  /\ nodes' = [nodes EXCEPT ![p] = @ \ {n}]
  /\ buf' = [buf EXCEPT ![p] = <<>>]
  /\ buf_idx' = [buf_idx EXCEPT ![p] = 1]
  /\ pc' = [pc EXCEPT ![p] = "visiting"]
  /\ UNCHANGED <<shared, cluster_set, index, cluster, next_v, why, locking,
                 adj_set_to_cluster, residual>>

add_cluster(p) ==
  /\ pc[p] = "visiting" /\ nodes[p] = {}
  /\ cluster_set' = [cluster_set EXCEPT ![p] = @ \o cluster[p]]
  /\ index' = [index EXCEPT ![p] = @ + 1]
  /\ pc' = [pc EXCEPT ![p] = "choose"]
  /\ UNCHANGED <<shared, vertex_cache, cluster, next_v, why, locking, claiming>>

-----------------------------------------------------------------------------
Next ==
  \E p \in Proc :
    \/ vertex_is_taken(p) \/ choose_vertex(p)
    \/ lock_all_local(p) \/ vertex_taken(p) \/ unlock_all(p)
    \/ lock_all_goes_on(p) \/ lock_all_fails(p)
    \/ start_cluster(p) \/ grow_cluster(p)
    \/ claim_vertices(p) \/ visit_node(p) \/ unlock_residual(p)
    \/ put_back(p) \/ step_over(p) \/ leave_node(p) \/ add_cluster(p)

Spec == Init /\ [][Next]_vars

-----------------------------------------------------------------------------
(* Properties                                                              *)

Claimed == UNION {Range(cluster_set[p]) : p \in Proc}
Claiming(p) == IF pc[p] \in {"visiting", "updating", "stepping"}
               THEN Range(cluster[p]) ELSE {}

(* A vertex is in one cluster at most, of one processor, and its state is  *)
(* "permanently unavailable" (cut_clusters.cpp, 34) from then on, whoever  *)
(* locks, unlocks and puts back what meanwhile.                            *)
ClaimedOnce ==
  /\ \A p \in Proc : IsInjective(cluster_set[p])
  /\ \A p, q \in Proc : p # q =>
        (Range(cluster_set[p]) \cup Claiming(p)) \cap
        (Range(cluster_set[q]) \cup Claiming(q)) = {}
  /\ \A v \in Claimed : vertex_states[v] = 0
=============================================================================

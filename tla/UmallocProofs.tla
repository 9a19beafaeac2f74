--------------------------- MODULE UmallocProofs ---------------------------
(***************************************************************************)
(* The books of the heap stay right, whatever is allocated and freed, and  *)
(* a heap with right books serves every request and every free rightly.    *)
(*                                                                         *)
(* Books is the invariant.  Besides what Partition, ListSound and          *)
(* FragsSound say it has that the free clusters and the clusters in use    *)
(* are in one order with the table (Sound, HeapAt), that a list of         *)
(* fragments holds nothing else, each fragment once, and what is between   *)
(* the steps of morecore, when clusters are below top and what comes from  *)
(* the system, up to heaplimit, is in none yet.                            *)
(*                                                                         *)
(* In this order: entries and links; the searches of the list, recursive   *)
(* functions that are shown to end; clusters that merge, split, come and   *)
(* go; __umalloc_free, Take, morecore and AllocBlocks on these; lists of   *)
(* fragments; umalloc and ufree.                                           *)
(***************************************************************************)
EXTENDS Umalloc, SequenceTheorems, FiniteSetTheorems, TLAPS

(* What heapinfo can hold.                                                 *)
FreeInfo == [kind : {"free"}, size : Nat, next : Index, prev : Index]
LargeInfo == [kind : {"large"}, size : Nat \ {0}]
FragsInfo == [kind : {"frags"}, log : Log, nfree : Nat, first : Nat]
Info == {NoInfo} \cup FreeInfo \cup LargeInfo \cup FragsInfo

Heap ==
  [heapinfo : [Index -> Info], heapindex : Index, heaplimit : Nat, heapsize : Nat \ {0},
   table : Nat \ {0}, breakval : Nat, fraghead : [Log -> Seq(Addr)]]

FreeIn(info) == { b \in Block : info[b].kind = "free" }
ListIn(info) == {0} \cup FreeIn(info)
Starts(info) == { b \in Block : info[b].kind # "none" }
Size(info, b) == IF info[b].kind = "frags" THEN 1 ELSE info[b].size
End(info, b) == b + Size(info, b)

(* The list of free clusters goes through them in the order of their       *)
(* addresses, both ways.                                                   *)
LinksOK(info) ==
  /\ info[0].kind = "free" /\ info[0].size = 0
  /\ \A b \in ListIn(info) :
       LET next == info[b].next IN
       /\ next \in ListIn(info) /\ info[b].prev \in ListIn(info)
       /\ info[next].prev = b /\ info[info[b].prev].next = b
       /\ next # 0 => next > b
       /\ \A c \in ListIn(info) : c > b => next # 0 /\ next <= c

(* Clusters are apart, and none ends above top.                            *)
SpansOK(info, top) ==
  /\ \A b \in Starts(info) : Size(info, b) >= 1 /\ End(info, b) <= top
  /\ \A b, c \in Starts(info) : b < c => End(info, b) <= c

Sound(info, top) ==
  info \in [Index -> Info] /\ top \in 0 .. Top + 1 /\ LinksOK(info) /\ SpansOK(info, top)

(* The blocks of the clusters.                                             *)
Covered(info) == UNION { b .. End(info, b) - 1 : b \in Starts(info) }

(* A heap whose clusters are below top: all blocks below the break are in  *)
(* clusters, in the table, or - from top to heaplimit - just come from the *)
(* system.                                                                 *)
HeapAt(h, top) ==
  /\ h \in Heap /\ Sound(h.heapinfo, top) /\ h.heapindex \in ListIn(h.heapinfo)
  /\ top <= h.heaplimit /\ h.heaplimit <= h.breakval /\ h.breakval <= Top + 1
  /\ h.heaplimit <= h.heapsize
  /\ h.table + TableBlocks(h.heapsize) <= h.breakval
  /\ h.table + TableBlocks(h.heapsize) <= top \/ h.heaplimit <= h.table
  /\ \A x \in 1 .. h.breakval - 1 :
       x \in Covered(h.heapinfo) \/ x \in Table(h) \/ x \in top .. h.heaplimit - 1
  /\ \A x \in Table(h) : x \notin Covered(h.heapinfo)

(* The free fragments of a block, nfree of them from first on, stand       *)
(* together in the list.                                                   *)
RunOK(list, b, nfree, first) ==
  \/ nfree = 0 /\ \A k \in 1 .. Len(list) : list[k][1] # b
  \/ /\ nfree > 0
     /\ \E k \in 1 .. Len(list) :
          /\ k + nfree - 1 <= Len(list) /\ list[k] = <<b, first>>
          /\ \A j \in 1 .. Len(list) : list[j][1] = b <=> k <= j /\ j <= k + nfree - 1

FragsOK(h) ==
  /\ \A l \in Log :
       LET list == h.fraghead[l] IN
       /\ \A k \in 1 .. Len(list) :
            LET info == h.heapinfo[list[k][1]] IN
            info.kind = "frags" /\ info.log = l /\ list[k][2] \in 0 .. PerBlock[l] - 1
       /\ \A j, k \in 1 .. Len(list) : list[j] = list[k] => j = k
  /\ \A b \in Block :
       LET info == h.heapinfo[b] IN
       info.kind = "frags" =>
         /\ info.nfree \in 0 .. PerBlock[info.log] - 1
         /\ RunOK(h.fraghead[info.log], b, info.nfree, info.first)

Books(h) == HeapAt(h, h.heaplimit) /\ FragsOK(h)

-----------------------------------------------------------------------------
(* A set of numbers that is not empty has a least one ...                  *)
LEMMA Least ==
  ASSUME NEW S \in SUBSET Nat, S # {}
  PROVE  \E n \in S : \A m \in S : n <= m
  <1> DEFINE R == OpToRel(<, Nat)
  <1>1. IsWellFoundedOn(R, Nat)
    BY NatLessThanWellFounded
  <1>2. PICK n \in S : \A m \in S : <<m, n>> \notin R
    <2> HIDE DEF R
    <2> QED
      BY <1>1, WFMin
  <1>3. \A m \in S : ~(m < n)
    BY <1>2 DEF OpToRel
  <1> QED
    BY <1>3

(* ... and, below a bound, a greatest one.                                 *)
LEMMA Greatest ==
  ASSUME NEW S \in SUBSET Nat, S # {}, NEW top \in Nat, \A n \in S : n <= top
  PROVE  \E n \in S : \A m \in S : m <= n
  <1> DEFINE T == { top - n : n \in S }
  <1>1. T \in SUBSET Nat /\ T # {}
    <2>1. \A n \in S : top - n \in Nat
      OBVIOUS
    <2> QED
      BY <2>1
  <1>2. PICK t \in T : \A u \in T : t <= u
    <2> HIDE DEF T
    <2> QED
      BY <1>1, Least
  <1>3. PICK n \in S : t = top - n
    OBVIOUS
  <1>4. \A m \in S : t <= top - m
    BY <1>2
  <1> QED
    BY <1>3, <1>4

-----------------------------------------------------------------------------
(* The fields.                                                             *)
LEMMA Indices ==
  /\ Top \in Nat \ {0} /\ Index \subseteq Nat /\ Block \subseteq Nat \ {0}
  /\ 0 \in Index /\ \A b : b \in Index <=> b \in Block \/ b = 0
  BY UmallocAssumption DEF Index, Block

(* heapinfo holds one of these, told apart by kind.                        *)
LEMMA InfoKinds ==
  ASSUME NEW r \in Info
  PROVE  /\ r.kind \in {"none", "free", "large", "frags"}
         /\ r.kind = "none" => r = NoInfo
         /\ r.kind = "free" => r \in FreeInfo /\ r = Free(r.size, r.next, r.prev)
         /\ r.kind = "large" => r \in LargeInfo
         /\ r.kind = "frags" => r \in FragsInfo
  BY DEF Info, FreeInfo, LargeInfo, FragsInfo, NoInfo, Free

(* Free makes an entry, ...                                                *)
LEMMA FreeIs ==
  ASSUME NEW s \in Nat, NEW n \in Index, NEW p \in Index
  PROVE  /\ Free(s, n, p) \in Info /\ Free(s, n, p).kind = "free"
         /\ Free(s, n, p).size = s /\ Free(s, n, p).next = n /\ Free(s, n, p).prev = p
  BY DEF Info, FreeInfo, Free

(* ... whatever its fields are.                                            *)
LEMMA FreeFields ==
  ASSUME NEW s, NEW n, NEW p
  PROVE  /\ Free(s, n, p).kind = "free" /\ Free(s, n, p).size = s
         /\ Free(s, n, p).next = n /\ Free(s, n, p).prev = p
  BY DEF Free

(* Setting next, and prev, leaves the rest of heapinfo alone.              *)
LEMMA SetNextIs ==
  ASSUME NEW info \in [Index -> Info], NEW b \in Index, info[b].kind = "free", NEW x \in Index
  PROVE  /\ SetNext(info, b, x) \in [Index -> Info]
         /\ SetNext(info, b, x)[b] = Free(info[b].size, x, info[b].prev)
         /\ \A c \in Index \ {b} : SetNext(info, b, x)[c] = info[c]
  <1>1. info[b] \in FreeInfo
    BY InfoKinds
  <1>2. [info[b] EXCEPT !.next = x] = Free(info[b].size, x, info[b].prev)
    BY <1>1 DEF FreeInfo, Free
  <1>3. Free(info[b].size, x, info[b].prev) \in Info
    BY <1>1, FreeIs DEF FreeInfo
  <1> QED
    BY <1>2, <1>3 DEF SetNext

LEMMA SetPrevIs ==
  ASSUME NEW info \in [Index -> Info], NEW b \in Index, info[b].kind = "free", NEW x \in Index
  PROVE  /\ SetPrev(info, b, x) \in [Index -> Info]
         /\ SetPrev(info, b, x)[b] = Free(info[b].size, info[b].next, x)
         /\ \A c \in Index \ {b} : SetPrev(info, b, x)[c] = info[c]
  <1>1. info[b] \in FreeInfo
    BY InfoKinds
  <1>2. [info[b] EXCEPT !.prev = x] = Free(info[b].size, info[b].next, x)
    BY <1>1 DEF FreeInfo, Free
  <1>3. Free(info[b].size, info[b].next, x) \in Info
    BY <1>1, FreeIs DEF FreeInfo
  <1> QED
    BY <1>2, <1>3 DEF SetPrev

(* b gets into the list behind i.                                          *)
LEMMA LinkedIs ==
  ASSUME NEW info \in [Index -> Info], LinksOK(info), NEW i \in ListIn(info),
         NEW b \in Block, b \notin FreeIn(info), NEW n \in Nat
  PROVE  LET new == Linked(info, i, b, n)
             nx == info[i].next
         IN  /\ new \in [Index -> Info] /\ new[b] = Free(n, nx, i)
             /\ \A c \in ListIn(info) :
                  new[c] = Free(info[c].size, IF c = i THEN b ELSE info[c].next,
                                IF c = nx THEN b ELSE info[c].prev)
             /\ \A c \in Index \ {b} : c \notin ListIn(info) => new[c] = info[c]
             /\ ListIn(new) = ListIn(info) \cup {b}
  <1> DEFINE nx == info[i].next
             one == [info EXCEPT ![b] = Free(n, nx, i)]
             two == SetNext(one, i, b)
             new == SetPrev(two, nx, b)
  <1>1. /\ ListIn(info) \subseteq Index /\ b \in Index /\ b \notin ListIn(info)
        /\ nx \in ListIn(info) /\ i \in Index /\ nx \in Index /\ b # i /\ b # nx
        /\ \A c \in ListIn(info) : info[c].kind = "free" /\ info[c] \in Info
    BY Indices DEF LinksOK, ListIn, FreeIn
  <1>2. \A c \in ListIn(info) : /\ info[c].size \in Nat /\ info[c].next \in Index
                                /\ info[c].prev \in Index
                                /\ info[c] = Free(info[c].size, info[c].next, info[c].prev)
    BY <1>1, InfoKinds DEF FreeInfo
  <1>3. one \in [Index -> Info] /\ one[b] = Free(n, nx, i) /\ \A c \in Index \ {b} : one[c] = info[c]
    BY <1>1, FreeIs
  <1> HIDE DEF one
  <1>4. /\ two \in [Index -> Info] /\ two[i] = Free(info[i].size, b, info[i].prev)
        /\ \A c \in Index \ {i} : two[c] = one[c]
    BY <1>1, <1>3, SetNextIs
  <1> HIDE DEF two
  <1>5. two[nx] = Free(info[nx].size, IF nx = i THEN b ELSE info[nx].next, info[nx].prev)
    BY <1>1, <1>2, <1>3, <1>4
  <1>6. /\ two[nx].kind = "free" /\ two[nx].size = info[nx].size
        /\ two[nx].next = IF nx = i THEN b ELSE info[nx].next
    BY <1>1, <1>2, <1>5, FreeIs
  <1>7. /\ new \in [Index -> Info]
        /\ new[nx] = Free(info[nx].size, IF nx = i THEN b ELSE info[nx].next, b)
        /\ \A c \in Index \ {nx} : new[c] = two[c]
    BY <1>1, <1>4, <1>6, SetPrevIs
  <1>8. new = Linked(info, i, b, n)
    BY DEF Linked, one, two
  <1> HIDE DEF new, nx
  <1>9. ASSUME NEW c \in ListIn(info)
        PROVE  new[c] = Free(info[c].size, IF c = i THEN b ELSE info[c].next,
                             IF c = nx THEN b ELSE info[c].prev)
    <2>1. CASE c = nx
      BY <1>7, <2>1
    <2>2. CASE c # nx /\ c = i
      BY <1>1, <1>4, <1>7, <2>2
    <2>3. CASE c # nx /\ c # i
      <3>1. new[c] = info[c]
        BY <1>1, <1>3, <1>4, <1>7, <2>3
      <3> QED
        BY <1>2, <2>3, <3>1
    <2> QED
      BY <2>1, <2>2, <2>3
  <1>10. \A c \in Index \ {b} : c \notin ListIn(info) => new[c] = info[c]
    BY <1>1, <1>3, <1>4, <1>7
  <1>11. new[b] = Free(n, nx, i)
    BY <1>1, <1>3, <1>4, <1>7
  <1>12. ListIn(new) = ListIn(info) \cup {b}
    <2>1. new[b].kind = "free"
      BY <1>1, <1>11, FreeIs
    <2>2. \A c \in ListIn(info) : new[c].kind = "free"
      BY <1>9, FreeFields
    <2>3. \A c \in Block : c \notin ListIn(info) /\ c # b => new[c].kind # "free"
      BY <1>10, Indices DEF ListIn, FreeIn
    <2> QED
      BY <2>1, <2>2, <2>3 DEF ListIn, FreeIn
  <1> QED
    BY <1>7, <1>8, <1>9, <1>10, <1>11, <1>12 DEF nx

(* b gets out of the list.                                                 *)
LEMMA UnlinkedIs ==
  ASSUME NEW info \in [Index -> Info], LinksOK(info), NEW b \in FreeIn(info)
  PROVE  LET new == Unlinked(info, b)
             nx == info[b].next
             pv == info[b].prev
         IN  /\ new \in [Index -> Info] /\ new[b] = NoInfo
             /\ \A c \in ListIn(info) \ {b} :
                  new[c] = Free(info[c].size, IF c = pv THEN nx ELSE info[c].next,
                                IF c = nx THEN pv ELSE info[c].prev)
             /\ \A c \in Index : c \notin ListIn(info) => new[c] = info[c]
             /\ ListIn(new) = ListIn(info) \ {b}
  <1> DEFINE nx == info[b].next
             pv == info[b].prev
             one == SetNext(info, pv, nx)
             two == SetPrev(one, nx, pv)
             new == [two EXCEPT ![b] = NoInfo]
  <1>1. /\ ListIn(info) \subseteq Index /\ b \in Index /\ b \in ListIn(info) /\ b \in Nat \ {0}
        /\ nx \in ListIn(info) /\ pv \in ListIn(info) /\ nx \in Index /\ pv \in Index
        /\ \A c \in ListIn(info) : info[c].kind = "free" /\ info[c] \in Info
        /\ nx # 0 => nx > b
    BY Indices DEF LinksOK, ListIn, FreeIn
  <1>a. nx # b
    BY <1>1
  <1>b. pv # b
    BY <1>1, <1>a DEF LinksOK
  <1>2. \A c \in ListIn(info) : /\ info[c].size \in Nat /\ info[c].next \in Index
                                /\ info[c].prev \in Index
                                /\ info[c] = Free(info[c].size, info[c].next, info[c].prev)
    BY <1>1, InfoKinds DEF FreeInfo
  <1>c. nx = info[b].next /\ pv = info[b].prev
    OBVIOUS
  <1> HIDE DEF nx, pv
  <1>3. /\ one \in [Index -> Info] /\ one[pv] = Free(info[pv].size, nx, info[pv].prev)
        /\ \A c \in Index \ {pv} : one[c] = info[c]
    BY <1>1, SetNextIs
  <1> HIDE DEF one
  <1>4. one[nx] = Free(info[nx].size, IF nx = pv THEN nx ELSE info[nx].next, info[nx].prev)
    BY <1>1, <1>2, <1>3
  <1>5. /\ one[nx].kind = "free" /\ one[nx].size = info[nx].size
        /\ one[nx].next = IF nx = pv THEN nx ELSE info[nx].next
    BY <1>4, FreeFields
  <1>6. /\ two \in [Index -> Info]
        /\ two[nx] = Free(info[nx].size, IF nx = pv THEN nx ELSE info[nx].next, pv)
        /\ \A c \in Index \ {nx} : two[c] = one[c]
    BY <1>1, <1>3, <1>5, SetPrevIs
  <1> HIDE DEF two
  <1>7. /\ new \in [Index -> Info] /\ new[b] = NoInfo /\ \A c \in Index \ {b} : new[c] = two[c]
    BY <1>1, <1>6 DEF Info
  <1>8. new = Unlinked(info, b)
    BY DEF Unlinked, one, two, nx, pv
  <1> HIDE DEF new
  <1>9. ASSUME NEW c \in ListIn(info) \ {b}
        PROVE  new[c] = Free(info[c].size, IF c = pv THEN nx ELSE info[c].next,
                                IF c = nx THEN pv ELSE info[c].prev)
    <2>1. CASE c = nx
      BY <1>1, <1>6, <1>7, <2>1
    <2>2. CASE c # nx /\ c = pv
      BY <1>1, <1>3, <1>6, <1>7, <2>2
    <2>3. CASE c # nx /\ c # pv
      <3>1. new[c] = info[c]
        BY <1>1, <1>3, <1>6, <1>7, <2>3
      <3> QED
        BY <1>2, <2>3, <3>1
    <2> QED
      BY <2>1, <2>2, <2>3
  <1>10. \A c \in Index : c \notin ListIn(info) => new[c] = info[c]
    BY <1>1, <1>3, <1>6, <1>7
  <1>12. ListIn(new) = ListIn(info) \ {b}
    <2>1. new[b].kind # "free"
      BY <1>7 DEF NoInfo
    <2>2. \A c \in ListIn(info) \ {b} : new[c].kind = "free"
      BY <1>9, FreeFields
    <2>3. \A c \in Block : c \notin ListIn(info) => new[c].kind # "free"
      BY <1>10, Indices DEF ListIn, FreeIn
    <2>4. b \in Block
      BY DEF FreeIn
    <2> QED
      BY <1>1, <2>1, <2>2, <2>3, <2>4 DEF ListIn, FreeIn
  <1> QED
    BY <1>7, <1>8, <1>9, <1>10, <1>12 DEF nx, pv

-----------------------------------------------------------------------------
(* The order of the list.                                                  *)

(* The list without b is in order.                                         *)
LEMMA LinksRemoved ==
  ASSUME NEW info \in [Index -> Info], LinksOK(info), NEW b \in FreeIn(info),
         NEW new \in [Index -> Info], ListIn(new) = ListIn(info) \ {b},
         new[0].kind = "free",
         \A c \in ListIn(new) :
           /\ new[c].next = IF c = info[b].prev THEN info[b].next ELSE info[c].next
           /\ new[c].prev = IF c = info[b].next THEN info[b].prev ELSE info[c].prev,
         new[0].size = 0
  PROVE  LinksOK(new)
  <1>1. /\ b \in ListIn(info) /\ b \in Nat \ {0} /\ ListIn(info) \subseteq Nat
    BY Indices DEF ListIn, FreeIn
  <1>2. \A c \in ListIn(info) :
          /\ info[c].next \in ListIn(info) /\ info[c].prev \in ListIn(info)
          /\ info[info[c].next].prev = c /\ info[info[c].prev].next = c
          /\ info[c].next # 0 => info[c].next > c
          /\ \A d \in ListIn(info) : d > c => info[c].next # 0 /\ info[c].next <= d
    BY DEF LinksOK
  <1>3. info[b].prev # b /\ info[b].next # b
    BY <1>1, <1>2
  <1> SUFFICES ASSUME NEW c \in ListIn(info), c # b
               PROVE  /\ new[c].next \in ListIn(new) /\ new[c].prev \in ListIn(new)
                      /\ new[new[c].next].prev = c /\ new[new[c].prev].next = c
                      /\ new[c].next # 0 => new[c].next > c
                      /\ \A d \in ListIn(new) : d > c => new[c].next # 0 /\ new[c].next <= d
    BY DEF LinksOK
  <1>4. /\ new[c].next \in ListIn(new) /\ new[c].prev \in ListIn(new)
    BY <1>1, <1>2, <1>3
  <1>5. new[new[c].next].prev = c
    BY <1>1, <1>2, <1>3, <1>4
  <1>6. new[new[c].prev].next = c
    BY <1>1, <1>2, <1>3, <1>4
  <1>7. new[c].next # 0 => new[c].next > c
    <2>1. CASE c # info[b].prev
      BY <1>1, <1>2, <2>1
    <2>2. CASE c = info[b].prev
      <3>1. info[c].next = b /\ b > c
        BY <1>1, <1>2, <2>2
      <3> QED
        BY <1>1, <1>2, <2>2, <3>1
    <2> QED
      BY <2>1, <2>2
  <1>8. ASSUME NEW d \in ListIn(new), d > c PROVE new[c].next # 0 /\ new[c].next <= d
    <2>1. CASE c # info[b].prev
      BY <1>1, <1>2, <1>8, <2>1
    <2>2. CASE c = info[b].prev
      <3>1. b <= d /\ d # b
        BY <1>1, <1>2, <1>8, <2>2
      <3>2. d > b
        BY <1>1, <3>1
      <3> QED
        BY <1>1, <1>2, <2>2, <3>2
    <2> QED
      BY <2>1, <2>2
  <1> QED
    BY <1>4, <1>5, <1>6, <1>7, <1>8

(* So is the list with b put between i and what follows it, ...            *)
LEMMA LinksInserted ==
  ASSUME NEW info \in [Index -> Info], LinksOK(info), NEW i \in ListIn(info),
         NEW b \in Block, b \notin FreeIn(info), i < b,
         \A c \in ListIn(info) : c < b => c <= i,
         NEW new \in [Index -> Info], ListIn(new) = ListIn(info) \cup {b},
         new[0].kind = "free", new[0].size = 0,
         new[b].next = info[i].next, new[b].prev = i,
         \A c \in ListIn(info) :
           /\ new[c].next = IF c = i THEN b ELSE info[c].next
           /\ new[c].prev = IF c = info[i].next THEN b ELSE info[c].prev
  PROVE  LinksOK(new)
  <1>1. /\ b \notin ListIn(info) /\ b \in Nat \ {0} /\ ListIn(info) \subseteq Nat
    BY Indices DEF ListIn, FreeIn
  <1>2. \A c \in ListIn(info) :
          /\ info[c].next \in ListIn(info) /\ info[c].prev \in ListIn(info)
          /\ info[info[c].next].prev = c /\ info[info[c].prev].next = c
          /\ info[c].next # 0 => info[c].next > c
          /\ \A d \in ListIn(info) : d > c => info[c].next # 0 /\ info[c].next <= d
    BY DEF LinksOK
  <1> SUFFICES ASSUME NEW c \in ListIn(new)
               PROVE  /\ new[c].next \in ListIn(new) /\ new[c].prev \in ListIn(new)
                      /\ new[new[c].next].prev = c /\ new[new[c].prev].next = c
                      /\ new[c].next # 0 => new[c].next > c
                      /\ \A d \in ListIn(new) : d > c => new[c].next # 0 /\ new[c].next <= d
    BY DEF LinksOK
  <1>3. info[i].next # 0 => info[i].next > b
    <2> HAVE info[i].next # 0
    <2>1. info[i].next > i /\ info[i].next \in Nat /\ info[i].next # b
      BY <1>1, <1>2
    <2>2. i \in Nat /\ b \in Nat /\ info[i].next \in ListIn(info)
      BY <1>1, <1>2
    <2>3. info[i].next < b => info[i].next <= i
      BY <2>2
    <2> QED
      BY ONLY <2>1, <2>2, <2>3
  <1>4. CASE c = b
    <2>1. /\ new[c].next \in ListIn(info) /\ new[c].prev \in ListIn(info)
          /\ new[new[c].next].prev = c /\ new[new[c].prev].next = c
      BY <1>2, <1>4
    <2>2. ASSUME NEW d \in ListIn(new), d > c PROVE new[c].next # 0 /\ new[c].next <= d
      <3>1. d \in ListIn(info) /\ d > i
        BY <1>1, <1>4, <2>2
      <3> QED
        BY <1>2, <1>4, <3>1
    <2> QED
      BY <1>3, <1>4, <2>1, <2>2
  <1>5. CASE c # b
    <2>0. c \in ListIn(info)
      BY <1>5
    <2>1. /\ new[c].next \in ListIn(new) /\ new[c].prev \in ListIn(new)
      BY <1>2, <2>0
    <2>2. new[new[c].next].prev = c
      BY <1>1, <1>2, <2>0
    <2>3. new[new[c].prev].next = c
      BY <1>1, <1>2, <2>0
    <2>4. new[c].next # 0 => new[c].next > c
      BY <1>1, <1>2, <2>0
    <2>5. ASSUME NEW d \in ListIn(new), d > c PROVE new[c].next # 0 /\ new[c].next <= d
      <3>1. CASE c = i
        <4>1. d # b => d \in ListIn(info) /\ ~(d < b)
          BY <1>1, <2>5, <3>1
        <4> QED
          BY <1>1, <2>0, <3>1, <4>1
      <3>2. CASE c # i /\ d # b
        BY <1>2, <2>0, <2>5, <3>2
      <3>3. CASE c # i /\ d = b
        <4>1. i > c
          BY <1>1, <2>0, <2>5, <3>3
        <4>2. info[c].next # 0 /\ info[c].next <= i /\ info[c].next \in Nat
          BY <1>1, <1>2, <2>0, <4>1
        <4> QED
          BY <1>1, <2>0, <3>3, <4>2
      <3> QED
        BY <3>1, <3>2, <3>3
    <2> QED
      BY <2>1, <2>2, <2>3, <2>4, <2>5
  <1> QED
    BY <1>4, <1>5

(* ... the list with r in the place of b, ...                              *)
LEMMA LinksReplaced ==
  ASSUME NEW info \in [Index -> Info], LinksOK(info), NEW b \in FreeIn(info),
         NEW r \in Block, r > b, \A c \in ListIn(info) : c > b => c > r,
         NEW new \in [Index -> Info], ListIn(new) = (ListIn(info) \ {b}) \cup {r},
         new[0].kind = "free", new[0].size = 0,
         new[r].next = info[b].next, new[r].prev = info[b].prev,
         \A c \in ListIn(info) \ {b} :
           /\ new[c].next = IF c = info[b].prev THEN r ELSE info[c].next
           /\ new[c].prev = IF c = info[b].next THEN r ELSE info[c].prev
  PROVE  LinksOK(new)
  <1>1. /\ b \in ListIn(info) /\ b \in Nat \ {0} /\ ListIn(info) \subseteq Nat
        /\ r \in Nat \ {0} /\ r \notin ListIn(info)
    <2>1. /\ b \in ListIn(info) /\ b \in Nat \ {0} /\ ListIn(info) \subseteq Nat
          /\ r \in Nat \ {0}
      BY Indices DEF ListIn, FreeIn
    <2>2. ~(r > r)
      BY <2>1
    <2> QED
      BY <2>1, <2>2
  <1>2. \A c \in ListIn(info) :
          /\ info[c].next \in ListIn(info) /\ info[c].prev \in ListIn(info)
          /\ info[info[c].next].prev = c /\ info[info[c].prev].next = c
          /\ info[c].next # 0 => info[c].next > c
          /\ \A d \in ListIn(info) : d > c => info[c].next # 0 /\ info[c].next <= d
    BY DEF LinksOK
  <1>3. info[b].prev # b /\ info[b].next # b
    BY <1>1, <1>2
  <1> SUFFICES ASSUME NEW c \in ListIn(new)
               PROVE  /\ new[c].next \in ListIn(new) /\ new[c].prev \in ListIn(new)
                      /\ new[new[c].next].prev = c /\ new[new[c].prev].next = c
                      /\ new[c].next # 0 => new[c].next > c
                      /\ \A d \in ListIn(new) : d > c => new[c].next # 0 /\ new[c].next <= d
    BY DEF LinksOK
  <1>4. CASE c = r
    <2>1. /\ new[c].next \in ListIn(info) \ {b} /\ new[c].prev \in ListIn(info) \ {b}
      BY <1>1, <1>2, <1>3, <1>4
    <2>2. new[new[c].next].prev = c /\ new[new[c].prev].next = c
      BY <1>4, <2>1
    <2>3. new[c].next # 0 => new[c].next > c
      BY <1>1, <1>2, <1>4, <2>1
    <2>4. ASSUME NEW d \in ListIn(new), d > c PROVE new[c].next # 0 /\ new[c].next <= d
      <3>1. d \in ListIn(info) /\ d > b
        BY <1>1, <1>4, <2>4
      <3> QED
        BY <1>1, <1>2, <1>4, <3>1
    <2> QED
      BY <2>1, <2>2, <2>3, <2>4
  <1>5. CASE c # r
    <2>0. c \in ListIn(info) \ {b}
      BY <1>5
    <2>1. /\ new[c].next \in ListIn(new) /\ new[c].prev \in ListIn(new)
      <3>1. c # info[b].prev => info[c].next # b
        BY <1>2, <2>0
      <3>2. c # info[b].next => info[c].prev # b
        BY <1>2, <2>0
      <3> QED
        BY <1>2, <2>0, <3>1, <3>2
    <2>2. new[new[c].next].prev = c
      BY <1>1, <1>2, <1>3, <2>0, <2>1
    <2>3. new[new[c].prev].next = c
      BY <1>1, <1>2, <1>3, <2>0, <2>1
    <2>4. new[c].next # 0 => new[c].next > c
      <3>1. CASE c = info[b].prev
        <4>1. info[c].next = b /\ b > c
          BY <1>1, <1>2, <3>1
        <4> QED
          BY <1>1, <2>0, <3>1, <4>1
      <3>2. CASE c # info[b].prev
        BY <1>2, <2>0, <3>2
      <3> QED
        BY <3>1, <3>2
    <2>5. ASSUME NEW d \in ListIn(new), d > c PROVE new[c].next # 0 /\ new[c].next <= d
      <3>1. CASE c = info[b].prev
        <4>1. info[c].next = b
          BY <1>1, <1>2, <3>1
        <4>2. CASE d # r
          <5>1. b <= d /\ d # b /\ d \in ListIn(info)
            BY <1>1, <1>2, <2>0, <2>5, <4>1, <4>2
          <5>2. d > r
            BY <1>1, <5>1
          <5> QED
            BY <1>1, <2>0, <3>1, <5>2
        <4>3. CASE d = r
          BY <1>1, <2>0, <3>1, <4>3
        <4> QED
          BY <4>2, <4>3
      <3>2. CASE c # info[b].prev /\ d # r
        BY <1>2, <2>0, <2>5, <3>2
      <3>3. CASE c # info[b].prev /\ d = r
        <4>1. b > c
          BY <1>1, <2>0, <2>5, <3>3
        <4>2. info[c].next # 0 /\ info[c].next <= b /\ info[c].next \in Nat
          BY <1>1, <1>2, <2>0, <4>1
        <4> QED
          BY <1>1, <2>0, <3>3, <4>2
      <3> QED
        BY <3>1, <3>2, <3>3
    <2> QED
      BY <2>1, <2>2, <2>3, <2>4, <2>5
  <1> QED
    BY <1>4, <1>5

(* ... and any heapinfo with the same links.                               *)
LEMMA LinksSame ==
  ASSUME NEW info \in [Index -> Info], LinksOK(info),
         NEW new \in [Index -> Info], ListIn(new) = ListIn(info),
         new[0].kind = "free", new[0].size = 0,
         \A c \in ListIn(info) : new[c].next = info[c].next /\ new[c].prev = info[c].prev
  PROVE  LinksOK(new)
  BY DEF LinksOK

-----------------------------------------------------------------------------
(* The searches of the list.                                               *)

(* Any function that satisfies the search's equation is one Predecessor    *)
(* may take: the two ways ...                                              *)
LEMMA BackIs ==
  ASSUME NEW h, NEW b, h.heapindex > b,
         NEW F, F = [i \in List(h) |-> IF i > b THEN F[h.heapinfo[i].prev] ELSE i]
  PROVE  \E B : /\ B = [i \in List(h) |-> IF i > b THEN B[h.heapinfo[i].prev] ELSE i]
                /\ Predecessor(h, b) = B[h.heapindex]
  <1> DEFINE B[i \in List(h)] == IF i > b THEN B[h.heapinfo[i].prev] ELSE i
  <1>1. B = [i \in List(h) |-> IF i > b THEN B[h.heapinfo[i].prev] ELSE i]
    OBVIOUS
  <1>2. Predecessor(h, b) = B[h.heapindex]
    BY DEF Predecessor
  <1> QED
    BY <1>1, <1>2

(* ... it may go.                                                          *)
LEMMA AheadIs ==
  ASSUME NEW h, NEW b, ~(h.heapindex > b),
         NEW F, F = [i \in List(h) |->
                       LET j == h.heapinfo[i].next
                       IN  IF j # 0 /\ j < b THEN F[j] ELSE h.heapinfo[j].prev]
  PROVE  \E A : /\ A = [i \in List(h) |->
                         LET j == h.heapinfo[i].next
                         IN  IF j # 0 /\ j < b THEN A[j] ELSE h.heapinfo[j].prev]
                /\ Predecessor(h, b) = A[h.heapindex]
  <1> DEFINE A[i \in List(h)] == LET j == h.heapinfo[i].next
                                 IN  IF j # 0 /\ j < b THEN A[j] ELSE h.heapinfo[j].prev
  <1>1. A = [i \in List(h) |-> LET j == h.heapinfo[i].next
                              IN  IF j # 0 /\ j < b THEN A[j] ELSE h.heapinfo[j].prev]
    OBVIOUS
  <1>2. Predecessor(h, b) = A[h.heapindex]
    BY DEF Predecessor
  <1> QED
    BY <1>1, <1>2

(* What the links of the list say of each of its members.                  *)
LEMMA ListIs ==
  ASSUME NEW info \in [Index -> Info], LinksOK(info)
  PROVE  /\ ListIn(info) \subseteq Index /\ ListIn(info) \subseteq Nat /\ 0 \in ListIn(info)
         /\ \A c \in ListIn(info) :
              /\ info[c].kind = "free" /\ info[c].size \in Nat
              /\ info[c].next \in ListIn(info) /\ info[c].prev \in ListIn(info)
              /\ info[info[c].next].prev = c /\ info[info[c].prev].next = c
              /\ info[c].next # 0 => info[c].next > c
              /\ \A d \in ListIn(info) : d > c => info[c].next # 0 /\ info[c].next <= d
  <1>1. ListIn(info) \subseteq Index /\ ListIn(info) \subseteq Nat /\ 0 \in ListIn(info)
    BY Indices DEF ListIn, FreeIn
  <1>2. ASSUME NEW c \in ListIn(info) PROVE info[c].kind = "free" /\ info[c].size \in Nat
    <2>1. info[c].kind = "free" /\ info[c] \in Info
      BY <1>1 DEF ListIn, FreeIn, LinksOK
    <2> QED
      BY <2>1, InfoKinds DEF FreeInfo
  <1> QED
    BY <1>1, <1>2 DEF LinksOK

(* The search ends at the last free cluster before b, or at the head.      *)
LEMMA PredecessorIs ==
  ASSUME NEW h, NEW info, info = h.heapinfo, info \in [Index -> Info], LinksOK(info),
         h.heapindex \in ListIn(info), NEW b \in Block, b \notin FreeIn(info)
  PROVE  LET i == Predecessor(h, b) IN
         i \in ListIn(info) /\ i < b /\ \A c \in ListIn(info) : c < b => c <= i
  <1> DEFINE L == ListIn(info)
  <1>1. List(h) = L
    BY DEF List, FreeClusters, ListIn, FreeIn
  <1>2. (\A c \in L : c \in Nat) /\ 0 \in L /\ b \in Nat /\ b # 0 /\ b \notin L
    BY ListIs, Indices DEF ListIn
  <1>3. \A c \in L :
          /\ info[c].next \in L /\ info[c].prev \in L
          /\ info[info[c].next].prev = c /\ info[info[c].prev].next = c
          /\ info[c].next # 0 => info[c].next > c
          /\ \A d \in L : d > c => info[c].next # 0 /\ info[c].next <= d
    BY ListIs
  <1> HIDE DEF L
  <1>4. PICK p \in L : p < b /\ \A c \in L : c < b => c <= p
    <2> DEFINE S == { c \in L : c < b }
    <2>1. S \in SUBSET Nat /\ S # {} /\ \A n \in S : n <= b
      BY <1>2
    <2>2. \E n \in S : \A m \in S : m <= n
      <3> HIDE DEF S
      <3> QED
        BY <1>2, <2>1, Greatest
    <2> QED
      BY <2>2
  <1>5. \A i \in L : i > b => info[i].prev < i /\ (info[i].prev > b \/ info[i].prev = p)
    <2> SUFFICES ASSUME NEW i \in L, i > b
                 PROVE  info[i].prev < i /\ (info[i].prev > b \/ info[i].prev = p)
      OBVIOUS
    <2>1. info[i].prev \in L /\ info[info[i].prev].next = i /\ i # 0
      BY <1>2, <1>3
    <2>2. info[i].prev < i
      BY <1>3, <2>1
    <2>3. info[i].prev < b => info[i].prev = p
      <3>1. ~(p > info[i].prev)
        BY <1>2, <1>3, <1>4, <2>1
      <3> QED
        BY <1>2, <1>4, <2>1, <3>1
    <2> QED
      BY <1>2, <2>1, <2>2, <2>3
  <1>6. \A i \in L : i < b => IF info[i].next # 0 /\ info[i].next < b
                              THEN info[i].next > i ELSE i = p
    <2> TAKE i \in L
    <2> HAVE i < b
    <2>1. info[i].next # 0 => info[i].next > i
      BY <1>3
    <2>2. ~(info[i].next # 0 /\ info[i].next < b) => ~(p > i)
      BY <1>2, <1>3, <1>4
    <2> QED
      BY <1>2, <1>4, <2>1, <2>2
  <1>7. CASE h.heapindex > b
    <2> DEFINE F == [i \in L |-> IF i > b THEN p ELSE i]
    <2>1. F = [i \in List(h) |-> IF i > b THEN F[h.heapinfo[i].prev] ELSE i]
      <3>1. ASSUME NEW i \in L, i > b PROVE F[info[i].prev] = p
        BY <1>2, <1>3, <1>4, <1>5, <3>1
      <3> QED
        BY <1>1, <3>1
    <2> HIDE DEF F
    <2>2. PICK B : /\ B = [i \in List(h) |-> IF i > b THEN B[h.heapinfo[i].prev] ELSE i]
                   /\ Predecessor(h, b) = B[h.heapindex]
      BY <1>7, <2>1, BackIs
    <2>3. \A i \in L : B[i] = IF i > b THEN B[info[i].prev] ELSE i
      BY <1>1, <2>2
    <2> DEFINE S == { i \in L : i > b /\ B[i] # p }
    <2>4. S = {}
      <3> SUFFICES ASSUME S # {} PROVE FALSE
        OBVIOUS
      <3>1. S \in SUBSET Nat
        BY <1>2
      <3>2. PICK m \in S : \A n \in S : m <= n
        <4> HIDE DEF S
        <4> QED
          BY <3>1, Least
      <3>3. m \in L /\ m > b /\ B[m] # p
        OBVIOUS
      <3>4. info[m].prev \notin S
        BY <1>2, <1>3, <1>5, <3>2, <3>3
      <3>5. B[info[m].prev] = p
        BY <1>2, <1>3, <1>4, <1>5, <2>3, <3>3, <3>4
      <3> QED
        BY <2>3, <3>3, <3>5
    <2>5. Predecessor(h, b) = p
      BY <1>7, <2>2, <2>4 DEF L
    <2> QED
      BY <1>4, <2>5 DEF L
  <1>8. CASE ~(h.heapindex > b)
    <2> DEFINE F == [i \in L |-> IF i < b THEN p ELSE i]
               J(i) == info[i].next
    <2>1. F = [i \in List(h) |-> LET j == h.heapinfo[i].next
                                IN  IF j # 0 /\ j < b THEN F[j] ELSE h.heapinfo[j].prev]
      <3>1. ASSUME NEW i \in L
            PROVE  F[i] = IF J(i) # 0 /\ J(i) < b THEN F[J(i)] ELSE info[J(i)].prev
        <4>1. J(i) \in L /\ info[J(i)].prev = i
          BY <1>3
        <4>2. CASE i < b
          BY <1>6, <4>1, <4>2
        <4>3. CASE ~(i < b)
          BY <1>2, <1>3, <4>1, <4>3
        <4> QED
          BY <4>2, <4>3
      <3> QED
        BY <1>1, <3>1
    <2> HIDE DEF F
    <2>2. PICK A : /\ A = [i \in List(h) |->
                             LET j == h.heapinfo[i].next
                             IN  IF j # 0 /\ j < b THEN A[j] ELSE h.heapinfo[j].prev]
                   /\ Predecessor(h, b) = A[h.heapindex]
      BY <1>8, <2>1, AheadIs
    <2>3. \A i \in L : A[i] = IF J(i) # 0 /\ J(i) < b THEN A[J(i)] ELSE info[J(i)].prev
      BY <1>1, <2>2
    <2> DEFINE S == { i \in L : i < b /\ A[i] # p }
    <2>4. S = {}
      <3> SUFFICES ASSUME S # {} PROVE FALSE
        OBVIOUS
      <3>1. S \in SUBSET Nat /\ \A n \in S : n <= b
        BY <1>2
      <3>2. PICK m \in S : \A n \in S : n <= m
        <4> HIDE DEF S
        <4> QED
          BY <1>2, <3>1, Greatest
      <3>3. m \in L /\ m < b /\ A[m] # p
        OBVIOUS
      <3>4. CASE J(m) # 0 /\ J(m) < b
        <4>1. J(m) > m /\ J(m) \in L
          BY <1>3, <3>3, <3>4
        <4>2. J(m) \notin S
          BY <1>2, <3>2, <3>3, <4>1
        <4>3. A[J(m)] = p
          BY <3>4, <4>1, <4>2
        <4> QED
          BY <2>3, <3>3, <3>4, <4>3
      <3>5. CASE ~(J(m) # 0 /\ J(m) < b)
        BY <1>3, <1>6, <2>3, <3>3, <3>5
      <3> QED
        BY <3>4, <3>5
    <2>5. h.heapindex < b /\ h.heapindex \in L
      BY <1>2, <1>8 DEF L
    <2>6. Predecessor(h, b) = p
      BY <2>2, <2>4, <2>5
    <2> QED
      BY <1>4, <2>6 DEF L
  <1> QED
    BY <1>7, <1>8

(* The same of Fit's search.                                               *)
LEMMA SearchIs ==
  ASSUME NEW h, NEW n,
         NEW F, F = [b \in List(h) |->
                       IF h.heapinfo[b].size >= n THEN b
                       ELSE IF h.heapinfo[b].next = h.heapindex THEN 0
                       ELSE F[h.heapinfo[b].next]]
  PROVE  \E S : /\ S = [b \in List(h) |->
                         IF h.heapinfo[b].size >= n THEN b
                         ELSE IF h.heapinfo[b].next = h.heapindex THEN 0
                         ELSE S[h.heapinfo[b].next]]
                /\ Fit(h, n) = S[h.heapindex]
  <1> DEFINE S[b \in List(h)] == IF h.heapinfo[b].size >= n THEN b
                                 ELSE IF h.heapinfo[b].next = h.heapindex THEN 0
                                 ELSE S[h.heapinfo[b].next]
  <1>1. S = [b \in List(h) |->
              IF h.heapinfo[b].size >= n THEN b
              ELSE IF h.heapinfo[b].next = h.heapindex THEN 0
              ELSE S[h.heapinfo[b].next]]
    OBVIOUS
  <1>2. Fit(h, n) = S[h.heapindex]
    BY DEF Fit
  <1> QED
    BY <1>1, <1>2

(* Fit finds a cluster of n blocks if there is any.                        *)
LEMMA FitIs ==
  ASSUME NEW h, NEW info, info = h.heapinfo, info \in [Index -> Info], LinksOK(info),
         h.heapindex \in ListIn(info), NEW n \in Nat \ {0}
  PROVE  LET b == Fit(h, n) IN
         \/ b \in FreeIn(info) /\ info[b].size >= n
         \/ b = 0 /\ \A c \in FreeIn(info) : info[c].size < n
  <1> DEFINE L == ListIn(info)
             hi == h.heapindex
             Rank(i) == IF i >= hi THEN i ELSE i + Top + 1
             Good(i) == { j \in L : Rank(j) >= Rank(i) /\ info[j].size >= n }
             First(G) == CHOOSE j \in G : \A k \in G : Rank(j) <= Rank(k)
             F == [i \in L |-> IF Good(i) = {} THEN 0 ELSE First(Good(i))]
  <1>1. List(h) = L
    BY DEF List, FreeClusters, ListIn, FreeIn
  <1>2. /\ \A c \in L : c \in Nat /\ c <= Top /\ info[c].size \in Nat
        /\ 0 \in L /\ n \in Nat /\ n > 0 /\ Top \in Nat /\ hi \in L
        /\ info[0].size = 0
    <2>1. \A c \in L : c \in Nat /\ c \in Index /\ info[c].size \in Nat
      BY ListIs
    <2>2. 0 \in L /\ hi \in L /\ info[0].size = 0
      BY DEF LinksOK, ListIn
    <2>3. Top \in Nat /\ \A c \in Index : c <= Top
      BY Indices DEF Index
    <2> HIDE DEF L
    <2> QED
      BY <2>1, <2>2, <2>3
  <1>3. \A c \in L :
          /\ info[c].next \in L /\ info[c].prev \in L
          /\ info[info[c].next].prev = c /\ info[info[c].prev].next = c
          /\ info[c].next # 0 => info[c].next > c
          /\ \A d \in L : d > c => info[c].next # 0 /\ info[c].next <= d
    BY ListIs
  <1> HIDE DEF L, hi
  <1>4. \A i \in L : Rank(i) \in Nat /\ Rank(i) <= Top + Top + 1
    BY <1>2
  <1>5. \A i, j \in L : Rank(i) = Rank(j) => i = j
    BY <1>2
  <1>6. \A i \in L : IF info[i].next = hi THEN \A j \in L : Rank(j) <= Rank(i)
                     ELSE /\ Rank(info[i].next) > Rank(i)
                          /\ \A j \in L : Rank(j) > Rank(i) => Rank(j) >= Rank(info[i].next)
    <2> TAKE i \in L
    <2> DEFINE nx == info[i].next
    <2>1. /\ nx \in L /\ (nx # 0 => nx > i) /\ \A d \in L : d > i => nx # 0 /\ nx <= d
      BY <1>3
    <2> HIDE DEF nx
    <2>2. CASE nx = hi
      <3>1. ASSUME NEW j \in L PROVE Rank(j) <= Rank(i)
        BY <1>2, <2>1, <2>2
      <3> QED
        BY <2>2, <3>1 DEF nx
    <2>3. CASE nx # hi
      <3>1. Rank(nx) > Rank(i)
        <4>1. CASE nx = 0
          <5>1. \A d \in L : ~(d > i)
            BY <2>1, <4>1
          <5> QED
            BY <1>2, <2>3, <4>1, <5>1
        <4>2. CASE nx # 0
          <5>1. nx > i
            BY <2>1, <4>2
          <5>2. i < hi => nx <= hi
            BY <1>2, <2>1
          <5> QED
            BY <1>2, <2>1, <2>3, <5>1, <5>2
        <4> QED
          BY <4>1, <4>2
      <3>2. ASSUME NEW j \in L, Rank(j) > Rank(i) PROVE Rank(j) >= Rank(nx)
        <4>1. j > i => nx # 0 /\ nx <= j
          BY <2>1
        <4>2. i < hi => nx <= hi /\ nx # 0
          BY <1>2, <2>1
        <4>3. nx # 0 => nx > i
          BY <2>1
        <4>4. j # i
          BY <1>4, <3>2
        <4>5. CASE j >= hi
          BY <1>2, <2>1, <2>3, <3>2, <4>1, <4>2, <4>3, <4>4, <4>5
        <4>6. CASE j < hi
          BY <1>2, <2>1, <2>3, <3>2, <4>1, <4>2, <4>3, <4>4, <4>6
        <4> QED
          BY <1>2, <4>5, <4>6
      <3> QED
        BY <2>3, <3>1, <3>2 DEF nx
    <2> QED
      BY <2>2, <2>3
  <1>7. ASSUME NEW i \in L, info[i].size >= n PROVE F[i] = i
    <2>1. i \in Good(i) /\ \A k \in Good(i) : Rank(i) <= Rank(k)
      BY <1>4, <1>7
    <2>2. \A j \in Good(i) : (\A k \in Good(i) : Rank(j) <= Rank(k)) => j = i
      <3> SUFFICES ASSUME NEW j \in Good(i), \A k \in Good(i) : Rank(j) <= Rank(k) PROVE j = i
        OBVIOUS
      <3>1. j \in L /\ Rank(j) <= Rank(i) /\ Rank(i) <= Rank(j)
        BY <2>1
      <3>2. Rank(j) = Rank(i)
        <4> HIDE DEF Rank
        <4> QED
          BY <1>4, <3>1
      <3> HIDE DEF Rank
      <3> QED
        BY <1>5, <3>1, <3>2
    <2>3. First(Good(i)) = i
      <3> HIDE DEF Good, Rank
      <3> QED
        BY <2>1, <2>2
    <2> HIDE DEF First, Good, Rank
    <2> QED
      BY <2>1, <2>3
  <1>8. ASSUME NEW i \in L, ~(info[i].size >= n), info[i].next = hi PROVE F[i] = 0
    <2>1. Good(i) = {}
      <3> SUFFICES ASSUME NEW j \in Good(i) PROVE FALSE
        OBVIOUS
      <3>1. j \in L /\ Rank(j) >= Rank(i) /\ info[j].size >= n
        OBVIOUS
      <3>2. Rank(j) <= Rank(i)
        <4> HIDE DEF Rank
        <4> QED
          BY <1>6, <1>8, <3>1
      <3> HIDE DEF Rank
      <3>3. j = i
        BY <1>4, <1>5, <3>1, <3>2
      <3> QED
        BY <1>8, <3>1, <3>3
    <2> HIDE DEF Good
    <2> QED
      BY <2>1
  <1>9. ASSUME NEW i \in L, ~(info[i].size >= n), info[i].next # hi
        PROVE  info[i].next \in L /\ Good(i) = Good(info[i].next) /\ F[i] = F[info[i].next]
    <2>1. info[i].next \in L
      BY <1>3
    <2>2. Good(i) = Good(info[i].next)
      <3>1. ASSUME NEW j \in L, info[j].size >= n
            PROVE  Rank(j) >= Rank(i) <=> Rank(j) >= Rank(info[i].next)
        <4>1. j # i
          BY <1>9, <3>1
        <4>2. /\ Rank(i) \in Nat /\ Rank(j) \in Nat /\ Rank(info[i].next) \in Nat
              /\ Rank(i) # Rank(j)
          BY <1>4, <1>5, <2>1, <4>1
        <4> HIDE DEF Rank
        <4>3. /\ Rank(info[i].next) > Rank(i)
              /\ Rank(j) > Rank(i) => Rank(j) >= Rank(info[i].next)
          BY <1>6, <1>9
        <4> QED
          BY <4>2, <4>3
      <3> HIDE DEF Rank
      <3> QED
        BY <3>1
    <2> HIDE DEF Good, First
    <2> QED
      BY <2>1, <2>2
  <1>10. F = [b \in List(h) |->
               IF h.heapinfo[b].size >= n THEN b
               ELSE IF h.heapinfo[b].next = h.heapindex THEN 0
               ELSE F[h.heapinfo[b].next]]
    <2>1. F = [i \in L |-> F[i]]
      OBVIOUS
    <2> HIDE DEF F
    <2> QED
      BY SMTT(20), <1>1, <1>7, <1>8, <1>9, <2>1 DEF hi
  <1> HIDE DEF F
  <1>11. PICK S : /\ S = [b \in List(h) |->
                            IF h.heapinfo[b].size >= n THEN b
                            ELSE IF h.heapinfo[b].next = h.heapindex THEN 0
                            ELSE S[h.heapinfo[b].next]]
                  /\ Fit(h, n) = S[h.heapindex]
    BY <1>10, SearchIs
  <1>12. \A i \in L : S[i] = IF info[i].size >= n THEN i
                             ELSE IF info[i].next = hi THEN 0 ELSE S[info[i].next]
    BY <1>1, <1>11 DEF hi
  <1> DEFINE OK(i) == \/ S[i] \in L /\ info[S[i]].size >= n
                      \/ S[i] = 0 /\ Good(i) = {}
             Bad == { i \in L : ~OK(i) }
             Ranks == { Rank(i) : i \in Bad }
  <1>13. Bad = {}
    <2> SUFFICES ASSUME Bad # {} PROVE FALSE
      OBVIOUS
    <2>1. PICK r \in Ranks : \A s \in Ranks : s <= r
      <3>1. Ranks \in SUBSET Nat /\ Ranks # {} /\ \A s \in Ranks : s <= Top + Top + 1
        <4> HIDE DEF Rank, OK
        <4> QED
          BY <1>4
      <3>2. Top + Top + 1 \in Nat
        BY <1>2
      <3> HIDE DEF Ranks
      <3> QED
        BY <3>1, <3>2, Greatest
    <2>2. PICK i \in Bad : r = Rank(i)
      OBVIOUS
    <2>3. i \in L /\ ~OK(i) /\ \A j \in L : ~OK(j) => Rank(j) <= Rank(i)
      <3> HIDE DEF OK, Rank
      <3> QED
        BY <2>1, <2>2
    <2>4. CASE info[i].size >= n
      BY <1>12, <2>3, <2>4
    <2>5. CASE ~(info[i].size >= n) /\ info[i].next = hi
      <3>1. S[i] = 0
        BY <1>12, <2>3, <2>5
      <3>2. Good(i) = {}
        <4> SUFFICES ASSUME NEW j \in Good(i) PROVE FALSE
          OBVIOUS
        <4>1. j \in L /\ Rank(j) >= Rank(i) /\ info[j].size >= n
          OBVIOUS
        <4> HIDE DEF Rank
        <4>2. Rank(j) <= Rank(i)
          BY <1>6, <2>3, <2>5, <4>1
        <4>3. j = i
          BY <1>4, <1>5, <2>3, <4>1, <4>2
        <4> QED
          BY <2>5, <4>1, <4>3
      <3> HIDE DEF Good
      <3> QED
        BY <2>3, <3>1, <3>2
    <2>6. CASE ~(info[i].size >= n) /\ info[i].next # hi
      <3>1. S[i] = S[info[i].next]
        BY <1>12, <2>3, <2>6
      <3>2. info[i].next \in L /\ Good(i) = Good(info[i].next)
        BY <1>9, <2>3, <2>6
      <3>3. ~OK(info[i].next)
        <4> HIDE DEF Good
        <4> QED
          BY <2>3, <3>1, <3>2
      <3>4. Rank(info[i].next) > Rank(i) /\ Rank(info[i].next) \in Nat /\ Rank(i) \in Nat
        <4> HIDE DEF Rank
        <4> QED
          BY <1>4, <1>6, <2>3, <2>6, <3>2
      <3>5. Rank(info[i].next) <= Rank(i)
        <4> HIDE DEF Rank, OK
        <4> QED
          BY <2>3, <3>2, <3>3
      <3> HIDE DEF Rank
      <3> QED
        BY <3>4, <3>5
    <2> QED
      BY <2>4, <2>5, <2>6
  <1>14. OK(hi)
    <2> HIDE DEF OK
    <2> QED
      BY <1>2, <1>13
  <1>15. CASE S[hi] \in L /\ info[S[hi]].size >= n
    <2>1. S[hi] # 0
      BY <1>2, <1>15
    <2>2. S[hi] \in FreeIn(info)
      BY <1>15, <2>1 DEF L, ListIn
    <2> QED
      BY <1>11, <1>15, <2>2 DEF hi
  <1>16. CASE S[hi] = 0 /\ Good(hi) = {}
    <2>1. ASSUME NEW c \in FreeIn(info) PROVE info[c].size < n
      <3>1. c \in L
        BY DEF L, ListIn
      <3>2. Rank(c) >= Rank(hi)
        BY <1>2, <3>1
      <3>3. ~(info[c].size >= n)
        <4> HIDE DEF Rank
        <4> QED
          BY <1>16, <3>1, <3>2
      <3> QED
        BY <1>2, <3>1, <3>3
    <2> QED
      BY <1>11, <1>16, <2>1 DEF hi
  <1> QED
    BY <1>14, <1>15, <1>16

(* The same of the doubling of the table.                                  *)
LEMMA DoubledIs ==
  ASSUME NEW heapsize, NEW blockno,
         NEW F, F = [s \in 1 .. 2 * blockno |-> IF blockno > s THEN F[2 * s] ELSE s]
  PROVE  \E D : /\ D = [s \in 1 .. 2 * blockno |-> IF blockno > s THEN D[2 * s] ELSE s]
                /\ Grown(heapsize, blockno) = D[heapsize]
  <1> DEFINE D[s \in 1 .. 2 * blockno] == IF blockno > s THEN D[2 * s] ELSE s
  <1>1. D = [s \in 1 .. 2 * blockno |-> IF blockno > s THEN D[2 * s] ELSE s]
    OBVIOUS
  <1>2. Grown(heapsize, blockno) = D[heapsize]
    BY DEF Grown
  <1> QED
    BY <1>1, <1>2

(* The table gets an entry for each block.                                 *)
LEMMA GrownIs ==
  ASSUME NEW heapsize \in Nat \ {0}, NEW blockno \in Nat, heapsize < blockno
  PROVE  Grown(heapsize, blockno) \in Nat /\ Grown(heapsize, blockno) >= blockno
  <1> DEFINE Doubles(F, m) == F = [s \in m .. 2 * blockno |-> IF blockno > s THEN F[2 * s] ELSE s]
             S == { m \in 1 .. blockno : \E F : Doubles(F, m) }
  <1>1. blockno \in S
    <2> DEFINE F == [s \in blockno .. 2 * blockno |-> s]
    <2>1. Doubles(F, blockno)
      OBVIOUS
    <2> HIDE DEF Doubles
    <2> QED
      BY <2>1
  <1>2. PICK m \in S : \A k \in S : m <= k
    <2>1. S \in SUBSET Nat /\ S # {}
      BY <1>1
    <2> HIDE DEF S
    <2> QED
      BY <2>1, Least
  <1>3. m \in 1 .. blockno /\ \E F : Doubles(F, m)
    OBVIOUS
  <1>4. PICK F : Doubles(F, m)
    BY <1>3
  <1>5. m = 1
    <2> SUFFICES ASSUME m # 1 PROVE FALSE
      OBVIOUS
    <2> DEFINE l == m - 1
               G == [s \in l .. 2 * blockno |-> IF s = l THEN F[2 * l] ELSE F[s]]
    <2>1. l \in 1 .. blockno /\ l < m /\ l < blockno /\ 2 * l \in m .. 2 * blockno
      BY <1>3
    <2>2. \A s \in m .. 2 * blockno : F[s] = IF blockno > s THEN F[2 * s] ELSE s
      BY <1>4
    <2>3. \A s \in l .. 2 * blockno : s = l \/ s \in m .. 2 * blockno
      BY <1>3
    <2>4. \A s \in l .. 2 * blockno : blockno > s => 2 * s \in l .. 2 * blockno /\ 2 * s # l
      BY <2>1
    <2>5. ASSUME NEW s \in l .. 2 * blockno
          PROVE  G[s] = IF blockno > s THEN G[2 * s] ELSE s
      <3>1. blockno > s => G[2 * s] = F[2 * s]
        BY <2>4
      <3>2. CASE s = l
        BY <2>1, <3>1, <3>2
      <3>3. CASE s # l
        BY <2>2, <2>3, <3>1, <3>3
      <3> QED
        BY <3>2, <3>3
    <2>6. Doubles(G, l)
      <3>1. G = [s \in l .. 2 * blockno |-> G[s]]
        OBVIOUS
      <3> HIDE DEF G
      <3> QED
        BY <2>5, <3>1
    <2>7. l \in S
      <3> HIDE DEF G, Doubles
      <3> QED
        BY <2>1, <2>6
    <2>8. m <= l
      <3> HIDE DEF S, l
      <3> QED
        BY <1>2, <2>7
    <2> HIDE DEF l
    <2> QED
      BY <1>3, <2>1, <2>8
  <1>6. F = [s \in 1 .. 2 * blockno |-> IF blockno > s THEN F[2 * s] ELSE s]
    BY <1>4, <1>5
  <1>7. PICK D : /\ D = [s \in 1 .. 2 * blockno |-> IF blockno > s THEN D[2 * s] ELSE s]
                 /\ Grown(heapsize, blockno) = D[heapsize]
    BY <1>6, DoubledIs
  <1> DEFINE Bad == { s \in 1 .. 2 * blockno : ~(D[s] \in Nat /\ D[s] >= blockno) }
  <1>8. Bad = {}
    <2> SUFFICES ASSUME Bad # {} PROVE FALSE
      OBVIOUS
    <2>1. PICK s \in Bad : \A k \in Bad : k <= s
      <3>1. Bad \in SUBSET Nat /\ Bad # {} /\ (\A k \in Bad : k <= 2 * blockno) /\ 2 * blockno \in Nat
        OBVIOUS
      <3> HIDE DEF Bad
      <3> QED
        BY <3>1, Greatest
    <2>2. s \in 1 .. 2 * blockno /\ ~(D[s] \in Nat /\ D[s] >= blockno)
      OBVIOUS
    <2>3. D[s] = IF blockno > s THEN D[2 * s] ELSE s
      BY <1>7, <2>2
    <2>4. blockno > s
      BY <2>2, <2>3
    <2>5. 2 * s \in 1 .. 2 * blockno /\ 2 * s > s
      BY <2>2, <2>4
    <2>6. 2 * s \in Bad
      BY <2>2, <2>3, <2>4, <2>5
    <2> QED
      BY <2>1, <2>2, <2>5, <2>6
  <1>9. heapsize \in 1 .. 2 * blockno
    OBVIOUS
  <1>10. D[heapsize] \in Nat /\ D[heapsize] >= blockno
    BY <1>8, <1>9
  <1> QED
    BY <1>7, <1>10

-----------------------------------------------------------------------------
(* Clusters.                                                               *)

(* Clusters have a length ...                                              *)
LEMMA StartIs ==
  ASSUME NEW info \in [Index -> Info]
  PROVE  /\ Starts(info) \subseteq Block
         /\ \A b \in Starts(info) :
              /\ b \in Nat /\ b > 0 /\ Size(info, b) \in Nat /\ End(info, b) \in Nat
              /\ End(info, b) = b + Size(info, b)
  <1> SUFFICES ASSUME NEW b \in Starts(info) PROVE b \in Nat /\ b > 0 /\ Size(info, b) \in Nat
    BY DEF End, Starts
  <1>1. b \in Index /\ b \in Nat /\ b > 0 /\ info[b] \in Info /\ info[b].kind # "none"
    BY Indices DEF Starts
  <1>2. Size(info, b) \in Nat
    BY <1>1, InfoKinds DEF Size, FreeInfo, LargeInfo
  <1> QED
    BY <1>1, <1>2

(* ... and blocks, by their numbers.                                       *)
LEMMA CoveredIs ==
  ASSUME NEW info \in [Index -> Info]
  PROVE  /\ \A x \in Covered(info) : x \in Nat
         /\ \A x \in Nat : x \in Covered(info) <=>
              \E b \in Starts(info) : b <= x /\ x < End(info, b)
  <1>1. \A b \in Starts(info) : b \in Nat /\ End(info, b) \in Nat
    BY StartIs
  <1>2. \A b \in Starts(info) : \A x : x \in b .. End(info, b) - 1 =>
                                       x \in Nat /\ b <= x /\ x < End(info, b)
    BY <1>1
  <1>3. \A b \in Starts(info) : \A x \in Nat : b <= x /\ x < End(info, b) =>
                                       x \in b .. End(info, b) - 1
    BY <1>1
  <1> QED
    BY <1>2, <1>3 DEF Covered

(* Two clusters become one.                                                *)
LEMMA SpansMerged ==
  ASSUME NEW info \in [Index -> Info], NEW top \in Nat, SpansOK(info, top),
         NEW a \in Starts(info), NEW c \in Starts(info), End(info, a) = c,
         NEW new \in [Index -> Info], Starts(new) = Starts(info) \ {c},
         Size(new, a) = Size(info, a) + Size(info, c),
         \A b \in Starts(new) \ {a} : Size(new, b) = Size(info, b)
  PROVE  /\ SpansOK(new, top) /\ Covered(new) = Covered(info)
         /\ End(new, a) = End(info, c) /\ a # c
  <1>1. /\ \A b \in Starts(info) : b \in Nat /\ Size(info, b) \in Nat
                                   /\ End(info, b) \in Nat /\ End(info, b) = b + Size(info, b)
        /\ \A b \in Starts(new) : End(new, b) \in Nat /\ End(new, b) = b + Size(new, b)
    BY StartIs
  <1>2. /\ \A b \in Starts(info) : Size(info, b) >= 1 /\ End(info, b) <= top
        /\ \A b, d \in Starts(info) : b < d => End(info, b) <= d
    BY DEF SpansOK
  <1>3. a # c /\ a < c /\ a \in Starts(new)
    BY <1>1, <1>2
  <1>4. /\ End(new, a) = End(info, c)
        /\ \A b \in Starts(new) \ {a} : End(new, b) = End(info, b)
    BY <1>1, <1>3
  <1>5. SpansOK(new, top)
    <2>1. \A b \in Starts(new) : Size(new, b) >= 1 /\ End(new, b) <= top
      BY <1>1, <1>2, <1>4
    <2>2. ASSUME NEW b \in Starts(new), NEW d \in Starts(new), b < d PROVE End(new, b) <= d
      <3>1. CASE b # a
        BY <1>2, <1>4, <2>2, <3>1
      <3>2. CASE b = a
        <4>1. c <= d /\ d # c
          BY <1>1, <1>2, <2>2, <3>2
        <4>2. c < d
          BY <1>1, <4>1
        <4> QED
          BY <1>2, <1>4, <3>2, <4>2
      <3> QED
        BY <3>1, <3>2
    <2> QED
      BY <2>1, <2>2 DEF SpansOK
  <1>6. \A x \in Nat : x \in Covered(new) <=> x \in Covered(info)
    <2> TAKE x \in Nat
    <2>1. ASSUME NEW b \in Starts(new), b <= x, x < End(new, b)
          PROVE  \E d \in Starts(info) : d <= x /\ x < End(info, d)
      <3>1. CASE b # a
        BY <1>4, <2>1, <3>1
      <3>2. CASE b = a /\ x < c
        BY <2>1, <3>2
      <3>3. CASE b = a /\ ~(x < c)
        BY <1>1, <1>4, <2>1, <3>3
      <3> QED
        BY <3>1, <3>2, <3>3
    <2>2. ASSUME NEW b \in Starts(info), b <= x, x < End(info, b)
          PROVE  \E d \in Starts(new) : d <= x /\ x < End(new, d)
      <3>1. CASE b # a /\ b # c
        BY <1>4, <2>2, <3>1
      <3>2. CASE b = a
        <4>1. c < End(info, c)
          BY <1>1, <1>2
        <4>2. x < End(new, a)
          BY <1>1, <1>4, <2>2, <3>2, <4>1
        <4> QED
          BY <1>3, <2>2, <3>2, <4>2
      <3>3. CASE b = c
        <4>1. a <= x
          BY <1>1, <1>3, <2>2, <3>3
        <4> QED
          BY <1>3, <1>4, <2>2, <3>3, <4>1
      <3> QED
        BY <3>1, <3>2, <3>3
    <2> QED
      BY <2>1, <2>2, CoveredIs
  <1> QED
    BY <1>3, <1>4, <1>5, <1>6, CoveredIs

(* A cluster becomes two.                                                  *)
LEMMA SpansSplit ==
  ASSUME NEW info \in [Index -> Info], NEW top \in Nat, SpansOK(info, top),
         NEW b \in Starts(info), NEW n \in Nat, n >= 1, n < Size(info, b),
         NEW new \in [Index -> Info], Starts(new) = Starts(info) \cup {b + n},
         Size(new, b) = n, Size(new, b + n) = Size(info, b) - n,
         \A c \in Starts(info) \ {b} : Size(new, c) = Size(info, c)
  PROVE  SpansOK(new, top) /\ Covered(new) = Covered(info)
  <1> DEFINE r == b + n
  <1>1. /\ \A d \in Starts(info) : d \in Nat /\ Size(info, d) \in Nat
                                   /\ End(info, d) \in Nat /\ End(info, d) = d + Size(info, d)
        /\ \A d \in Starts(new) : End(new, d) \in Nat /\ End(new, d) = d + Size(new, d)
    BY StartIs
  <1>2. /\ \A d \in Starts(info) : Size(info, d) >= 1 /\ End(info, d) <= top
        /\ \A c, d \in Starts(info) : c < d => End(info, c) <= d
    BY DEF SpansOK
  <1>3. /\ r \in Nat /\ b < r /\ r < End(info, b) /\ r = b + n
        /\ r \in Starts(new) /\ b \in Starts(new)
    BY <1>1
  <1>4. /\ End(new, b) = r
        /\ End(new, r) = End(info, b)
    BY <1>1, <1>3
  <1>5. \A d \in Starts(info) : d < b => End(info, d) <= b
    BY <1>2
  <1>6. \A d \in Starts(info) : d > b => d >= End(info, b)
    BY <1>1, <1>2
  <1>7. r \notin Starts(info)
    BY <1>1, <1>3, <1>6
  <1>8. \A d \in Starts(info) \ {b} : End(new, d) = End(info, d)
    BY <1>1
  <1> HIDE DEF r
  <1>9. Starts(new) = Starts(info) \cup {r} /\ Size(new, r) >= 1 /\ Size(new, b) >= 1
    BY <1>1 DEF r
  <1>10. SpansOK(new, top)
    <2>1. ASSUME NEW d \in Starts(new) PROVE Size(new, d) >= 1 /\ End(new, d) <= top
      <3>1. CASE d = r
        BY <1>2, <1>4, <1>9, <3>1
      <3>2. CASE d = b
        BY <1>1, <1>2, <1>3, <1>4, <1>9, <3>2
      <3>3. CASE d # r /\ d # b
        BY <1>2, <1>8, <1>9, <3>3
      <3> QED
        BY <3>1, <3>2, <3>3
    <2>2. ASSUME NEW c \in Starts(new), NEW d \in Starts(new), c < d PROVE End(new, c) <= d
      <3>1. CASE c = r
        <4>1. d \in Starts(info) /\ d > b
          BY <1>1, <1>3, <1>9, <2>2, <3>1
        <4> QED
          BY <1>4, <1>6, <3>1, <4>1
      <3>2. CASE c = b
        <4>1. CASE d = r
          BY <1>3, <1>4, <3>2, <4>1
        <4>2. CASE d # r
          <5>1. d \in Starts(info) /\ d > b
            BY <1>9, <2>2, <3>2, <4>2
          <5>2. d >= End(info, b) /\ d \in Nat
            BY <1>1, <1>6, <5>1
          <5> QED
            BY <1>1, <1>3, <1>4, <3>2, <5>2
        <4> QED
          BY <4>1, <4>2
      <3>3. CASE c # r /\ c # b /\ d # r
        BY <1>2, <1>8, <1>9, <2>2, <3>3
      <3>4. CASE c # r /\ c # b /\ d = r
        <4>1. c \in Starts(info) /\ c \in Nat
          BY <1>1, <1>9, <3>4
        <4>2. ~(c > b)
          BY <1>1, <1>3, <1>6, <2>2, <3>4, <4>1
        <4>3. End(info, c) <= b
          BY <1>1, <1>5, <3>4, <4>1, <4>2
        <4> QED
          BY <1>1, <1>3, <1>8, <3>4, <4>1, <4>3
      <3> QED
        BY <3>1, <3>2, <3>3, <3>4
    <2> QED
      BY <2>1, <2>2 DEF SpansOK
  <1>11. \A x \in Nat : x \in Covered(new) <=> x \in Covered(info)
    <2> TAKE x \in Nat
    <2>1. ASSUME NEW c \in Starts(new), c <= x, x < End(new, c)
          PROVE  \E d \in Starts(info) : d <= x /\ x < End(info, d)
      <3>1. CASE c # b /\ c # r
        BY <1>8, <1>9, <2>1, <3>1
      <3>2. CASE c = b \/ c = r
        <4>1. b <= x /\ x < End(info, b)
          BY <1>1, <1>3, <1>4, <2>1, <3>2
        <4> QED
          BY <4>1
      <3> QED
        BY <3>1, <3>2
    <2>2. ASSUME NEW d \in Starts(info), d <= x, x < End(info, d)
          PROVE  \E c \in Starts(new) : c <= x /\ x < End(new, c)
      <3>1. CASE d # b
        BY <1>7, <1>8, <1>9, <2>2, <3>1
      <3>2. CASE d = b /\ x < r
        BY <1>3, <1>4, <2>2, <3>2
      <3>3. CASE d = b /\ ~(x < r)
        <4>1. r <= x
          BY <1>3, <3>3
        <4> QED
          BY <1>3, <1>4, <2>2, <3>3, <4>1
      <3> QED
        BY <3>1, <3>2, <3>3
    <2> QED
      BY <2>1, <2>2, CoveredIs
  <1> QED
    BY <1>10, <1>11, CoveredIs

(* Sizes that stay leave the clusters where they are.                      *)
LEMMA SpansSame ==
  ASSUME NEW info \in [Index -> Info], NEW top \in Nat, SpansOK(info, top),
         NEW new \in [Index -> Info], Starts(new) = Starts(info),
         \A b \in Starts(info) : Size(new, b) = Size(info, b)
  PROVE  /\ SpansOK(new, top) /\ Covered(new) = Covered(info)
         /\ \A b \in Starts(info) : End(new, b) = End(info, b)
  <1>1. \A b \in Starts(info) : End(new, b) = End(info, b)
    BY DEF End
  <1>2. SpansOK(new, top)
    BY <1>1 DEF SpansOK
  <1>3. Covered(new) = Covered(info)
    BY <1>1 DEF Covered
  <1> QED
    BY <1>1, <1>2, <1>3

(* The last cluster goes.                                                  *)
LEMMA SpansRemoved ==
  ASSUME NEW info \in [Index -> Info], NEW top \in Nat, SpansOK(info, top),
         NEW b \in Starts(info), End(info, b) = top,
         NEW new \in [Index -> Info], Starts(new) = Starts(info) \ {b},
         \A c \in Starts(new) : Size(new, c) = Size(info, c)
  PROVE  SpansOK(new, b) /\ \A x \in Nat : x \in Covered(new) <=> x \in Covered(info) /\ x < b
  <1>1. /\ \A d \in Starts(info) : d \in Nat /\ Size(info, d) \in Nat
                                   /\ End(info, d) \in Nat /\ End(info, d) = d + Size(info, d)
    BY StartIs
  <1>2. /\ \A d \in Starts(info) : Size(info, d) >= 1 /\ End(info, d) <= top
        /\ \A c, d \in Starts(info) : c < d => End(info, c) <= d
    BY DEF SpansOK
  <1>3. \A c \in Starts(new) : End(new, c) = End(info, c)
    BY DEF End
  <1>4. \A c \in Starts(new) : c < b /\ End(info, c) <= b
    <2> TAKE c \in Starts(new)
    <2>1. ~(b < c)
      BY <1>1, <1>2
    <2> QED
      BY <1>1, <1>2, <2>1
  <1>5. SpansOK(new, b)
    BY <1>2, <1>3, <1>4 DEF SpansOK
  <1>6. ASSUME NEW x \in Nat PROVE x \in Covered(new) <=> x \in Covered(info) /\ x < b
    <2>1. \A c \in Starts(new) : c <= x /\ x < End(info, c) => x < b
      BY <1>1, <1>4
    <2>2. x \in Covered(new) <=> \E c \in Starts(new) : c <= x /\ x < End(info, c)
      BY <1>3, CoveredIs
    <2>3. x \in Covered(info) <=> \E c \in Starts(info) : c <= x /\ x < End(info, c)
      BY CoveredIs
    <2>4. \A c \in Starts(info) : c <= x /\ x < b => c # b
      BY <1>1
    <2> QED
      BY <2>1, <2>2, <2>3, <2>4
  <1> QED
    BY <1>5, <1>6

(* A cluster is put where none is.                                         *)
LEMMA SpansAdded ==
  ASSUME NEW info \in [Index -> Info], NEW top \in Nat, SpansOK(info, top),
         NEW b \in Block, NEW n \in Nat, n >= 1,
         \A x \in Nat : b <= x /\ x < b + n => x \notin Covered(info),
         NEW high \in Nat, top <= high, b + n <= high,
         NEW new \in [Index -> Info], Starts(new) = Starts(info) \cup {b}, Size(new, b) = n,
         \A c \in Starts(info) : c # b => Size(new, c) = Size(info, c)
  PROVE  /\ SpansOK(new, high) /\ b \notin Starts(info)
         /\ \A x \in Nat : x \in Covered(new) <=> x \in Covered(info) \/ (b <= x /\ x < b + n)
  <1>1. /\ \A d \in Starts(info) : d \in Nat /\ Size(info, d) \in Nat
                                   /\ End(info, d) \in Nat /\ End(info, d) = d + Size(info, d)
        /\ b \in Nat /\ b + n \in Nat
    BY StartIs, Indices
  <1>2. /\ \A d \in Starts(info) : Size(info, d) >= 1 /\ End(info, d) <= top
        /\ \A c, d \in Starts(info) : c < d => End(info, c) <= d
    BY DEF SpansOK
  <1>3. \A c \in Starts(info) : IF c < b THEN End(info, c) <= b ELSE b + n <= c
    <2> TAKE c \in Starts(info)
    <2>1. c < End(info, c)
      BY <1>1, <1>2
    <2>2. CASE c < b
      <3>1. ~(b < End(info, c))
        BY <1>1, <2>2, CoveredIs
      <3> QED
        BY <1>1, <2>2, <3>1
    <2>3. CASE ~(c < b)
      <3>1. ~(c < b + n)
        BY <1>1, <2>1, <2>3, CoveredIs
      <3> QED
        BY <1>1, <2>3, <3>1
    <2> QED
      BY <2>2, <2>3
  <1>4. b \notin Starts(info)
    BY <1>1, <1>3
  <1>5. End(new, b) = b + n /\ \A c \in Starts(info) : End(new, c) = End(info, c)
    BY <1>4 DEF End
  <1>6. SpansOK(new, high)
    <2>1. \A c \in Starts(new) : Size(new, c) >= 1 /\ End(new, c) <= high
      BY <1>1, <1>2, <1>4, <1>5
    <2>2. ASSUME NEW c \in Starts(new), NEW d \in Starts(new), c < d PROVE End(new, c) <= d
      <3>1. CASE c = b
        <4>1. d \in Starts(info) /\ ~(d < b)
          BY <1>1, <2>2, <3>1
        <4> QED
          BY <1>3, <1>5, <3>1, <4>1
      <3>2. CASE c # b /\ d = b
        BY <1>3, <1>5, <2>2, <3>2
      <3>3. CASE c # b /\ d # b
        BY <1>2, <1>5, <2>2, <3>3
      <3> QED
        BY <3>1, <3>2, <3>3
    <2> QED
      BY <2>1, <2>2 DEF SpansOK
  <1>7. ASSUME NEW x \in Nat
        PROVE  x \in Covered(new) <=> x \in Covered(info) \/ (b <= x /\ x < b + n)
    <2>1. x \in Covered(new) <=> \E c \in Starts(new) : c <= x /\ x < End(new, c)
      BY CoveredIs
    <2>2. x \in Covered(info) <=> \E c \in Starts(info) : c <= x /\ x < End(info, c)
      BY CoveredIs
    <2> QED
      BY <1>5, <2>1, <2>2
  <1> QED
    BY <1>4, <1>6, <1>7

(* The last cluster gets longer.                                           *)
LEMMA SpansExtended ==
  ASSUME NEW info \in [Index -> Info], NEW top \in Nat, SpansOK(info, top),
         NEW b \in Starts(info), End(info, b) = top, NEW n \in Nat,
         NEW new \in [Index -> Info], Starts(new) = Starts(info),
         Size(new, b) = Size(info, b) + n,
         \A c \in Starts(info) : c # b => Size(new, c) = Size(info, c)
  PROVE  /\ SpansOK(new, top + n)
         /\ \A x \in Nat : x \in Covered(new) <=> x \in Covered(info) \/ (top <= x /\ x < top + n)
  <1>1. /\ \A d \in Starts(info) : d \in Nat /\ Size(info, d) \in Nat
                                   /\ End(info, d) \in Nat /\ End(info, d) = d + Size(info, d)
        /\ top + n \in Nat
    BY StartIs, Indices
  <1>2. /\ \A d \in Starts(info) : Size(info, d) >= 1 /\ End(info, d) <= top
        /\ \A c, d \in Starts(info) : c < d => End(info, c) <= d
    BY DEF SpansOK
  <1>3. End(new, b) = top + n /\ \A c \in Starts(info) : c # b => End(new, c) = End(info, c)
    BY <1>1 DEF End
  <1>4. \A c \in Starts(info) : c # b => c < b
    <2> TAKE c \in Starts(info)
    <2>1. ~(b < c)
      BY <1>1, <1>2
    <2> QED
      BY <1>1, <2>1
  <1>5. SpansOK(new, top + n)
    <2>1. \A c \in Starts(new) : Size(new, c) >= 1 /\ End(new, c) <= top + n
      BY <1>1, <1>2, <1>3
    <2>2. ASSUME NEW c \in Starts(new), NEW d \in Starts(new), c < d PROVE End(new, c) <= d
      <3>1. c # b
        BY <1>1, <1>4, <2>2
      <3> QED
        BY <1>2, <1>3, <2>2, <3>1
    <2> QED
      BY <2>1, <2>2 DEF SpansOK
  <1>6. ASSUME NEW x \in Nat
        PROVE  x \in Covered(new) <=> x \in Covered(info) \/ (top <= x /\ x < top + n)
    <2>1. x \in Covered(new) <=> \E c \in Starts(info) : c <= x /\ x < End(new, c)
      BY CoveredIs
    <2>2. x \in Covered(info) <=> \E c \in Starts(info) : c <= x /\ x < End(info, c)
      BY CoveredIs
    <2>3. b <= x /\ x < top + n <=> (b <= x /\ x < top) \/ (top <= x /\ x < top + n)
      BY <1>1, <1>2
    <2> QED
      BY <1>3, <2>1, <2>2, <2>3
  <1> QED
    BY <1>5, <1>6

-----------------------------------------------------------------------------
(* Freeing a large cluster.                                                *)

Busy == {"large", "frags"}

(* The heapinfo info becomes new when the large cluster b is freed: block  *)
(* is the free cluster that has its blocks.                                *)
Freed(info, new, top, b, block) ==
  /\ new \in [Index -> Info] /\ LinksOK(new) /\ SpansOK(new, top)
  /\ Covered(new) = Covered(info)
  /\ block \in FreeIn(new) /\ new[b].kind \notin Busy
  /\ \A c \in Block \ {b} : IF info[c].kind \in Busy THEN new[c] = info[c]
                            ELSE new[c].kind \notin Busy
  /\ \A c \in FreeIn(info) : \E d \in FreeIn(new) : d <= c /\ End(info, c) <= End(new, d)

(* Setting the size of a free cluster leaves the rest alone.               *)
LEMMA SetSizeIs ==
  ASSUME NEW info \in [Index -> Info], NEW b \in Index, info[b].kind = "free", NEW s \in Nat
  PROVE  /\ [info EXCEPT ![b].size = s] \in [Index -> Info]
         /\ [info EXCEPT ![b].size = s][b] = Free(s, info[b].next, info[b].prev)
         /\ \A c \in Index \ {b} : [info EXCEPT ![b].size = s][c] = info[c]
  <1>1. info[b] \in FreeInfo
    BY InfoKinds
  <1>2. [info[b] EXCEPT !.size = s] = Free(s, info[b].next, info[b].prev)
    BY <1>1 DEF FreeInfo, Free
  <1>3. Free(s, info[b].next, info[b].prev) \in Info
    BY <1>1, FreeIs DEF FreeInfo
  <1> QED
    BY <1>2, <1>3

(* b joins the free cluster i before it, ...                               *)
LEMMA FreedJoined ==
  ASSUME NEW info \in [Index -> Info], NEW top \in Nat, LinksOK(info), SpansOK(info, top),
         NEW b \in Block, info[b].kind = "large",
         NEW i \in ListIn(info), b = i + info[i].size
  PROVE  Freed(info, [info EXCEPT ![i].size = @ + info[b].size, ![b] = NoInfo], top, b, i)
  <1> DEFINE n == info[b].size
             one == [info EXCEPT ![i].size = info[i].size + n]
             new == [one EXCEPT ![b] = NoInfo]
  <1>1. /\ i \in Nat /\ i \in Index /\ info[i].kind = "free" /\ info[i].size \in Nat
        /\ b \in Nat /\ b > 0 /\ b \in Index /\ b # i /\ info[0].size = 0
    <2>1. i \in Nat /\ i \in Index /\ info[i].kind = "free" /\ info[i].size \in Nat
      BY ListIs
    <2>2. b \in Nat /\ b > 0 /\ b \in Index
      BY Indices
    <2>3. b # i
      BY <2>1
    <2> QED
      BY <2>1, <2>2, <2>3 DEF LinksOK
  <1>2. i # 0 /\ i \in Block /\ i \in FreeIn(info)
    BY <1>1 DEF ListIn, FreeIn
  <1>3. n \in Nat /\ n > 0
    BY <1>1, InfoKinds DEF LargeInfo
  <1>4. /\ one \in [Index -> Info] /\ one[i] = Free(info[i].size + n, info[i].next, info[i].prev)
        /\ \A c \in Index \ {i} : one[c] = info[c]
    <2>1. info[i].size + n \in Nat
      BY <1>1, <1>3
    <2> HIDE DEF n
    <2> QED
      BY <1>1, <2>1, SetSizeIs
  <1>5. new = [info EXCEPT ![i].size = @ + info[b].size, ![b] = NoInfo]
    BY <1>1
  <1> HIDE DEF one, n
  <1>6. /\ new \in [Index -> Info] /\ new[b] = NoInfo
        /\ new[i] = Free(info[i].size + n, info[i].next, info[i].prev)
        /\ \A c \in Index \ {b, i} : new[c] = info[c]
    BY <1>1, <1>4 DEF Info
  <1> HIDE DEF new
  <1>7. /\ new[b].kind = "none" /\ new[i].kind = "free" /\ new[i].size = info[i].size + n
        /\ new[i].next = info[i].next /\ new[i].prev = info[i].prev
    BY <1>6, FreeFields DEF NoInfo
  <1>8. FreeIn(new) = FreeIn(info)
    BY <1>1, <1>2, <1>6, <1>7, Indices DEF FreeIn
  <1>9. ListIn(new) = ListIn(info)
    BY <1>8 DEF ListIn
  <1>10. LinksOK(new)
    <2>1. new[0].kind = "free" /\ new[0].size = 0
      BY <1>1, <1>2, <1>6, Indices DEF LinksOK
    <2>2. \A c \in ListIn(info) : new[c].next = info[c].next /\ new[c].prev = info[c].prev
      <3>1. \A c \in ListIn(info) : c \in Index /\ c # b
        BY <1>1, ListIs
      <3> QED
        BY <1>6, <1>7, <3>1
    <2> QED
      BY <1>6, <1>9, <2>1, <2>2, LinksSame
  <1>11. /\ Starts(new) = Starts(info) \ {b} /\ i \in Starts(info) /\ b \in Starts(info)
    BY <1>1, <1>2, <1>6, <1>7, Indices DEF Starts
  <1>12. /\ End(info, i) = b /\ Size(new, i) = Size(info, i) + Size(info, b)
         /\ \A c \in Starts(new) \ {i} : Size(new, c) = Size(info, c)
    <2>1. Size(info, i) = info[i].size /\ Size(info, b) = n /\ Size(new, i) = info[i].size + n
      BY <1>1, <1>7 DEF Size, n
    <2>2. \A c \in Starts(new) \ {i} : Size(new, c) = Size(info, c)
      BY <1>6, <1>11, Indices DEF Size, Starts
    <2> QED
      BY <2>1, <2>2 DEF End
  <1>13. SpansOK(new, top) /\ Covered(new) = Covered(info) /\ End(new, i) = End(info, b)
    BY <1>6, <1>11, <1>12, SpansMerged
  <1>14. \A c \in FreeIn(info) : \E d \in FreeIn(new) : d <= c /\ End(info, c) <= End(new, d)
    <2> TAKE c \in FreeIn(info)
    <2>1. c \in Starts(info) /\ c \in Nat /\ End(info, c) \in Nat /\ c # b
      <3>1. c \in Starts(info) /\ c # b
        BY <1>1 DEF FreeIn, Starts
      <3> QED
        BY <3>1, StartIs
    <2>2. CASE c = i
      <3>1. End(info, b) >= b
        BY <1>1, <1>11, StartIs
      <3> QED
        BY <1>2, <1>8, <1>12, <1>13, <2>1, <2>2, <3>1
    <2>3. CASE c # i
      <3>1. End(new, c) = End(info, c)
        BY <1>11, <1>12, <2>1, <2>3 DEF End
      <3> QED
        BY <1>8, <2>1, <3>1
    <2> QED
      BY <2>2, <2>3
  <1>15. \A c \in Block \ {b} : IF info[c].kind \in Busy THEN new[c] = info[c]
                                ELSE new[c].kind \notin Busy
    BY <1>1, <1>6, <1>7, Indices DEF Busy
  <1>16. new[b].kind \notin Busy /\ i \in FreeIn(new)
    BY <1>2, <1>7, <1>8 DEF Busy
  <1> QED
    BY <1>5, <1>6, <1>10, <1>13, <1>14, <1>15, <1>16 DEF Freed

(* ... or gets into the list behind it, ...                                *)
LEMMA FreedLinked ==
  ASSUME NEW info \in [Index -> Info], NEW top \in Nat, LinksOK(info), SpansOK(info, top),
         NEW b \in Block, info[b].kind = "large",
         NEW i \in ListIn(info), i < b, \A c \in ListIn(info) : c < b => c <= i,
         NEW new, new = Linked(info, i, b, info[b].size)
  PROVE  /\ Freed(info, new, top, b, b)
         /\ FreeIn(new) = FreeIn(info) \cup {b}
         /\ new[b] = Free(info[b].size, info[i].next, i)
         /\ new[info[i].next].prev = b
         /\ \A c \in Starts(info) : Size(new, c) = Size(info, c)
         /\ Starts(new) = Starts(info)
  <1> DEFINE n == info[b].size
             nx == info[i].next
  <1>1. b \in Nat /\ b > 0 /\ b \in Index /\ b \notin FreeIn(info) /\ b \notin ListIn(info)
    BY Indices DEF ListIn, FreeIn
  <1>2. n \in Nat /\ n > 0
    BY <1>1, InfoKinds DEF LargeInfo
  <1>3. /\ new \in [Index -> Info] /\ new[b] = Free(n, nx, i)
        /\ \A c \in ListIn(info) :
             new[c] = Free(info[c].size, IF c = i THEN b ELSE info[c].next,
                           IF c = nx THEN b ELSE info[c].prev)
        /\ \A c \in Index \ {b} : c \notin ListIn(info) => new[c] = info[c]
        /\ ListIn(new) = ListIn(info) \cup {b}
    BY <1>1, <1>2, LinkedIs
  <1>4. \A c \in ListIn(info) :
          /\ new[c].kind = "free" /\ new[c].size = info[c].size
          /\ new[c].next = IF c = i THEN b ELSE info[c].next
          /\ new[c].prev = IF c = nx THEN b ELSE info[c].prev
    BY <1>3, FreeFields
  <1>5. /\ new[b].kind = "free" /\ new[b].size = n /\ new[b].next = nx /\ new[b].prev = i
    BY <1>3, FreeFields
  <1>6. LinksOK(new)
    <2>1. 0 \in ListIn(info) /\ info[0].size = 0
      BY DEF LinksOK, ListIn
    <2>2. new[0].kind = "free" /\ new[0].size = 0
      BY <1>4, <2>1
    <2> QED
      BY <1>1, <1>3, <1>4, <1>5, <2>2, LinksInserted
  <1>7. \A c \in Block : c \in ListIn(info) <=> c \in FreeIn(info)
    BY Indices DEF ListIn
  <1>8. FreeIn(new) = FreeIn(info) \cup {b}
    <2>1. \A c \in Block : c \in ListIn(new) <=> c \in FreeIn(new)
      BY Indices DEF ListIn
    <2> QED
      BY <1>3, <1>7, <2>1 DEF FreeIn
  <1>9. \A c \in Block \ {b} : IF c \in FreeIn(info) THEN new[c].kind = "free" /\ info[c].kind = "free"
                                                       /\ new[c].size = info[c].size
                               ELSE new[c] = info[c]
    BY <1>3, <1>4, <1>7, Indices DEF FreeIn
  <1>10. Starts(new) = Starts(info)
    BY <1>5, <1>9 DEF Starts
  <1>11. \A c \in Starts(info) : Size(new, c) = Size(info, c)
    BY <1>5, <1>9 DEF Starts, Size
  <1>12. /\ SpansOK(new, top) /\ Covered(new) = Covered(info)
         /\ \A c \in Starts(info) : End(new, c) = End(info, c)
    BY <1>3, <1>10, <1>11, SpansSame
  <1>13. \A c \in FreeIn(info) : \E d \in FreeIn(new) : d <= c /\ End(info, c) <= End(new, d)
    <2> TAKE c \in FreeIn(info)
    <2>1. c \in Starts(info)
      BY DEF FreeIn, Starts
    <2>2. c \in Nat /\ End(info, c) \in Nat
      BY <2>1, StartIs
    <2>3. c <= c /\ End(info, c) <= End(new, c)
      BY <1>12, <2>1, <2>2
    <2> QED
      BY <1>8, <2>3
  <1>14. \A c \in Block \ {b} : IF info[c].kind \in Busy THEN new[c] = info[c]
                                ELSE new[c].kind \notin Busy
    BY <1>9 DEF Busy, FreeIn
  <1>15. new[b].kind \notin Busy /\ b \in FreeIn(new) /\ new[nx].prev = b
    <2>1. nx \in ListIn(info)
      BY ListIs
    <2> QED
      BY <1>4, <1>5, <1>8, <2>1 DEF Busy
  <1> QED
    BY <1>3, <1>6, <1>8, <1>10, <1>11, <1>12, <1>13, <1>14, <1>15 DEF Freed

(* ... and takes in the one after it, if that starts where b ends.         *)
LEMMA FreedMerged ==
  ASSUME NEW info \in [Index -> Info], NEW top \in Nat, LinksOK(info), SpansOK(info, top),
         NEW b \in Block, info[b].kind = "large",
         NEW i \in ListIn(info), i < b, \A c \in ListIn(info) : c < b => c <= i,
         NEW x, x = info[i].next, b + info[b].size = x
  PROVE  Freed(info, [Unlinked(Linked(info, i, b, info[b].size), x)
                        EXCEPT ![b].size = info[b].size + info[x].size],
               top, b, b)
  <1> DEFINE n == info[b].size
             one == Linked(info, i, b, info[b].size)
             two == Unlinked(one, x)
             new == [two EXCEPT ![b].size = n + info[x].size]
  <1>0. n = info[b].size /\ new = [Unlinked(Linked(info, i, b, info[b].size), x)
                        EXCEPT ![b].size = info[b].size + info[x].size]
    OBVIOUS
  <1>1. /\ Freed(info, one, top, b, b)
        /\ FreeIn(one) = FreeIn(info) \cup {b}
        /\ one[b] = Free(n, x, i)
        /\ one[x].prev = b
        /\ \A c \in Starts(info) : Size(one, c) = Size(info, c)
        /\ Starts(one) = Starts(info)
    BY FreedLinked
  <1>2. b \in Nat /\ b > 0 /\ b \in Index /\ b \notin FreeIn(info) /\ b \notin ListIn(info)
    BY Indices DEF ListIn, FreeIn
  <1>3. n \in Nat /\ n > 0
    BY <1>2, InfoKinds DEF LargeInfo
  <1>4. x \in ListIn(info) /\ x \in Nat /\ x # 0 /\ x # b
    <2>1. x \in ListIn(info) /\ x \in Nat
      BY ListIs
    <2>2. x > b
      BY <1>2, <1>3
    <2> QED
      BY <1>2, <2>1, <2>2
  <1>5. x \in FreeIn(info) /\ x \in Block /\ x \in Index /\ info[x].size \in Nat /\ info[x].kind = "free"
    <2>1. x \in FreeIn(info)
      BY <1>4 DEF ListIn
    <2> QED
      BY <1>4, <2>1, ListIs, Indices DEF FreeIn
  <1>6. one \in [Index -> Info] /\ LinksOK(one) /\ SpansOK(one, top) /\ x \in FreeIn(one)
    BY <1>1, <1>5 DEF Freed
  <1>7. one[b].kind = "free" /\ one[b].size = n /\ one[b].next = x /\ one[b].prev = i
    BY <1>1, FreeFields
  <1> HIDE DEF one, n
  <1>8. /\ two \in [Index -> Info] /\ two[x] = NoInfo
        /\ \A c \in ListIn(one) \ {x} :
             two[c] = Free(one[c].size, IF c = one[x].prev THEN one[x].next ELSE one[c].next,
                           IF c = one[x].next THEN one[x].prev ELSE one[c].prev)
        /\ \A c \in Index : c \notin ListIn(one) => two[c] = one[c]
        /\ ListIn(two) = ListIn(one) \ {x}
    BY <1>6, UnlinkedIs
  <1> HIDE DEF two
  <1>9. \A c \in ListIn(one) \ {x} :
          /\ two[c].kind = "free" /\ two[c].size = one[c].size
          /\ two[c].next = IF c = one[x].prev THEN one[x].next ELSE one[c].next
          /\ two[c].prev = IF c = one[x].next THEN one[x].prev ELSE one[c].prev
    BY <1>8, FreeFields
  <1>10. LinksOK(two)
    <2>1. two[0].kind = "free" /\ two[0].size = 0
      <3>1. 0 \in ListIn(one) \ {x} /\ one[0].size = 0
        BY <1>4, <1>6 DEF LinksOK, ListIn
      <3> QED
        BY <1>9, <3>1
    <2> QED
      BY <1>6, <1>8, <1>9, <2>1, LinksRemoved
  <1>11. b \in ListIn(one) \ {x} /\ b \in ListIn(two)
    BY <1>1, <1>4, <1>8 DEF ListIn
  <1>12. /\ new \in [Index -> Info] /\ new[b] = Free(n + info[x].size, two[b].next, two[b].prev)
         /\ \A c \in Index \ {b} : new[c] = two[c]
    <2>1. two[b].kind = "free" /\ n + info[x].size \in Nat
      BY <1>3, <1>5, <1>9, <1>11
    <2> QED
      BY <1>2, <1>8, <2>1, SetSizeIs
  <1> HIDE DEF new
  <1>13. /\ new[b].kind = "free" /\ new[b].size = n + info[x].size
         /\ new[b].next = two[b].next /\ new[b].prev = two[b].prev
    BY <1>12, FreeFields
  <1>14. FreeIn(new) = FreeIn(two) /\ FreeIn(two) = FreeIn(one) \ {x}
    <2>1. FreeIn(new) = FreeIn(two)
      <3>1. b \in FreeIn(two)
        BY <1>2, <1>11 DEF ListIn
      <3> QED
        BY <1>12, <1>13, <3>1, Indices DEF FreeIn
    <2>2. \A c \in Block : /\ c \in ListIn(one) <=> c \in FreeIn(one)
                           /\ c \in ListIn(two) <=> c \in FreeIn(two)
      BY Indices DEF ListIn
    <2> QED
      BY <1>8, <2>1, <2>2 DEF FreeIn
  <1>15. LinksOK(new)
    <2>1. ListIn(new) = ListIn(two)
      BY <1>14 DEF ListIn
    <2>2. \A c \in ListIn(two) : new[c].next = two[c].next /\ new[c].prev = two[c].prev
      <3>1. ListIn(two) \subseteq Index
        BY <1>8, <1>10, ListIs
      <3> QED
        BY <1>12, <1>13, <3>1
    <2>3. new[0].kind = "free" /\ new[0].size = 0
      <3>1. 0 \in Index \ {b}
        BY <1>2, Indices
      <3> QED
        BY <1>10, <1>12, <3>1 DEF LinksOK
    <2> QED
      BY <1>8, <1>10, <1>12, <2>1, <2>2, <2>3, LinksSame
  <1>16. \A c \in Block \ {b, x} : IF c \in FreeIn(info)
                                    THEN c \in FreeIn(one) /\ new[c].kind = "free" /\ new[c].size = one[c].size
                                    ELSE new[c] = one[c]
    <2> TAKE c \in Block \ {b, x}
    <2>1. c \in Index /\ c # 0
      BY Indices
    <2>2. CASE c \in FreeIn(info)
      <3>1. c \in FreeIn(one) /\ c \in ListIn(one)
        BY <1>1, <2>2 DEF ListIn
      <3> QED
        BY <1>9, <1>12, <2>1, <2>2, <3>1
    <2>3. CASE c \notin FreeIn(info)
      <3>1. c \notin ListIn(one)
        BY <1>1, <2>1, <2>3 DEF ListIn
      <3> QED
        BY <1>8, <1>12, <2>1, <2>3, <3>1
    <2> QED
      BY <2>2, <2>3
  <1>17. new[x] = NoInfo /\ new[x].kind = "none"
    BY <1>4, <1>5, <1>8, <1>12 DEF NoInfo
  <1>18. Starts(new) = Starts(one) \ {x} /\ b \in Starts(one) /\ x \in Starts(one)
    <2>1. b \in Starts(one) /\ x \in Starts(one) /\ b \in Starts(new) /\ x \notin Starts(new)
      BY <1>6, <1>7, <1>13, <1>17 DEF Starts, FreeIn
    <2>2. \A c \in Block \ {b, x} : c \in Starts(new) <=> c \in Starts(one)
      BY <1>16 DEF Starts, FreeIn
    <2> QED
      BY <2>1, <2>2 DEF Starts
  <1>19. \A c \in Starts(new) \ {b} : Size(new, c) = Size(one, c)
    <2> TAKE c \in Starts(new) \ {b}
    <2>1. c \in Block \ {b, x}
      BY <1>18 DEF Starts
    <2> QED
      BY <1>16, <2>1 DEF Size, FreeIn
  <1>20. /\ Size(new, b) = n + info[x].size /\ Size(one, b) = n /\ Size(one, x) = info[x].size
    <2>1. Size(one, x) = Size(info, x) /\ x \in Starts(info)
      BY <1>1, <1>18
    <2> QED
      BY <1>5, <1>7, <1>13, <2>1 DEF Size
  <1>21. End(one, b) = x
    BY <1>20 DEF End, n
  <1>22. SpansOK(new, top) /\ Covered(new) = Covered(one) /\ End(new, b) = End(one, x)
    BY <1>6, <1>12, <1>18, <1>19, <1>20, <1>21, SpansMerged
  <1>23. Covered(new) = Covered(info) /\ \A c \in Starts(info) : End(one, c) = End(info, c)
    BY <1>1, <1>22 DEF Freed, End
  <1>24. \A c \in FreeIn(info) : \E d \in FreeIn(new) : d <= c /\ End(info, c) <= End(new, d)
    <2> TAKE c \in FreeIn(info)
    <2>1. c \in Starts(info) /\ c \in Nat /\ End(info, c) \in Nat /\ c # b
      <3>1. c \in Starts(info) /\ c # b
        BY <1>2 DEF FreeIn, Starts
      <3> QED
        BY <3>1, StartIs
    <2>2. b \in FreeIn(new) /\ b <= x
      BY <1>1, <1>2, <1>3, <1>4, <1>14 DEF n
    <2>3. CASE c = x
      <3>1. b <= c /\ End(info, c) <= End(new, b)
        BY <1>22, <1>23, <2>1, <2>2, <2>3
      <3> QED
        BY <2>2, <3>1
    <2>4. CASE c # x
      <3>1. c \in FreeIn(new)
        BY <1>1, <1>14, <2>4
      <3>2. Size(new, c) = Size(one, c)
        BY <1>18, <1>19, <2>1, <2>4, <1>1
      <3>3. End(new, c) = End(info, c)
        BY <1>23, <2>1, <3>2 DEF End
      <3> QED
        BY <2>1, <3>1, <3>3
    <2> QED
      BY <2>3, <2>4
  <1>25. \A c \in Block \ {b} : IF info[c].kind \in Busy THEN new[c] = info[c]
                                ELSE new[c].kind \notin Busy
    <2> TAKE c \in Block \ {b}
    <2>1. IF info[c].kind \in Busy THEN one[c] = info[c] ELSE one[c].kind \notin Busy
      BY <1>1 DEF Freed
    <2>2. CASE c = x
      BY <1>5, <1>17, <2>2 DEF Busy
    <2>3. CASE c # x /\ c \in FreeIn(info)
      <3>1. info[c].kind = "free" /\ new[c].kind = "free"
        BY <1>16, <2>3 DEF FreeIn
      <3> QED
        BY <3>1 DEF Busy
    <2>4. CASE c # x /\ c \notin FreeIn(info)
      <3>1. new[c] = one[c]
        BY <1>16, <2>4
      <3> QED
        BY <2>1, <3>1
    <2> QED
      BY <2>2, <2>3, <2>4
  <1>26. new[b].kind \notin Busy /\ b \in FreeIn(new)
    BY <1>1, <1>4, <1>13, <1>14 DEF Busy
  <1> QED
    BY <1>0, <1>12, <1>15, <1>22, <1>23, <1>24, <1>25, <1>26 DEF Freed

(* The fields of a heap.                                                   *)
LEMMA HeapFields ==
  ASSUME NEW h \in Heap
  PROVE  /\ h.heapinfo \in [Index -> Info] /\ h.heapindex \in Index /\ h.heaplimit \in Nat
         /\ h.heapsize \in Nat \ {0} /\ h.table \in Nat \ {0} /\ h.breakval \in Nat
         /\ h.fraghead \in [Log -> Seq(Addr)]
  BY DEF Heap

(* The heap h becomes g: block stays, or goes back to the system.          *)
FreesTo(h, g, new, block) ==
  \/ g = [h EXCEPT !.heapinfo = new, !.heapindex = block]
  \/ /\ block + new[block].size = h.heaplimit
     /\ block + new[block].size = h.breakval
     /\ g = [h EXCEPT !.heapinfo = Unlinked(new, block),
                      !.heapindex = new[block].prev,
                      !.heaplimit = h.heaplimit - new[block].size,
                      !.breakval = h.breakval - new[block].size]

(* What __umalloc_free does to heapinfo, before it may return memory.      *)
LEMMA FreeBlocksFrees ==
  ASSUME NEW h \in Heap, NEW info, info = h.heapinfo, NEW top \in Nat, LinksOK(info),
         SpansOK(info, top), h.heapindex \in ListIn(info),
         NEW b \in Block, info[b].kind = "large"
  PROVE  \E new, block :
           Freed(info, new, top, b, block) /\ FreesTo(h, FreeBlocks(h, b), new, block)
  <1> DEFINE n == info[b].size
             i == Predecessor(h, b)
             joins == b = i + info[i].size
             next == info[i].next
             linked == Linked(info, i, b, n)
             new ==
               IF joins
               THEN [info EXCEPT ![i].size = @ + n, ![b] = NoInfo]
               ELSE IF b + n = next
                    THEN [Unlinked(linked, next) EXCEPT ![b].size = n + info[next].size]
                    ELSE linked
             block == IF joins THEN i ELSE b
             size == new[block].size
             freed == [h EXCEPT !.heapinfo = new, !.heapindex = block]
  <1>1. info \in [Index -> Info] /\ b \notin FreeIn(info)
    BY HeapFields DEF FreeIn
  <1>2. i \in ListIn(info) /\ i < b /\ \A c \in ListIn(info) : c < b => c <= i
    BY <1>1, PredecessorIs
  <1>3. FreeBlocks(h, b) =
          IF size >= FINAL_FREE_BLOCKS /\ IsLast(freed, block)
          THEN [freed EXCEPT !.heapinfo = Unlinked(new, block),
                             !.heapindex = new[block].prev,
                             !.heaplimit = @ - size,
                             !.breakval = @ - size]
          ELSE freed
    BY DEF FreeBlocks
  <1>4. Freed(info, new, top, b, block)
    <2>0. i = i /\ next = info[i].next /\ n = info[b].size /\ linked = Linked(info, i, b, info[b].size)
      OBVIOUS
    <2> HIDE DEF i
    <2>1. CASE joins
      <3>1. new = [info EXCEPT ![i].size = @ + info[b].size, ![b] = NoInfo] /\ block = i
        BY <2>1
      <3> HIDE DEF new, block
      <3> QED
        BY <1>1, <1>2, <2>1, <3>1, FreedJoined
    <2>2. CASE ~joins /\ b + n = next
      <3>1. new = [Unlinked(Linked(info, i, b, info[b].size), next)
                     EXCEPT ![b].size = info[b].size + info[next].size] /\ block = b
        BY <2>2
      <3>2. next = info[i].next /\ b + info[b].size = next
        BY <2>2
      <3> HIDE DEF new, block, next, joins
      <3> QED
        BY <1>1, <1>2, <3>1, <3>2, FreedMerged
    <2>3. CASE ~joins /\ b + n # next
      <3>1. new = Linked(info, i, b, info[b].size) /\ block = b
        BY <2>3
      <3> HIDE DEF new, block, joins, next
      <3> QED
        BY <1>1, <1>2, <3>1, FreedLinked
    <2> QED
      BY <2>1, <2>2, <2>3
  <1> HIDE DEF new, block
  <1>5. CASE FreeBlocks(h, b) = freed
    <2>1. FreesTo(h, FreeBlocks(h, b), new, block)
      BY <1>5 DEF FreesTo
    <2> QED
      BY <1>4, <2>1
  <1>6. CASE IsLast(freed, block)
             /\ FreeBlocks(h, b) = [freed EXCEPT !.heapinfo = Unlinked(new, block),
                                                 !.heapindex = new[block].prev,
                                                 !.heaplimit = @ - size,
                                                 !.breakval = @ - size]
    <2>1. /\ freed.heapinfo = new /\ freed.heaplimit = h.heaplimit /\ freed.breakval = h.breakval
      BY DEF Heap
    <2>2. block + size = h.heaplimit /\ block + size = h.breakval
      BY <1>6, <2>1 DEF IsLast
    <2>3. FreeBlocks(h, b) = [freed EXCEPT !.heapinfo = Unlinked(new, block),
                                           !.heapindex = new[block].prev,
                                           !.heaplimit = h.heaplimit - size,
                                           !.breakval = h.breakval - size]
      BY <1>6, <2>1
    <2>4. FreesTo(h, FreeBlocks(h, b), new, block)
      BY <2>2, <2>3 DEF FreesTo
    <2> QED
      BY <1>4, <2>4
  <1> QED
    BY <1>3, <1>5, <1>6

(* __umalloc_free of the cluster b, also when memory goes back.            *)
LEMMA FreeBlocksIs ==
  ASSUME NEW h \in Heap, NEW info, info = h.heapinfo, NEW top \in Nat, LinksOK(info),
         SpansOK(info, top), h.heapindex \in ListIn(info),
         top <= h.heaplimit \/ h.heaplimit < h.breakval,
         NEW b \in Block, info[b].kind = "large",
         NEW r, r = FreeBlocks(h, b), NEW new, new = r.heapinfo
  PROVE  /\ r \in Heap /\ r.heapsize = h.heapsize /\ r.table = h.table
         /\ r.fraghead = h.fraghead
         /\ LinksOK(new) /\ r.heapindex \in ListIn(new)
         /\ new[b].kind \notin Busy
         /\ \A c \in Block \ {b} : IF info[c].kind \in Busy THEN new[c] = info[c]
                                   ELSE new[c].kind \notin Busy
         /\ \/ /\ r.heaplimit = h.heaplimit /\ r.breakval = h.breakval
               /\ SpansOK(new, top) /\ Covered(new) = Covered(info)
               /\ \A c \in FreeIn(info) :
                    \E d \in FreeIn(new) : d <= c /\ End(info, c) <= End(new, d)
            \/ /\ h.heaplimit = top /\ h.breakval = top
               /\ r.heaplimit = r.breakval /\ r.breakval < top /\ SpansOK(new, r.breakval)
               /\ \A x \in Nat : x \in Covered(new) <=> x \in Covered(info) /\ x < r.breakval
               /\ \A x \in Nat : r.breakval <= x /\ x < top => x \in Covered(info)
  <1>0. info \in [Index -> Info] /\ h.heaplimit \in Nat /\ h.breakval \in Nat
    BY HeapFields
  <1>1. PICK one, block : Freed(info, one, top, b, block) /\ FreesTo(h, r, one, block)
    BY FreeBlocksFrees
  <1> DEFINE size == one[block].size
  <1>2. /\ one \in [Index -> Info] /\ LinksOK(one) /\ SpansOK(one, top)
        /\ Covered(one) = Covered(info)
        /\ block \in FreeIn(one) /\ one[b].kind \notin Busy
        /\ \A c \in Block \ {b} : IF info[c].kind \in Busy THEN one[c] = info[c]
                                  ELSE one[c].kind \notin Busy
        /\ \A c \in FreeIn(info) : \E d \in FreeIn(one) : d <= c /\ End(info, c) <= End(one, d)
    BY <1>1 DEF Freed
  <1>3. /\ block \in ListIn(one) /\ block \in Index /\ block \in Nat /\ block > 0 /\ block \in Block
        /\ one[block].kind = "free"
    BY <1>2, Indices DEF ListIn, FreeIn
  <1>4. CASE r = [h EXCEPT !.heapinfo = one, !.heapindex = block]
    <2>1. /\ r \in Heap /\ new = one /\ r.heapindex = block /\ r.heapsize = h.heapsize
          /\ r.table = h.table /\ r.fraghead = h.fraghead /\ r.heaplimit = h.heaplimit
          /\ r.breakval = h.breakval
      BY <1>2, <1>3, <1>4 DEF Heap
    <2> QED
      BY <1>2, <1>3, <2>1
  <1>5. CASE /\ block + size = h.heaplimit /\ block + size = h.breakval
             /\ r = [h EXCEPT !.heapinfo = Unlinked(one, block), !.heapindex = one[block].prev,
                              !.heaplimit = h.heaplimit - size, !.breakval = h.breakval - size]
    <2>2. block + size = h.heaplimit /\ block + size = h.breakval
      BY <1>5
    <2>3. /\ block \in Starts(one) /\ End(one, block) = block + size /\ size \in Nat
          /\ size >= 1 /\ End(one, block) <= top
      <3>1. block \in Starts(one) /\ Size(one, block) = size
        BY <1>3 DEF Starts, Size
      <3> QED
        BY <1>2, <3>1, StartIs DEF SpansOK
    <2>4. top = h.heaplimit /\ top = h.breakval /\ End(one, block) = top
          /\ h.heaplimit - size = block /\ h.breakval - size = block /\ block < top
      BY <1>0, <1>3, <2>2, <2>3
    <2> DEFINE two == Unlinked(one, block)
    <2>5. /\ two \in [Index -> Info] /\ two[block] = NoInfo
          /\ \A c \in ListIn(one) \ {block} :
               two[c] = Free(one[c].size, IF c = one[block].prev THEN one[block].next ELSE one[c].next,
                             IF c = one[block].next THEN one[block].prev ELSE one[c].prev)
          /\ \A c \in Index : c \notin ListIn(one) => two[c] = one[c]
          /\ ListIn(two) = ListIn(one) \ {block}
      BY <1>2, UnlinkedIs
    <2> HIDE DEF two
    <2>6. \A c \in ListIn(one) \ {block} :
            /\ two[c].kind = "free" /\ two[c].size = one[c].size
            /\ two[c].next = IF c = one[block].prev THEN one[block].next ELSE one[c].next
            /\ two[c].prev = IF c = one[block].next THEN one[block].prev ELSE one[c].prev
      BY <2>5, FreeFields
    <2>7. LinksOK(two)
      <3>1. 0 \in ListIn(one) \ {block} /\ one[0].size = 0
        BY <1>2, <1>3 DEF LinksOK, ListIn
      <3>2. two[0].kind = "free" /\ two[0].size = 0
        BY <2>6, <3>1
      <3> QED
        BY <1>2, <2>5, <2>6, <3>2, LinksRemoved
    <2>8. one[block].prev \in ListIn(two) /\ one[block].prev \in Index
      <3>1. /\ one[block].prev \in ListIn(one) /\ one[one[block].prev].next = block
            /\ one[block].next # 0 => one[block].next > block
            /\ ListIn(one) \subseteq Index
        BY <1>2, <1>3, ListIs
      <3>2. one[block].prev # block
        BY <1>3, <3>1
      <3> QED
        BY <2>5, <3>1, <3>2
    <2>9. r = [h EXCEPT !.heapinfo = two, !.heapindex = one[block].prev,
                        !.heaplimit = block, !.breakval = block]
      BY <1>5, <2>4 DEF two
    <2>10. /\ r \in Heap /\ new = two /\ r.heapindex = one[block].prev /\ r.heapsize = h.heapsize
           /\ r.table = h.table /\ r.fraghead = h.fraghead /\ r.heaplimit = block
           /\ r.breakval = block
      BY ZenonT(30), <1>3, <2>5, <2>8, <2>9 DEF Heap
    <2>11. \A c \in Block \ {block} : IF c \in FreeIn(one)
                                       THEN two[c].kind = "free" /\ two[c].size = one[c].size
                                       ELSE two[c] = one[c]
      <3> TAKE c \in Block \ {block}
      <3>1. c \in Index /\ c # 0 /\ (c \in ListIn(one) <=> c \in FreeIn(one))
        BY Indices DEF ListIn
      <3> QED
        BY <2>5, <2>6, <3>1
    <2>12. Starts(two) = Starts(one) \ {block} /\ \A c \in Starts(two) : Size(two, c) = Size(one, c)
      <3>1. block \notin Starts(two)
        BY <2>5 DEF Starts, NoInfo
      <3>2. \A c \in Block \ {block} : c \in Starts(two) <=> c \in Starts(one)
        BY <2>11 DEF Starts, FreeIn
      <3>3. \A c \in Block \ {block} : Size(two, c) = Size(one, c)
        BY <2>11 DEF Size, FreeIn
      <3> QED
        BY <3>1, <3>2, <3>3 DEF Starts
    <2>13. SpansOK(two, block) /\ \A x \in Nat : x \in Covered(two) <=> x \in Covered(one) /\ x < block
      BY <1>2, <2>3, <2>4, <2>5, <2>12, SpansRemoved
    <2>14. \A x \in Nat : block <= x /\ x < top => x \in Covered(info)
      <3>1. \A x \in Nat : block <= x /\ x < End(one, block) => x \in Covered(one)
        BY <1>2, <2>3, CoveredIs
      <3> QED
        BY <1>2, <2>4, <3>1
    <2>15. \A c \in Block : IF one[c].kind \in Busy THEN two[c] = one[c]
                            ELSE two[c].kind \notin Busy
      <3> TAKE c \in Block
      <3>1. CASE c = block
        BY <1>3, <2>5, <3>1 DEF Busy, NoInfo
      <3>2. CASE c # block
        BY <2>11, <3>2 DEF Busy, FreeIn
      <3> QED
        BY <3>1, <3>2
    <2>16. new[b].kind \notin Busy
      BY <1>2, <2>10, <2>15
    <2>17. \A c \in Block \ {b} : IF info[c].kind \in Busy THEN new[c] = info[c]
                                  ELSE new[c].kind \notin Busy
      BY <1>2, <2>10, <2>15
    <2> QED
      BY <1>2, <2>4, <2>7, <2>8, <2>10, <2>13, <2>14, <2>16, <2>17
  <1> QED
    BY <1>1, <1>4, <1>5 DEF FreesTo

(* The same, with the heap it returns written out.                         *)
LEMMA FreeBlocksHas ==
  ASSUME NEW h \in Heap, NEW top \in Nat, LinksOK(h.heapinfo),
         SpansOK(h.heapinfo, top), h.heapindex \in ListIn(h.heapinfo),
         top <= h.heaplimit \/ h.heaplimit < h.breakval,
         NEW b \in Block, h.heapinfo[b].kind = "large"
  PROVE  LET r == FreeBlocks(h, b)
             new == r.heapinfo
             info == h.heapinfo
         IN
         /\ r \in Heap /\ r.heapsize = h.heapsize /\ r.table = h.table
         /\ r.fraghead = h.fraghead
         /\ LinksOK(new) /\ r.heapindex \in ListIn(new)
         /\ new[b].kind \notin Busy
         /\ \A c \in Block \ {b} : IF info[c].kind \in Busy THEN new[c] = info[c]
                                   ELSE new[c].kind \notin Busy
         /\ \/ /\ r.heaplimit = h.heaplimit /\ r.breakval = h.breakval
               /\ SpansOK(new, top) /\ Covered(new) = Covered(info)
               /\ \A c \in FreeIn(info) :
                    \E d \in FreeIn(new) : d <= c /\ End(info, c) <= End(new, d)
            \/ /\ h.heaplimit = top /\ h.breakval = top
               /\ r.heaplimit = r.breakval /\ r.breakval < top /\ SpansOK(new, r.breakval)
               /\ \A x \in Nat : x \in Covered(new) <=> x \in Covered(info) /\ x < r.breakval
               /\ \A x \in Nat : r.breakval <= x /\ x < top => x \in Covered(info)
  BY FreeBlocksIs

-----------------------------------------------------------------------------
(* Allocation of a free cluster, or of the first blocks of one.            *)

(* Large makes an entry.                                                   *)
LEMMA LargeIs == ASSUME NEW n \in Nat, n >= 1
                 PROVE  Large(n) \in Info /\ Large(n).kind = "large" /\ Large(n).size = n
  BY DEF Large, Info, LargeInfo

(* A free cluster of n blocks is taken whole, ...                          *)
LEMMA TakenWhole ==
  ASSUME NEW info \in [Index -> Info], NEW top \in Nat, LinksOK(info), SpansOK(info, top),
         NEW b \in FreeIn(info), NEW n, n = info[b].size, n >= 1
  PROVE  LET new == [Unlinked(info, b) EXCEPT ![b] = Large(n)] IN
         /\ new \in [Index -> Info] /\ LinksOK(new) /\ SpansOK(new, top)
         /\ Covered(new) = Covered(info)
         /\ info[b].next \in ListIn(new) /\ new[b] = Large(n)
         /\ \A c \in Block \ {b} : IF info[c].kind \in Busy THEN new[c] = info[c]
                                   ELSE new[c].kind \notin Busy
  <1>1. /\ b \in ListIn(info) /\ b \in Index /\ b \in Nat /\ b > 0 /\ b \in Block
        /\ info[b].kind = "free" /\ n \in Nat
    BY ListIs, Indices DEF ListIn, FreeIn
  <1> DEFINE two == Unlinked(info, b)
             new == [two EXCEPT ![b] = Large(n)]
  <1>2. /\ two \in [Index -> Info] /\ two[b] = NoInfo
        /\ \A c \in ListIn(info) \ {b} :
             two[c] = Free(info[c].size, IF c = info[b].prev THEN info[b].next ELSE info[c].next,
                           IF c = info[b].next THEN info[b].prev ELSE info[c].prev)
        /\ \A c \in Index : c \notin ListIn(info) => two[c] = info[c]
        /\ ListIn(two) = ListIn(info) \ {b}
    BY UnlinkedIs
  <1> HIDE DEF two
  <1>4. /\ new \in [Index -> Info] /\ new[b] = Large(n) /\ new[b].kind = "large" /\ new[b].size = n
        /\ \A c \in Index \ {b} : new[c] = two[c]
    BY <1>1, <1>2, LargeIs
  <1> HIDE DEF new
  <1>5. \A c \in ListIn(info) \ {b} :
          /\ two[c].kind = "free" /\ two[c].size = info[c].size
          /\ two[c].next = IF c = info[b].prev THEN info[b].next ELSE info[c].next
          /\ two[c].prev = IF c = info[b].next THEN info[b].prev ELSE info[c].prev
    BY <1>2, FreeFields
  <1>6. ListIn(info) \subseteq Index /\ 0 \in ListIn(info) \ {b}
    BY <1>1, ListIs
  <1>7. \A c \in ListIn(info) \ {b} :
          /\ new[c].kind = "free" /\ new[c].size = info[c].size
          /\ new[c].next = IF c = info[b].prev THEN info[b].next ELSE info[c].next
          /\ new[c].prev = IF c = info[b].next THEN info[b].prev ELSE info[c].prev
    BY <1>4, <1>5, <1>6
  <1>8. \A c \in Block \ {b} : c \notin FreeIn(info) => new[c] = info[c]
    BY <1>2, <1>4, Indices DEF ListIn
  <1>9. ListIn(new) = ListIn(info) \ {b}
    <2>1. \A c \in Block : c \in FreeIn(new) <=> c \in FreeIn(info) /\ c # b
      <3> TAKE c \in Block
      <3>1. CASE c = b
        BY <1>4, <3>1 DEF FreeIn
      <3>2. CASE c # b /\ c \in FreeIn(info)
        BY <1>7, <3>2 DEF ListIn, FreeIn
      <3>3. CASE c # b /\ c \notin FreeIn(info)
        BY <1>8, <3>3 DEF FreeIn
      <3> QED
        BY <3>1, <3>2, <3>3
    <2>2. FreeIn(new) = FreeIn(info) \ {b}
      BY <2>1 DEF FreeIn
    <2> QED
      BY <1>1, <2>2 DEF ListIn
  <1>10. LinksOK(new)
    <2>1. new[0].kind = "free" /\ new[0].size = 0
      BY <1>6, <1>7 DEF LinksOK
    <2> QED
      BY <1>4, <1>7, <1>9, <2>1, LinksRemoved
  <1>11. info[b].next \in ListIn(new)
    <2>1. info[b].next \in ListIn(info) /\ (info[b].next # 0 => info[b].next > b)
      BY <1>1, ListIs
    <2> QED
      BY <1>1, <1>9, <2>1
  <1>12. Starts(new) = Starts(info) /\ \A c \in Starts(info) : Size(new, c) = Size(info, c)
    <2>1. \A c \in Block : /\ new[c].kind # "none" <=> info[c].kind # "none"
                           /\ Size(new, c) = Size(info, c)
      <3> TAKE c \in Block
      <3>1. CASE c = b
        BY <1>1, <1>4, <3>1 DEF Size
      <3>2. CASE c # b /\ c \in FreeIn(info)
        BY <1>7, <3>2 DEF ListIn, FreeIn, Size
      <3>3. CASE c # b /\ c \notin FreeIn(info)
        BY <1>8, <3>3 DEF Size
      <3> QED
        BY <3>1, <3>2, <3>3
    <2> QED
      BY <2>1 DEF Starts
  <1>13. SpansOK(new, top) /\ Covered(new) = Covered(info)
    BY <1>4, <1>12, SpansSame
  <1>14. \A c \in Block \ {b} : IF info[c].kind \in Busy THEN new[c] = info[c]
                                ELSE new[c].kind \notin Busy
    <2> TAKE c \in Block \ {b}
    <2>1. CASE c \in FreeIn(info)
      BY <1>7, <2>1 DEF ListIn, FreeIn, Busy
    <2>2. CASE c \notin FreeIn(info)
      BY <1>8, <2>2
    <2> QED
      BY <2>1, <2>2
  <1> QED
    BY <1>4, <1>10, <1>11, <1>13, <1>14 DEF new, two

(* ... and a longer one is split.                                          *)
LEMMA TakenPart ==
  ASSUME NEW info \in [Index -> Info], NEW top \in Nat, top <= Top + 1, LinksOK(info),
         SpansOK(info, top), NEW b \in FreeIn(info), NEW n \in Nat, n >= 1, n < info[b].size,
         NEW rest, rest = b + n
  PROVE  LET left == SetPrev(SetNext([info EXCEPT ![rest] =
                                        Free(info[b].size - n, info[b].next, info[b].prev)],
                                     info[b].prev, rest),
                             info[b].next, rest)
             new == [left EXCEPT ![b] = Large(n)]
         IN
         /\ new \in [Index -> Info] /\ LinksOK(new) /\ SpansOK(new, top)
         /\ Covered(new) = Covered(info)
         /\ rest \in ListIn(new) /\ new[b] = Large(n)
         /\ \A c \in Block \ {b} : IF info[c].kind \in Busy THEN new[c] = info[c]
                                   ELSE new[c].kind \notin Busy
  <1> DEFINE s == info[b].size
             nx == info[b].next
             pv == info[b].prev
             one == [info EXCEPT ![rest] = Free(s - n, nx, pv)]
             two == SetNext(one, pv, rest)
             left == SetPrev(two, nx, rest)
             new == [left EXCEPT ![b] = Large(n)]
  <1>1. /\ b \in ListIn(info) /\ b \in Index /\ b \in Nat /\ b > 0 /\ b \in Block
        /\ info[b].kind = "free" /\ s \in Nat /\ n < s
        /\ ListIn(info) \subseteq Index /\ ListIn(info) \subseteq Nat /\ 0 \in ListIn(info)
        /\ nx \in ListIn(info) /\ pv \in ListIn(info)
        /\ info[nx].prev = b /\ info[pv].next = b /\ (nx # 0 => nx > b)
        /\ \A c \in ListIn(info) : info[c].kind = "free"
    BY ListIs, Indices DEF ListIn, FreeIn
  <1>2. nx # b /\ pv # b
    BY <1>1
  <1>3. \A c \in ListIn(info) : /\ info[c].size \in Nat /\ info[c].next \in Index
                                /\ info[c].prev \in Index
                                /\ info[c] = Free(info[c].size, info[c].next, info[c].prev)
    <2> TAKE c \in ListIn(info)
    <2>1. info[c] \in Info /\ info[c].kind = "free"
      BY <1>1
    <2> QED
      BY <2>1, InfoKinds DEF FreeInfo
  <1> HIDE DEF s, nx, pv
  <1>4. b \in Starts(info) /\ End(info, b) = b + s /\ b + s <= top /\ Size(info, b) = s
    <2>1. b \in Starts(info) /\ Size(info, b) = s
      BY <1>1 DEF Starts, Size, s
    <2> QED
      BY <2>1 DEF SpansOK, End
  <1>5. rest \in Nat /\ rest > b /\ rest < b + s /\ rest \in Block /\ rest \in Index
    BY <1>1, <1>4, Indices DEF Block
  <1>6. \A c \in Starts(info) : c > b => c > rest
    <2> TAKE c \in Starts(info)
    <2>1. c \in Nat /\ (c > b => b + s <= c)
      BY <1>1, <1>4, StartIs DEF SpansOK
    <2> QED
      BY <1>1, <1>5, <2>1
  <1>7. rest \notin Starts(info) /\ rest \notin ListIn(info)
    <2>1. rest \notin Starts(info)
      BY <1>5, <1>6
    <2> QED
      BY <1>1, <1>5, <2>1 DEF Starts, ListIn, FreeIn
  <1>8. s - n \in Nat /\ s - n >= 1
    BY <1>1
  <1>9. one \in [Index -> Info] /\ one[rest] = Free(s - n, nx, pv)
        /\ \A c \in Index \ {rest} : one[c] = info[c]
    BY <1>1, <1>5, <1>8, FreeIs
  <1> HIDE DEF one
  <1>10. /\ two \in [Index -> Info] /\ two[pv] = Free(info[pv].size, rest, info[pv].prev)
         /\ \A c \in Index \ {pv} : two[c] = one[c]
    <2>1. one[pv] = info[pv] /\ one[pv].kind = "free" /\ pv \in Index
      BY <1>1, <1>7, <1>9
    <2> QED
      BY <1>5, <1>9, <2>1, SetNextIs
  <1> HIDE DEF two
  <1>11. two[nx] = Free(info[nx].size, IF nx = pv THEN rest ELSE info[nx].next, info[nx].prev)
    BY <1>1, <1>3, <1>7, <1>9, <1>10
  <1>12. /\ two[nx].kind = "free" /\ two[nx].size = info[nx].size
         /\ two[nx].next = IF nx = pv THEN rest ELSE info[nx].next
    BY <1>11, FreeFields
  <1>13. /\ left \in [Index -> Info]
         /\ left[nx] = Free(info[nx].size, IF nx = pv THEN rest ELSE info[nx].next, rest)
         /\ \A c \in Index \ {nx} : left[c] = two[c]
    BY <1>1, <1>5, <1>10, <1>12, SetPrevIs
  <1> HIDE DEF left
  <1>15. /\ new \in [Index -> Info] /\ new[b] = Large(n) /\ new[b].kind = "large" /\ new[b].size = n
         /\ \A c \in Index \ {b} : new[c] = left[c]
    BY <1>1, <1>13, LargeIs
  <1> HIDE DEF new
  <1>16. \A c \in ListIn(info) \ {b} :
           new[c] = Free(info[c].size, IF c = pv THEN rest ELSE info[c].next,
                         IF c = nx THEN rest ELSE info[c].prev)
    <2> TAKE c \in ListIn(info) \ {b}
    <2>0. c \in Index /\ c # rest
      BY <1>1, <1>7
    <2>1. CASE c = nx
      BY <1>13, <1>15, <2>0, <2>1
    <2>2. CASE c # nx /\ c = pv
      BY <1>10, <1>13, <1>15, <2>0, <2>2
    <2>3. CASE c # nx /\ c # pv
      <3>1. new[c] = info[c]
        BY <1>9, <1>10, <1>13, <1>15, <2>0, <2>3
      <3> QED
        BY <1>3, <2>3, <3>1
    <2> QED
      BY <2>1, <2>2, <2>3
  <1>17. \A c \in ListIn(info) \ {b} :
          /\ new[c].kind = "free" /\ new[c].size = info[c].size
          /\ new[c].next = IF c = pv THEN rest ELSE info[c].next
          /\ new[c].prev = IF c = nx THEN rest ELSE info[c].prev
    BY <1>16, FreeFields
  <1>18. new[rest] = Free(s - n, nx, pv)
    BY <1>1, <1>5, <1>7, <1>9, <1>10, <1>13, <1>15
  <1>19. /\ new[rest].kind = "free" /\ new[rest].size = s - n /\ new[rest].next = nx
         /\ new[rest].prev = pv
    BY <1>18, FreeFields
  <1>20. \A c \in Block \ {b, rest} : c \notin FreeIn(info) => new[c] = info[c]
    <2> TAKE c \in Block \ {b, rest}
    <2> HAVE c \notin FreeIn(info)
    <2>1. c \in Index /\ c \notin ListIn(info)
      BY Indices DEF ListIn
    <2> QED
      BY <1>1, <1>9, <1>10, <1>13, <1>15, <2>1
  <1>21. ListIn(new) = (ListIn(info) \ {b}) \cup {rest}
    <2>1. \A c \in Block : c \in FreeIn(new) <=> (c \in FreeIn(info) /\ c # b) \/ c = rest
      <3> TAKE c \in Block
      <3>1. CASE c = b
        BY <1>5, <1>15, <3>1 DEF FreeIn
      <3>2. CASE c = rest
        BY <1>19, <3>2 DEF FreeIn
      <3>3. CASE c # b /\ c \in FreeIn(info)
        BY <1>17, <3>3 DEF ListIn, FreeIn
      <3>4. CASE c # b /\ c # rest /\ c \notin FreeIn(info)
        BY <1>20, <3>4 DEF FreeIn
      <3> QED
        BY <3>1, <3>2, <3>3, <3>4
    <2> QED
      BY <1>1, <1>5, <2>1 DEF ListIn, FreeIn
  <1>22. LinksOK(new)
    <2>1. new[0].kind = "free" /\ new[0].size = 0
      <3>1. 0 \in ListIn(info) \ {b}
        BY <1>1
      <3> QED
        BY <1>17, <3>1 DEF LinksOK
    <2>2. \A c \in ListIn(info) : c > b => c > rest
      <3> TAKE c \in ListIn(info)
      <3> HAVE c > b
      <3>1. c # 0
        BY <1>1
      <3> QED
        BY <1>6, <3>1 DEF ListIn, FreeIn, Starts
    <2>3. b \in FreeIn(info)
      OBVIOUS
    <2> QED
      BY <1>5, <1>15, <1>17, <1>19, <1>21, <2>1, <2>2, <2>3, LinksReplaced DEF nx, pv
  <1>23. /\ Starts(new) = Starts(info) \cup {rest}
         /\ \A c \in Starts(info) \ {b} : Size(new, c) = Size(info, c)
         /\ Size(new, b) = n /\ Size(new, rest) = s - n
    <2>1. ASSUME NEW c \in Block \ {b, rest}
          PROVE  /\ new[c].kind # "none" <=> info[c].kind # "none"
                 /\ Size(new, c) = Size(info, c)
      <3>2. CASE c \in FreeIn(info)
        BY <1>17, <3>2 DEF ListIn, FreeIn, Size
      <3>3. CASE c \notin FreeIn(info)
        BY <1>20, <3>3 DEF Size
      <3> QED
        BY <3>2, <3>3
    <2>2. Size(new, b) = n /\ Size(new, rest) = s - n /\ b \in Starts(new) /\ rest \in Starts(new)
      BY <1>1, <1>5, <1>15, <1>19 DEF Size, Starts
    <2>3. \A c \in Starts(info) \ {b} : c \in Block \ {b, rest}
      BY <1>7 DEF Starts
    <2>4. Starts(new) = Starts(info) \cup {rest}
      BY <1>4, <2>1, <2>2 DEF Starts
    <2> QED
      BY <2>1, <2>2, <2>3, <2>4
  <1>24. SpansOK(new, top) /\ Covered(new) = Covered(info)
    BY <1>1, <1>4, <1>15, <1>23, SpansSplit
  <1>25. \A c \in Block \ {b} : IF info[c].kind \in Busy THEN new[c] = info[c]
                                ELSE new[c].kind \notin Busy
    <2> TAKE c \in Block \ {b}
    <2>1. CASE c = rest
      BY <1>7, <1>19, <2>1 DEF Starts, Busy
    <2>2. CASE c # rest /\ c \in FreeIn(info)
      BY <1>17, <2>2 DEF ListIn, FreeIn, Busy
    <2>3. CASE c # rest /\ c \notin FreeIn(info)
      BY <1>20, <2>3
    <2> QED
      BY <2>1, <2>2, <2>3
  <1>26. rest \in ListIn(new)
    BY <1>21
  <1> QED
    BY <1>15, <1>22, <1>24, <1>25, <1>26 DEF new, left, two, one, s, nx, pv

(* Either way the clusters stay apart and the list in order.               *)
LEMMA TakeIs ==
  ASSUME NEW h \in Heap, NEW info, info = h.heapinfo, NEW top \in Nat, top <= Top + 1,
         LinksOK(info), SpansOK(info, top),
         NEW b \in FreeIn(info), NEW n \in Nat, n >= 1, info[b].size >= n,
         NEW r, r = Take(h, b, n), NEW new, new = r.heapinfo
  PROVE  /\ r \in Heap /\ r.heapsize = h.heapsize /\ r.table = h.table
         /\ r.fraghead = h.fraghead /\ r.heaplimit = h.heaplimit /\ r.breakval = h.breakval
         /\ LinksOK(new) /\ SpansOK(new, top) /\ Covered(new) = Covered(info)
         /\ r.heapindex \in ListIn(new) /\ new[b] = Large(n)
         /\ \A c \in Block \ {b} : IF info[c].kind \in Busy THEN new[c] = info[c]
                                   ELSE new[c].kind \notin Busy
  <1> DEFINE rest == b + n
             left == SetPrev(SetNext([info EXCEPT ![rest] =
                                        Free(info[b].size - n, info[b].next, info[b].prev)],
                                     info[b].prev, rest),
                             info[b].next, rest)
             part == [left EXCEPT ![b] = Large(n)]
             whole == [Unlinked(info, b) EXCEPT ![b] = Large(n)]
  <1>1. info \in [Index -> Info] /\ info[b].size \in Nat
    BY HeapFields, ListIs DEF ListIn
  <1>2. r = IF info[b].size > n
            THEN [h EXCEPT !.heapinfo = part, !.heapindex = rest]
            ELSE [h EXCEPT !.heapinfo = whole, !.heapindex = info[b].next]
    BY DEF Take
  <1>3. CASE info[b].size > n
    <2>1. /\ part \in [Index -> Info] /\ LinksOK(part) /\ SpansOK(part, top)
          /\ Covered(part) = Covered(info)
          /\ rest \in ListIn(part) /\ part[b] = Large(n)
          /\ \A c \in Block \ {b} : IF info[c].kind \in Busy THEN part[c] = info[c]
                                    ELSE part[c].kind \notin Busy
      BY <1>1, <1>3, TakenPart
    <2> HIDE DEF part, rest
    <2>2. rest \in Index
      BY <2>1, ListIs
    <2>3. /\ r \in Heap /\ r.heapsize = h.heapsize /\ r.table = h.table
          /\ r.fraghead = h.fraghead /\ r.heaplimit = h.heaplimit /\ r.breakval = h.breakval
          /\ new = part /\ r.heapindex = rest
      BY <1>2, <1>3, <2>1, <2>2 DEF Heap
    <2> QED
      BY <2>1, <2>3
  <1>4. CASE ~(info[b].size > n)
    <2>0. n = info[b].size
      BY <1>1, <1>4
    <2>1. /\ whole \in [Index -> Info] /\ LinksOK(whole) /\ SpansOK(whole, top)
          /\ Covered(whole) = Covered(info)
          /\ info[b].next \in ListIn(whole) /\ whole[b] = Large(n)
          /\ \A c \in Block \ {b} : IF info[c].kind \in Busy THEN whole[c] = info[c]
                                    ELSE whole[c].kind \notin Busy
      BY <1>1, <2>0, TakenWhole
    <2> HIDE DEF whole
    <2>2. info[b].next \in Index
      BY <2>1, ListIs
    <2>3. /\ r \in Heap /\ r.heapsize = h.heapsize /\ r.table = h.table
          /\ r.fraghead = h.fraghead /\ r.heaplimit = h.heaplimit /\ r.breakval = h.breakval
          /\ new = whole /\ r.heapindex = info[b].next
      BY <1>2, <1>4, <2>1, <2>2 DEF Heap
    <2> QED
      BY <2>1, <2>3
  <1> QED
    BY <1>3, <1>4

(* The same, with the heap it returns written out.                         *)
LEMMA TakeHas ==
  ASSUME NEW h \in Heap, NEW top \in Nat, top <= Top + 1,
         LinksOK(h.heapinfo), SpansOK(h.heapinfo, top),
         NEW b \in FreeIn(h.heapinfo), NEW n \in Nat, n >= 1, h.heapinfo[b].size >= n
  PROVE  LET r == Take(h, b, n)
             new == r.heapinfo
             info == h.heapinfo
         IN
         /\ r \in Heap /\ r.heapsize = h.heapsize /\ r.table = h.table
         /\ r.fraghead = h.fraghead /\ r.heaplimit = h.heaplimit /\ r.breakval = h.breakval
         /\ LinksOK(new) /\ SpansOK(new, top) /\ Covered(new) = Covered(info)
         /\ r.heapindex \in ListIn(new) /\ new[b] = Large(n)
         /\ \A c \in Block \ {b} : IF info[c].kind \in Busy THEN new[c] = info[c]
                                   ELSE new[c].kind \notin Busy
  BY TakeIs

-----------------------------------------------------------------------------
(* Memory from the system.                                                 *)

(* A table takes a block or more.                                          *)
LEMMA TableBlocksIs == \A n \in Nat \ {0} : TableBlocks(n) \in Nat /\ TableBlocks(n) >= 1
  <1> TAKE n \in Nat \ {0}
  <1> DEFINE a == n + InfoPerBlock - 1
  <1>1. a \in Nat /\ InfoPerBlock \in Nat \ {0} /\ a >= InfoPerBlock
    BY UmallocAssumption
  <1> HIDE DEF a
  <1>2. a \div InfoPerBlock \in Nat /\ a \div InfoPerBlock >= 1
    BY <1>1
  <1> QED
    BY <1>2 DEF TableBlocks, a

(* No cluster has a block above top, ...                                   *)
LEMMA CoveredBelow ==
  ASSUME NEW info \in [Index -> Info], NEW top \in Nat, SpansOK(info, top)
  PROVE  \A x \in Covered(info) : x \in Nat /\ x < top
  <1> SUFFICES ASSUME NEW x \in Covered(info) PROVE x \in Nat /\ x < top
    OBVIOUS
  <1>1. x \in Nat
    BY CoveredIs
  <1>2. PICK b \in Starts(info) : b <= x /\ x < End(info, b)
    BY <1>1, CoveredIs
  <1>3. End(info, b) \in Nat /\ End(info, b) <= top
    BY StartIs DEF SpansOK
  <1> QED
    BY <1>1, <1>2, <1>3

(* ... or above anything higher.                                           *)
LEMMA SpansHigher ==
  ASSUME NEW info \in [Index -> Info], NEW top \in Nat, SpansOK(info, top),
         NEW high \in Nat, top <= high
  PROVE  SpansOK(info, high)
  <1>1. \A b \in Starts(info) : End(info, b) \in Nat
    BY StartIs
  <1> QED
    BY <1>1 DEF SpansOK

(* HeapAt, with numbers for the blocks of the table.                       *)
LEMMA HeapAtHas ==
  ASSUME NEW h, NEW top, HeapAt(h, top)
  PROVE  /\ h \in Heap /\ h.heapinfo \in [Index -> Info] /\ top \in Nat /\ top <= Top + 1
         /\ LinksOK(h.heapinfo) /\ SpansOK(h.heapinfo, top)
         /\ h.heapindex \in ListIn(h.heapinfo)
         /\ h.heaplimit \in Nat /\ h.breakval \in Nat /\ h.heapsize \in Nat \ {0}
         /\ h.table \in Block /\ h.table \in Nat /\ h.table >= 1 /\ Top \in Nat
         /\ TableBlocks(h.heapsize) \in Nat /\ TableBlocks(h.heapsize) >= 1
         /\ top <= h.heaplimit /\ h.heaplimit <= h.breakval /\ h.breakval <= Top + 1
         /\ h.heaplimit <= h.heapsize /\ h.table + TableBlocks(h.heapsize) <= h.breakval
         /\ h.table + TableBlocks(h.heapsize) <= top \/ h.heaplimit <= h.table
         /\ \A x \in Nat : x >= 1 /\ x < h.breakval =>
              \/ x \in Covered(h.heapinfo)
              \/ h.table <= x /\ x < h.table + TableBlocks(h.heapsize)
              \/ top <= x /\ x < h.heaplimit
         /\ \A x \in Nat : h.table <= x /\ x < h.table + TableBlocks(h.heapsize)
                            => x \notin Covered(h.heapinfo)
  <1> DEFINE TB == TableBlocks(h.heapsize)
  <1>1. Top \in Nat /\ h \in Heap
    BY Indices DEF HeapAt
  <1>2. /\ h.heapinfo \in [Index -> Info] /\ h.heaplimit \in Nat /\ h.breakval \in Nat
        /\ h.heapsize \in Nat \ {0} /\ h.table \in Nat \ {0} /\ TB \in Nat /\ TB >= 1
    BY <1>1, HeapFields, TableBlocksIs
  <1>3. \A x : x \in Table(h) <=> x \in Nat /\ h.table <= x /\ x < h.table + TB
    BY <1>2 DEF Table
  <1>4. top \in Nat /\ top <= Top + 1
    BY <1>1 DEF HeapAt, Sound
  <1>5. h.table \in Block
    BY <1>1, <1>2 DEF Block, HeapAt
  <1> HIDE DEF TB
  <1>6. ASSUME NEW x \in Nat, x >= 1, x < h.breakval
        PROVE  \/ x \in Covered(h.heapinfo)
               \/ h.table <= x /\ x < h.table + TB
               \/ top <= x /\ x < h.heaplimit
    <2>1. x \in 1 .. h.breakval - 1
      BY <1>2, <1>6
    <2>2. x \in Covered(h.heapinfo) \/ x \in Table(h) \/ x \in top .. h.heaplimit - 1
      BY <2>1 DEF HeapAt
    <2>3. x \in top .. h.heaplimit - 1 => top <= x /\ x < h.heaplimit
      BY <1>2, <1>4
    <2> QED
      BY <1>3, <2>2, <2>3
  <1>7. \A x \in Nat : h.table <= x /\ x < h.table + TB => x \notin Covered(h.heapinfo)
    BY <1>3 DEF HeapAt
  <1> QED
    BY <1>1, <1>2, <1>4, <1>5, <1>6, <1>7 DEF HeapAt, Sound, TB

(* HeapAt, from its parts in that form.                                    *)
LEMMA HeapAtFrom ==
  ASSUME NEW h \in Heap, NEW top \in Nat, top <= Top + 1,
         LinksOK(h.heapinfo), SpansOK(h.heapinfo, top), h.heapindex \in ListIn(h.heapinfo),
         top <= h.heaplimit, h.heaplimit <= h.breakval, h.breakval <= Top + 1,
         h.heaplimit <= h.heapsize, h.table + TableBlocks(h.heapsize) <= h.breakval,
         h.table + TableBlocks(h.heapsize) <= top \/ h.heaplimit <= h.table,
         \A x \in Nat : x >= 1 /\ x < h.breakval =>
           \/ x \in Covered(h.heapinfo)
           \/ h.table <= x /\ x < h.table + TableBlocks(h.heapsize)
           \/ top <= x /\ x < h.heaplimit,
         \A x \in Nat : h.table <= x /\ x < h.table + TableBlocks(h.heapsize)
                         => x \notin Covered(h.heapinfo)
  PROVE  HeapAt(h, top)
  <1> DEFINE TB == TableBlocks(h.heapsize)
  <1>1. Top \in Nat
    BY Indices
  <1>2. /\ h.heapinfo \in [Index -> Info] /\ h.heaplimit \in Nat /\ h.breakval \in Nat
        /\ h.heapsize \in Nat \ {0} /\ h.table \in Nat \ {0} /\ TB \in Nat /\ TB >= 1
    BY HeapFields, TableBlocksIs
  <1>3. \A x : x \in Table(h) <=> x \in Nat /\ h.table <= x /\ x < h.table + TB
    BY <1>2 DEF Table
  <1>4. ASSUME NEW x \in 1 .. h.breakval - 1
        PROVE  x \in Covered(h.heapinfo) \/ x \in Table(h) \/ x \in top .. h.heaplimit - 1
    <2>1. x \in Nat /\ x >= 1 /\ x < h.breakval
      BY <1>2
    <2>2. \/ x \in Covered(h.heapinfo)
          \/ h.table <= x /\ x < h.table + TB
          \/ top <= x /\ x < h.heaplimit
      BY <2>1
    <2>3. top <= x /\ x < h.heaplimit => x \in top .. h.heaplimit - 1
      BY <1>2, <2>1
    <2> QED
      BY <1>3, <2>1, <2>2, <2>3
  <1>5. \A x \in Table(h) : x \notin Covered(h.heapinfo)
    BY <1>3
  <1>6. top \in 0 .. Top + 1
    BY <1>1
  <1> QED
    BY <1>2, <1>4, <1>5, <1>6 DEF HeapAt, Sound

(* morecore gives n blocks at the break, the table moved or not, and a     *)
(* heap whose clusters are below them.                                     *)
LEMMA MoreCoreIs ==
  ASSUME NEW h, HeapAt(h, h.heaplimit), NEW n \in Nat, n >= 1,
         NEW r, r = morecore(h, n)
  PROVE  \/ r = NoCore(h)
         \/ /\ r.block = h.breakval /\ HeapAt(r.heap, h.breakval)
            /\ r.heap.heaplimit = h.breakval + n /\ h.breakval + n <= Top + 1
            /\ r.heap.fraghead = h.fraghead
            /\ \A c \in Block : IF h.heapinfo[c].kind \in Busy
                                THEN r.heap.heapinfo[c] = h.heapinfo[c]
                                ELSE r.heap.heapinfo[c].kind \notin Busy
            /\ \A c \in FreeIn(h.heapinfo) :
                 \E d \in FreeIn(r.heap.heapinfo) :
                   d <= c /\ End(h.heapinfo, c) <= End(r.heap.heapinfo, d)
  <1> DEFINE info == h.heapinfo
             lo == h.breakval
             blockno == lo + n
             TB == TableBlocks(h.heapsize)
             newsize == Grown(h.heapsize, blockno)
             end == blockno + TableBlocks(newsize)
             minfo == [info EXCEPT ![h.table] = Large(TB)]
             moved == [h EXCEPT !.breakval = end, !.table = blockno, !.heapinfo = minfo]
             freed == FreeBlocks(moved, h.table)
  <1>1. /\ h \in Heap /\ info \in [Index -> Info] /\ h.heaplimit \in Nat
        /\ LinksOK(info) /\ SpansOK(info, h.heaplimit) /\ h.heapindex \in ListIn(info)
        /\ lo \in Nat /\ h.heapsize \in Nat \ {0}
        /\ h.table \in Block /\ h.table \in Nat /\ h.table >= 1 /\ Top \in Nat
        /\ TB \in Nat /\ TB >= 1
        /\ h.heaplimit <= lo /\ lo <= Top + 1
        /\ h.heaplimit <= h.heapsize /\ h.table + TB <= lo
        /\ \A x \in Nat : x >= 1 /\ x < lo =>
             x \in Covered(info) \/ (h.table <= x /\ x < h.table + TB)
        /\ \A x \in Nat : h.table <= x /\ x < h.table + TB => x \notin Covered(info)
    <2>1. \A x \in Nat : x >= 1 /\ x < lo =>
             x \in Covered(info) \/ (h.table <= x /\ x < h.table + TB)
      <3> TAKE x \in Nat
      <3>1. ~(h.heaplimit <= x /\ x < h.heaplimit)
        BY HeapAtHas
      <3> QED
        BY <3>1, HeapAtHas
    <2> QED
      BY <2>1, HeapAtHas
  <1>2. r = IF blockno > Top + 1 THEN NoCore(h)
            ELSE IF blockno <= h.heapsize
            THEN [heap |-> [h EXCEPT !.breakval = blockno, !.heaplimit = blockno],
                  block |-> lo]
            ELSE IF end > Top + 1 THEN NoCore(h)
            ELSE [heap |-> [freed EXCEPT !.heapsize = newsize, !.heaplimit = blockno],
                  block |-> lo]
    BY DEF morecore
  <1> HIDE DEF TB
  <1>3. SpansOK(info, lo)
    BY <1>1, SpansHigher
  <1>4. CASE blockno <= Top + 1 /\ blockno <= h.heapsize
    <2> DEFINE g == [h EXCEPT !.breakval = blockno, !.heaplimit = blockno]
    <2>1. r = [heap |-> g, block |-> lo]
      BY <1>1, <1>2, <1>4
    <2>2. /\ g \in Heap /\ g.heapinfo = info /\ g.heapindex = h.heapindex /\ g.heapsize = h.heapsize
          /\ g.table = h.table /\ g.fraghead = h.fraghead /\ g.heaplimit = blockno
          /\ g.breakval = blockno
      <3>1. blockno \in Nat
        BY <1>1
      <3> HIDE DEF blockno
      <3> QED
        BY <1>1, <3>1 DEF Heap
    <2>3. r.heap = g /\ r.block = lo
      BY <2>1
    <2> HIDE DEF g
    <2>4. \A x \in Nat : x >= 1 /\ x < g.breakval =>
            \/ x \in Covered(g.heapinfo)
            \/ g.table <= x /\ x < g.table + TB
            \/ lo <= x /\ x < g.heaplimit
      BY <1>1, <2>2
    <2>5. HeapAt(g, lo)
      <3>1. TableBlocks(g.heapsize) = TB
        BY <2>2 DEF TB
      <3>2. g.table + TableBlocks(g.heapsize) <= g.breakval /\ g.table + TableBlocks(g.heapsize) <= lo
        BY <1>1, <1>4, <2>2, <3>1
      <3>3. lo <= g.heaplimit /\ g.heaplimit <= g.breakval /\ g.heaplimit <= g.heapsize
        BY <1>1, <1>4, <2>2
      <3> QED
        BY <1>1, <1>3, <1>4, <2>2, <2>4, <3>1, <3>2, <3>3, HeapAtFrom
    <2>6. \A c \in Block : IF info[c].kind \in Busy THEN g.heapinfo[c] = info[c]
                           ELSE g.heapinfo[c].kind \notin Busy
      BY <2>2
    <2>7. \A c \in FreeIn(info) : \E d \in FreeIn(g.heapinfo) :
            d <= c /\ End(info, c) <= End(g.heapinfo, d)
      <3> TAKE c \in FreeIn(info)
      <3>1. c \in Starts(info)
        BY DEF FreeIn, Starts
      <3>2. c <= c /\ End(info, c) <= End(info, c)
        BY <1>1, <3>1, StartIs
      <3> QED
        BY <2>2, <3>2
    <2> QED
      BY <1>4, <2>2, <2>3, <2>5, <2>6, <2>7
  <1>5. CASE blockno <= Top + 1 /\ ~(blockno <= h.heapsize) /\ end <= Top + 1
    <2>1. blockno \in Nat /\ h.heapsize < blockno /\ blockno >= lo /\ blockno = lo + n
      BY <1>1, <1>5
    <2> HIDE DEF blockno
    <2>2. newsize \in Nat \ {0} /\ newsize >= blockno
      <3>1. newsize \in Nat /\ newsize >= blockno
        BY <1>1, <2>1, GrownIs
      <3> QED
        BY <1>1, <2>1, <3>1
    <2> HIDE DEF newsize
    <2>3. end \in Nat /\ end = blockno + TableBlocks(newsize) /\ end > blockno
      <3>1. TableBlocks(newsize) \in Nat /\ TableBlocks(newsize) >= 1
        BY <2>2, TableBlocksIs
      <3> QED
        BY <2>1, <3>1
    <2> HIDE DEF end
    <2> DEFINE b == h.table
    <2>4. /\ minfo \in [Index -> Info] /\ minfo[b] = Large(TB)
          /\ minfo[b].kind = "large" /\ minfo[b].size = TB
          /\ \A c \in Index \ {b} : minfo[c] = info[c]
      BY <1>1, LargeIs, Indices
    <2> HIDE DEF minfo
    <2>5. b \notin Starts(info)
      <3>1. b \notin Covered(info)
        BY <1>1
      <3>2. b \in Starts(info) => b <= b /\ b < End(info, b)
        BY <1>1, StartIs DEF SpansOK
      <3> QED
        BY <1>1, <3>1, <3>2, CoveredIs
    <2>6. b # 0 /\ b \notin ListIn(info) /\ info[b].kind = "none"
      BY <1>1, <2>5 DEF Starts, ListIn, FreeIn
    <2>7. FreeIn(minfo) = FreeIn(info) /\ Starts(minfo) = Starts(info) \cup {b}
      BY ZenonT(30), <1>1, <2>4, <2>6, Indices DEF FreeIn, Starts
    <2>8. LinksOK(minfo)
      <3>1. ListIn(minfo) = ListIn(info)
        BY <2>7 DEF ListIn
      <3>2. \A c \in ListIn(info) : minfo[c] = info[c]
        <4>1. ListIn(info) \subseteq Index
          BY <1>1, ListIs
        <4> QED
          BY <2>4, <2>6, <4>1
      <3>3. minfo[0].kind = "free" /\ minfo[0].size = 0
        <4>1. 0 \in ListIn(info)
          BY DEF ListIn
        <4> QED
          BY <1>1, <3>2, <4>1 DEF LinksOK
      <3> QED
        BY <1>1, <2>4, <3>1, <3>2, <3>3, LinksSame
    <2>9. /\ SpansOK(minfo, lo)
          /\ \A x \in Nat : x \in Covered(minfo) <=>
               x \in Covered(info) \/ (b <= x /\ x < b + TB)
      <3>1. Size(minfo, b) = TB
        BY <2>4 DEF Size
      <3>2. \A c \in Starts(info) : c # b => Size(minfo, c) = Size(info, c)
        BY <2>4, Indices DEF Size, Starts
      <3> QED
        BY <1>1, <1>3, <2>4, <2>7, <3>1, <3>2, SpansAdded
    <2>10. /\ moved \in Heap /\ moved.heapinfo = minfo /\ moved.heapindex = h.heapindex
           /\ moved.heapsize = h.heapsize /\ moved.table = blockno
           /\ moved.fraghead = h.fraghead /\ moved.heaplimit = h.heaplimit
           /\ moved.breakval = end
      <3>1. blockno \in Nat \ {0}
        BY <1>1, <2>1
      <3> QED
        BY <1>1, <2>3, <2>4, <3>1 DEF Heap
    <2> HIDE DEF moved
    <2> DEFINE new == freed.heapinfo
    <2>11. /\ freed \in Heap /\ freed.heapsize = h.heapsize /\ freed.table = blockno
           /\ freed.fraghead = h.fraghead
           /\ LinksOK(new) /\ freed.heapindex \in ListIn(new)
           /\ new[b].kind \notin Busy
           /\ \A c \in Block \ {b} : IF minfo[c].kind \in Busy THEN new[c] = minfo[c]
                                     ELSE new[c].kind \notin Busy
           /\ freed.heaplimit = h.heaplimit /\ freed.breakval = end
           /\ SpansOK(new, lo) /\ Covered(new) = Covered(minfo)
           /\ \A c \in FreeIn(minfo) :
                \E d \in FreeIn(new) : d <= c /\ End(minfo, c) <= End(new, d)
      <3>1. moved.heaplimit < moved.breakval /\ ~(moved.heaplimit = lo /\ moved.breakval = lo)
        BY <1>1, <2>1, <2>3, <2>10
      <3>2. moved.heapindex \in ListIn(minfo)
        BY <1>1, <2>7, <2>10 DEF ListIn
      <3>3. /\ moved \in Heap /\ LinksOK(moved.heapinfo) /\ SpansOK(moved.heapinfo, lo)
            /\ moved.heapindex \in ListIn(moved.heapinfo)
            /\ moved.heapinfo[b].kind = "large" /\ b \in Block /\ lo \in Nat
        BY <1>1, <2>4, <2>8, <2>9, <2>10, <3>2
      <3>4. freed = FreeBlocks(moved, b)
        BY DEF freed
      <3> HIDE DEF freed, b, lo
      <3>5. /\ freed \in Heap /\ freed.heapsize = moved.heapsize /\ freed.table = moved.table
            /\ freed.fraghead = moved.fraghead
            /\ LinksOK(freed.heapinfo) /\ freed.heapindex \in ListIn(freed.heapinfo)
            /\ freed.heapinfo[b].kind \notin Busy
            /\ \A c \in Block \ {b} : IF moved.heapinfo[c].kind \in Busy
                                     THEN freed.heapinfo[c] = moved.heapinfo[c]
                                     ELSE freed.heapinfo[c].kind \notin Busy
            /\ freed.heaplimit = moved.heaplimit /\ freed.breakval = moved.breakval
            /\ SpansOK(freed.heapinfo, lo) /\ Covered(freed.heapinfo) = Covered(moved.heapinfo)
            /\ \A c \in FreeIn(moved.heapinfo) :
                 \E d \in FreeIn(freed.heapinfo) :
                   d <= c /\ End(moved.heapinfo, c) <= End(freed.heapinfo, d)
        BY ONLY <3>1, <3>3, <3>4, FreeBlocksHas
      <3> QED
        BY <2>10, <3>5
    <2> HIDE DEF freed
    <2> DEFINE g == [freed EXCEPT !.heapsize = newsize, !.heaplimit = blockno]
    <2>12. /\ g \in Heap /\ g.heapinfo = new /\ g.heapindex = freed.heapindex
           /\ g.heapsize = newsize /\ g.table = blockno
           /\ g.fraghead = h.fraghead /\ g.heaplimit = blockno
           /\ g.breakval = end
      BY <2>1, <2>2, <2>11 DEF Heap
    <2>13. r = [heap |-> g, block |-> lo]
      BY <1>1, <1>2, <1>5, <2>1, <2>3 DEF blockno, end, newsize, freed, moved, minfo
    <2>14. r.heap = g /\ r.block = lo
      BY <2>13
    <2> HIDE DEF g, new
    <2>15. HeapAt(g, lo)
      <3>1. \A x \in Nat : x >= 1 /\ x < g.breakval =>
              \/ x \in Covered(g.heapinfo)
              \/ g.table <= x /\ x < g.table + TableBlocks(g.heapsize)
              \/ lo <= x /\ x < g.heaplimit
        <4> TAKE x \in Nat
        <4> HAVE x >= 1 /\ x < g.breakval
        <4>1. CASE x < lo
          BY <1>1, <2>9, <2>11, <2>12, <4>1
        <4>2. CASE ~(x < lo)
          BY <1>1, <2>1, <2>3, <2>12, <4>2
        <4> QED
          BY <4>1, <4>2
      <3>2. \A x \in Nat : g.table <= x /\ x < g.table + TableBlocks(g.heapsize)
                            => x \notin Covered(g.heapinfo)
        <4> TAKE x \in Nat
        <4> HAVE g.table <= x /\ x < g.table + TableBlocks(g.heapsize)
        <4>1. ~(x < lo)
          BY <1>1, <2>1, <2>12
        <4>2. new \in [Index -> Info]
          BY <2>11, HeapFields DEF new
        <4> QED
          BY <1>1, <2>11, <2>12, <4>1, <4>2, CoveredBelow
      <3>3. /\ lo <= g.heaplimit /\ g.heaplimit <= g.breakval /\ g.breakval <= Top + 1
            /\ g.heaplimit <= g.heapsize /\ g.table + TableBlocks(g.heapsize) <= g.breakval
            /\ g.heaplimit <= g.table
        BY <1>1, <1>5, <2>1, <2>2, <2>3, <2>12
      <3> QED
        BY <1>1, <2>11, <2>12, <3>1, <3>2, <3>3, HeapAtFrom
    <2>16. \A c \in Block : IF info[c].kind \in Busy THEN new[c] = info[c]
                           ELSE new[c].kind \notin Busy
      <3> TAKE c \in Block
      <3>1. CASE c = b
        BY <2>6, <2>11, <3>1 DEF Busy
      <3>2. CASE c # b
        <4>1. minfo[c] = info[c]
          BY <2>4, <3>2, Indices
        <4> QED
          BY <2>11, <3>2, <4>1
      <3> QED
        BY <3>1, <3>2
    <2>17. \A c \in FreeIn(info) : \E d \in FreeIn(new) : d <= c /\ End(info, c) <= End(new, d)
      <3> TAKE c \in FreeIn(info)
      <3>1. c \in FreeIn(minfo) /\ c \in Index \ {b}
        BY <2>6, <2>7, Indices DEF FreeIn, ListIn
      <3>2. End(minfo, c) = End(info, c)
        BY <2>4, <3>1 DEF End, Size
      <3> QED
        BY <2>11, <3>1, <3>2
    <2> QED
      BY <1>5, <2>1, <2>12, <2>14, <2>15, <2>16, <2>17
  <1>6. CASE blockno > Top + 1 \/ (~(blockno <= h.heapsize) /\ end > Top + 1)
    BY <1>2, <1>6
  <1>7. /\ blockno > Top + 1 \/ blockno <= Top + 1
        /\ ~(blockno <= Top + 1) \/ blockno <= h.heapsize \/ end > Top + 1 \/ end <= Top + 1
    <2>1. blockno \in Nat
      BY <1>1
    <2>2. ~(blockno <= h.heapsize) => end \in Nat
      <3>1. ASSUME ~(blockno <= h.heapsize) PROVE newsize \in Nat \ {0}
        <4>1. h.heapsize < blockno
          BY <1>1, <2>1, <3>1
        <4> HIDE DEF blockno
        <4>2. newsize \in Nat /\ newsize >= blockno
          BY <1>1, <2>1, <4>1, GrownIs
        <4> QED
          BY <1>1, <2>1, <4>1, <4>2
      <3> HIDE DEF newsize, blockno
      <3> QED
        BY <2>1, <3>1, TableBlocksIs
    <2> HIDE DEF end, blockno
    <2> QED
      BY <1>1, <2>1, <2>2
  <1> QED
    BY <1>4, <1>5, <1>6, <1>7

-----------------------------------------------------------------------------
(* Allocation of blocks.                                                   *)

(* But for b, the blocks in use are the same, with the same entries.       *)
Busier(info, new, b) ==
  \A c \in Block \ {b} : IF info[c].kind \in Busy THEN new[c] = info[c]
                         ELSE new[c].kind \notin Busy

(* The heap h becomes g when the cluster b of n blocks is allocated.       *)
Obtains(h, g, b, n) ==
  /\ b \in Block /\ h.heapinfo[b].kind \notin Busy
  /\ HeapAt(g, g.heaplimit) /\ g.fraghead = h.fraghead
  /\ g.heapinfo[b] = Large(n) /\ Busier(h.heapinfo, g.heapinfo, b)

(* Taking a free cluster allocates it, ...                                 *)
LEMMA TakeAllocates ==
  ASSUME NEW h, HeapAt(h, h.heaplimit), NEW b \in FreeIn(h.heapinfo),
         NEW n \in Nat, n >= 1, h.heapinfo[b].size >= n
  PROVE  Obtains(h, Take(h, b, n), b, n)
  <1> DEFINE g == Take(h, b, n)
  <1>1. /\ g \in Heap /\ g.heapsize = h.heapsize /\ g.table = h.table
        /\ g.fraghead = h.fraghead /\ g.heaplimit = h.heaplimit /\ g.breakval = h.breakval
        /\ LinksOK(g.heapinfo) /\ SpansOK(g.heapinfo, h.heaplimit)
        /\ Covered(g.heapinfo) = Covered(h.heapinfo)
        /\ g.heapindex \in ListIn(g.heapinfo) /\ g.heapinfo[b] = Large(n)
        /\ Busier(h.heapinfo, g.heapinfo, b)
    BY HeapAtHas, TakeHas DEF Busier
  <1>2. b \in Block /\ h.heapinfo[b].kind \notin Busy
    BY DEF FreeIn, Busy
  <1> HIDE DEF g
  <1>3. HeapAt(g, g.heaplimit)
    BY <1>1, HeapAtHas, HeapAtFrom
  <1> QED
    BY <1>1, <1>2, <1>3 DEF Obtains, g

(* n blocks at lo have just come from the system.                          *)
Core(h, g, lo, n) ==
  /\ HeapAt(g, lo) /\ lo \in Nat /\ lo >= 1 /\ g.heaplimit = lo + n
  /\ g.fraghead = h.fraghead
  /\ Busier(h.heapinfo, g.heapinfo, 0)

(* ... and so does making one of them; ...                                 *)
LEMMA CoreAllocates ==
  ASSUME NEW h, NEW g, NEW lo, NEW n \in Nat, n >= 1, Core(h, g, lo, n)
  PROVE  Obtains(h, [g EXCEPT !.heapinfo[lo] = Large(n)], lo, n)
  <1> DEFINE info == g.heapinfo
             new == [info EXCEPT ![lo] = Large(n)]
             e == [g EXCEPT !.heapinfo = new]
  <1>1. /\ g \in Heap /\ info \in [Index -> Info] /\ lo \in Nat /\ lo >= 1 /\ Top \in Nat
        /\ LinksOK(info) /\ SpansOK(info, lo) /\ g.heapindex \in ListIn(info)
        /\ g.heaplimit = lo + n /\ g.breakval \in Nat /\ lo + n <= g.breakval
        /\ g.breakval <= Top + 1 /\ g.heapsize \in Nat \ {0} /\ g.heaplimit <= g.heapsize
        /\ g.fraghead = h.fraghead /\ Busier(h.heapinfo, info, 0)
    BY HeapAtHas DEF Core
  <1>2. lo \in Block /\ lo \in Index /\ lo # 0
    BY <1>1, Indices DEF Block
  <1>3. /\ new \in [Index -> Info] /\ new[lo] = Large(n)
        /\ new[lo].kind = "large" /\ new[lo].size = n
        /\ \A c \in Index \ {lo} : new[c] = info[c]
    BY <1>1, <1>2, LargeIs
  <1>4. /\ e \in Heap /\ e.heapinfo = new /\ e.heapindex = g.heapindex /\ e.table = g.table
        /\ e.heapsize = g.heapsize /\ e.fraghead = g.fraghead
        /\ e.heaplimit = g.heaplimit /\ e.breakval = g.breakval
    BY <1>1, <1>3 DEF Heap
  <1>5. e = [g EXCEPT !.heapinfo[lo] = Large(n)]
    OBVIOUS
  <1>6. \A x \in Nat : lo <= x /\ x < lo + n => x \notin Covered(info)
    BY <1>1, CoveredBelow
  <1>7. lo \notin Starts(info)
    BY <1>1, <1>2, <1>6, CoveredIs, StartIs DEF SpansOK
  <1> HIDE DEF new, info, e
  <1>8. Starts(new) = Starts(info) \cup {lo}
    BY <1>2, <1>3, Indices DEF Starts
  <1>9. /\ SpansOK(new, lo + n)
        /\ \A x \in Nat : x \in Covered(new) <=> x \in Covered(info) \/ (lo <= x /\ x < lo + n)
    <2>1. Size(new, lo) = n
      BY <1>3 DEF Size
    <2>2. \A c \in Starts(info) : c # lo => Size(new, c) = Size(info, c)
      BY <1>3, Indices DEF Size, Starts
    <2> QED
      BY <1>1, <1>2, <1>3, <1>6, <1>8, <2>1, <2>2, SpansAdded
  <1>10. info[lo].kind = "none" /\ lo \notin ListIn(info)
    BY <1>2, <1>7 DEF Starts, ListIn, FreeIn
  <1>11. ListIn(new) = ListIn(info)
    BY <1>2, <1>3, <1>10, Indices DEF ListIn, FreeIn
  <1>12. LinksOK(new)
    <2>1. /\ 0 \in ListIn(info) /\ info[0].kind = "free" /\ info[0].size = 0
          /\ \A c \in ListIn(info) : c \in Index
      BY <1>1, ListIs DEF LinksOK
    <2>2. \A c \in ListIn(info) : new[c] = info[c]
      BY <1>3, <1>10, <2>1
    <2> QED
      BY <1>1, <1>3, <1>11, <2>1, <2>2, LinksSame
  <1>13. HeapAt(e, lo + n)
    <2> DEFINE T == g.table
               TB == TableBlocks(g.heapsize)
    <2>1. /\ T \in Nat /\ TB \in Nat /\ T + TB <= g.breakval
          /\ T + TB <= lo \/ lo + n <= T
          /\ \A x \in Nat : x >= 1 /\ x < g.breakval =>
               x \in Covered(info) \/ (T <= x /\ x < T + TB) \/ (lo <= x /\ x < lo + n)
          /\ \A x \in Nat : T <= x /\ x < T + TB => x \notin Covered(info)
      BY <1>1, HeapAtHas DEF Core, info
    <2>2. TableBlocks(e.heapsize) = TB /\ e.table = T
      BY <1>4
    <2> HIDE DEF T, TB
    <2>3. \A x \in Nat : x >= 1 /\ x < e.breakval =>
            \/ x \in Covered(e.heapinfo)
            \/ e.table <= x /\ x < e.table + TableBlocks(e.heapsize)
            \/ lo + n <= x /\ x < e.heaplimit
      BY <1>4, <1>9, <2>1, <2>2
    <2>4. \A x \in Nat : e.table <= x /\ x < e.table + TableBlocks(e.heapsize)
                           => x \notin Covered(e.heapinfo)
      BY <1>1, <1>4, <1>9, <2>1, <2>2
    <2>5. e.table + TableBlocks(e.heapsize) <= lo + n \/ e.heaplimit <= e.table
      BY <1>1, <1>4, <2>1, <2>2
    <2>6. /\ e.table + TableBlocks(e.heapsize) <= e.breakval /\ lo + n <= Top + 1
          /\ lo + n \in Nat /\ lo + n <= e.heaplimit /\ e.heaplimit <= e.breakval
          /\ e.breakval <= Top + 1 /\ e.heaplimit <= e.heapsize
      BY <1>1, <1>4, <2>1, <2>2
    <2>7. LinksOK(e.heapinfo) /\ SpansOK(e.heapinfo, lo + n) /\ e.heapindex \in ListIn(e.heapinfo)
      BY <1>1, <1>4, <1>9, <1>11, <1>12
    <2> QED
      BY <1>4, <2>3, <2>4, <2>5, <2>6, <2>7, HeapAtFrom
  <1>14. h.heapinfo[lo].kind \notin Busy
    BY <1>1, <1>2, <1>10 DEF Busier, Busy
  <1>15. Busier(h.heapinfo, new, lo)
    BY <1>1, <1>2, <1>3, Indices DEF Busier
  <1> QED
    BY <1>1, <1>2, <1>3, <1>4, <1>5, <1>13, <1>14, <1>15 DEF Obtains

(* ... and what has changed before does no harm, if it is only free        *)
(* clusters.                                                               *)
LEMMA AllocatesFrom ==
  ASSUME NEW h, NEW e, NEW g, NEW b, NEW n, Obtains(e, g, b, n),
         Busier(h.heapinfo, e.heapinfo, 0), e.fraghead = h.fraghead
  PROVE  Obtains(h, g, b, n)
  <1>1. \A c \in Block : IF h.heapinfo[c].kind \in Busy THEN e.heapinfo[c] = h.heapinfo[c]
                         ELSE e.heapinfo[c].kind \notin Busy
    BY Indices DEF Busier
  <1>2. b \in Block /\ e.heapinfo[b].kind \notin Busy
    BY DEF Obtains
  <1>3. h.heapinfo[b].kind \notin Busy
    BY <1>1, <1>2
  <1>4. Busier(h.heapinfo, g.heapinfo, b)
    BY <1>1 DEF Obtains, Busier
  <1> QED
    BY <1>3, <1>4 DEF Obtains

(* The last free cluster, which ends at lo, gets the m blocks at lo.       *)
LEMMA CoreJoined ==
  ASSUME NEW h, NEW g, NEW lo, NEW m \in Nat, m >= 1, Core(h, g, lo, m),
         NEW b \in FreeIn(g.heapinfo), End(g.heapinfo, b) = lo,
         NEW s \in Nat, s = g.heapinfo[b].size + m
  PROVE  LET e == [g EXCEPT !.heapinfo[b].size = s] IN
         /\ HeapAt(e, e.heaplimit) /\ e.fraghead = h.fraghead
         /\ b \in FreeIn(e.heapinfo) /\ e.heapinfo[b].size = s
         /\ Busier(h.heapinfo, e.heapinfo, 0)
  <1> DEFINE info == g.heapinfo
             new == [info EXCEPT ![b].size = s]
             e == [g EXCEPT !.heapinfo = new]
  <1>1. /\ g \in Heap /\ info \in [Index -> Info] /\ lo \in Nat /\ lo >= 1 /\ Top \in Nat
        /\ LinksOK(info) /\ SpansOK(info, lo) /\ g.heapindex \in ListIn(info)
        /\ g.heaplimit = lo + m /\ g.breakval \in Nat /\ lo + m <= g.breakval
        /\ g.breakval <= Top + 1 /\ g.heapsize \in Nat \ {0} /\ g.heaplimit <= g.heapsize
        /\ g.fraghead = h.fraghead /\ Busier(h.heapinfo, info, 0)
    BY HeapAtHas DEF Core
  <1>2. b \in Block /\ b \in Index /\ b # 0 /\ info[b].kind = "free" /\ b \in Nat
    BY Indices DEF FreeIn
  <1>a. info[b].size \in Nat /\ info[b].next \in Index /\ info[b].prev \in Index
    BY <1>1, <1>2, InfoKinds DEF FreeInfo
  <1>3. /\ new \in [Index -> Info] /\ new[b] = Free(s, info[b].next, info[b].prev)
        /\ \A c \in Index \ {b} : new[c] = info[c]
    BY <1>1, <1>2, SetSizeIs
  <1>b. /\ new[b].kind = "free" /\ new[b].size = s
        /\ new[b].next = info[b].next /\ new[b].prev = info[b].prev
    <2> HIDE DEF new
    <2> QED
      BY <1>3, FreeFields
  <1>4. /\ e \in Heap /\ e.heapinfo = new /\ e.heapindex = g.heapindex /\ e.table = g.table
        /\ e.heapsize = g.heapsize /\ e.fraghead = g.fraghead
        /\ e.heaplimit = g.heaplimit /\ e.breakval = g.breakval
    BY <1>1, <1>3 DEF Heap
  <1>5. e = [g EXCEPT !.heapinfo[b].size = s]
    OBVIOUS
  <1>6. End(info, b) = lo
    OBVIOUS
  <1>c. s = info[b].size + m
    OBVIOUS
  <1> HIDE DEF new, info, e
  <1>8. Starts(new) = Starts(info) /\ b \in Starts(info)
    BY <1>2, <1>3, <1>b, Indices DEF Starts
  <1>9. /\ SpansOK(new, lo + m)
        /\ \A x \in Nat : x \in Covered(new) <=> x \in Covered(info) \/ (lo <= x /\ x < lo + m)
    <2>1. Size(new, b) = Size(info, b) + m
      BY <1>2, <1>b, <1>c DEF Size
    <2>2. \A c \in Starts(info) : c # b => Size(new, c) = Size(info, c)
      BY <1>3, Indices DEF Size, Starts
    <2> QED
      BY <1>1, <1>2, <1>3, <1>6, <1>8, <2>1, <2>2, SpansExtended
  <1>11. ListIn(new) = ListIn(info)
    BY <1>2, <1>3, <1>b, Indices DEF ListIn, FreeIn
  <1>12. LinksOK(new)
    <2>1. /\ 0 \in ListIn(info) /\ info[0].kind = "free" /\ info[0].size = 0
          /\ \A c \in ListIn(info) : c \in Index
      BY <1>1, ListIs DEF LinksOK
    <2>2. \A c \in ListIn(info) : new[c].next = info[c].next /\ new[c].prev = info[c].prev
      BY <1>3, <1>b, <2>1
    <2>3. new[0] = info[0]
      BY <1>2, <1>3, <2>1
    <2> QED
      BY <1>1, <1>3, <1>11, <2>1, <2>2, <2>3, LinksSame
  <1>13. HeapAt(e, lo + m)
    <2> DEFINE T == g.table
               TB == TableBlocks(g.heapsize)
    <2>1. /\ T \in Nat /\ TB \in Nat /\ T + TB <= g.breakval
          /\ T + TB <= lo \/ lo + m <= T
          /\ \A x \in Nat : x >= 1 /\ x < g.breakval =>
               x \in Covered(info) \/ (T <= x /\ x < T + TB) \/ (lo <= x /\ x < lo + m)
          /\ \A x \in Nat : T <= x /\ x < T + TB => x \notin Covered(info)
      BY <1>1, HeapAtHas DEF Core, info
    <2>2. TableBlocks(e.heapsize) = TB /\ e.table = T
      BY <1>4
    <2> HIDE DEF T, TB
    <2>3. \A x \in Nat : x >= 1 /\ x < e.breakval =>
            \/ x \in Covered(e.heapinfo)
            \/ e.table <= x /\ x < e.table + TableBlocks(e.heapsize)
            \/ lo + m <= x /\ x < e.heaplimit
      BY <1>4, <1>9, <2>1, <2>2
    <2>4. \A x \in Nat : e.table <= x /\ x < e.table + TableBlocks(e.heapsize)
                           => x \notin Covered(e.heapinfo)
      BY <1>1, <1>4, <1>9, <2>1, <2>2
    <2>5. e.table + TableBlocks(e.heapsize) <= lo + m \/ e.heaplimit <= e.table
      BY <1>1, <1>4, <2>1, <2>2
    <2>6. /\ e.table + TableBlocks(e.heapsize) <= e.breakval /\ lo + m <= Top + 1
          /\ lo + m \in Nat /\ lo + m <= e.heaplimit /\ e.heaplimit <= e.breakval
          /\ e.breakval <= Top + 1 /\ e.heaplimit <= e.heapsize
      BY <1>1, <1>4, <2>1, <2>2
    <2>7. LinksOK(e.heapinfo) /\ SpansOK(e.heapinfo, lo + m) /\ e.heapindex \in ListIn(e.heapinfo)
      BY <1>1, <1>4, <1>9, <1>11, <1>12
    <2> QED
      BY <1>4, <2>3, <2>4, <2>5, <2>6, <2>7, HeapAtFrom
  <1>15. Busier(h.heapinfo, new, 0)
    <2> SUFFICES ASSUME NEW c \in Block
                 PROVE  IF h.heapinfo[c].kind \in Busy THEN new[c] = h.heapinfo[c]
                        ELSE new[c].kind \notin Busy
      BY DEF Busier
    <2>1. IF h.heapinfo[c].kind \in Busy THEN info[c] = h.heapinfo[c]
          ELSE info[c].kind \notin Busy
      BY <1>1, Indices DEF Busier
    <2>2. CASE c = b
      BY <1>2, <1>b, <2>1, <2>2 DEF Busy
    <2>3. CASE c # b
      BY <1>3, <2>1, <2>3, Indices
    <2> QED
      BY <2>2, <2>3
  <1>16. b \in FreeIn(new)
    BY <1>2, <1>b DEF FreeIn
  <1>17. e.heaplimit = lo + m /\ e.fraghead = h.fraghead
    BY <1>1, <1>4
  <1> QED
    BY <1>b, <1>4, <1>5, <1>13, <1>15, <1>16, <1>17

(* What morecore does, in these words.                                     *)
LEMMA CoreIs ==
  ASSUME NEW h, HeapAt(h, h.heaplimit), NEW n \in Nat, n >= 1
  PROVE  LET r == morecore(h, n) IN
         IF r.block = 0 THEN r = NoCore(h)
         ELSE /\ r.block = h.breakval /\ Core(h, r.heap, h.breakval, n)
              /\ \A c \in FreeIn(h.heapinfo) :
                   \E d \in FreeIn(r.heap.heapinfo) :
                     d <= c /\ End(h.heapinfo, c) <= End(r.heap.heapinfo, d)
  <1> DEFINE r == morecore(h, n)
  <1>1. h.breakval \in Nat /\ h.breakval >= 1
    BY HeapAtHas
  <1>2. NoCore(h).block = 0
    BY DEF NoCore
  <1>3. \/ r = NoCore(h)
        \/ /\ r.block = h.breakval /\ HeapAt(r.heap, h.breakval)
           /\ r.heap.heaplimit = h.breakval + n
           /\ r.heap.fraghead = h.fraghead
           /\ Busier(h.heapinfo, r.heap.heapinfo, 0)
           /\ \A c \in FreeIn(h.heapinfo) :
                \E d \in FreeIn(r.heap.heapinfo) :
                  d <= c /\ End(h.heapinfo, c) <= End(r.heap.heapinfo, d)
    BY MoreCoreIs DEF Busier
  <1> HIDE DEF r
  <1>4. CASE r = NoCore(h)
    BY <1>2, <1>4 DEF r
  <1>5. CASE r # NoCore(h)
    BY <1>1, <1>3, <1>5 DEF r, Core
  <1> QED
    BY <1>4, <1>5

(* The head's prev is the last free cluster.                               *)
LEMMA LastIs ==
  ASSUME NEW info \in [Index -> Info], LinksOK(info)
  PROVE  /\ info[0].prev \in ListIn(info)
         /\ \A c \in ListIn(info) : c <= info[0].prev
  <1> DEFINE last == info[0].prev
  <1>1. /\ last \in ListIn(info) /\ info[last].next = 0 /\ \A c \in ListIn(info) : c \in Nat
    BY ListIs
  <1>2. \A c \in ListIn(info) : ~(c > last)
    BY <1>1, ListIs
  <1> QED
    BY <1>1, <1>2

(* An allocation of n blocks, from the list or from the system.            *)
LEMMA AllocBlocksIs ==
  ASSUME NEW h, HeapAt(h, h.heaplimit), NEW n \in Nat, n >= 1
  PROVE  LET r == AllocBlocks(h, n) IN
         IF r.block = 0 THEN r = NoCore(h) ELSE Obtains(h, r.heap, r.block, n)
  <1> DEFINE info == h.heapinfo
             b == Fit(h, n)
             last == info[0].prev
             size == info[last].size
             more == morecore(h, n - size)
             r == AllocBlocks(h, n)
             lo == h.breakval
  <1>1. /\ h \in Heap /\ info \in [Index -> Info] /\ LinksOK(info) /\ SpansOK(info, h.heaplimit)
        /\ h.heapindex \in ListIn(info) /\ lo \in Nat /\ lo >= 2 /\ h.heaplimit \in Nat
    BY HeapAtHas
  <1>2. \/ b \in FreeIn(info) /\ info[b].size >= n
        \/ b = 0 /\ \A c \in FreeIn(info) : info[c].size < n
    BY <1>1, FitIs
  <1>3. CASE b # 0
    <2>1. b \in FreeIn(info) /\ info[b].size >= n
      BY <1>2, <1>3
    <2>2. r = [heap |-> Take(h, b, n), block |-> b]
      BY <1>3 DEF AllocBlocks
    <2>3. r.heap = Take(h, b, n) /\ r.block = b
      BY <2>2
    <2>4. Obtains(h, Take(h, b, n), b, n)
      BY <2>1, TakeAllocates
    <2> HIDE DEF r, b
    <2> QED
      BY <1>3, <2>3, <2>4 DEF r
  <1>4. CASE b = 0 /\ IsLast(h, last) /\ more.block # 0
    <2> DEFINE m == n - size
               g == more.heap
               final == g.heapinfo[0].prev
               e == [g EXCEPT !.heapinfo[final].size = @ + n - size]
    <2>1. last \in FreeIn(info) /\ last \in Nat /\ size \in Nat /\ last + size = lo
      <3>1. last + size = lo
        BY <1>4 DEF IsLast
      <3>2. last \in ListIn(info) /\ last \in Nat /\ size \in Nat
        BY <1>1, ListIs
      <3>3. last # 0
        <4>1. info[0].size = 0
          BY <1>1 DEF LinksOK
        <4> SUFFICES ASSUME last = 0 PROVE FALSE
          OBVIOUS
        <4>2. size = 0
          BY <4>1
        <4> QED
          BY <1>1, <3>1, <4>2
      <3> QED
        BY <3>1, <3>2, <3>3 DEF ListIn
    <2>2. size < n /\ m \in Nat /\ m >= 1
      BY <1>2, <1>4, <2>1 DEF FreeIn, Block
    <2>3. r = [heap |-> Take(e, final, n), block |-> final]
      BY <1>4 DEF AllocBlocks, Extend, Extended
    <2> HIDE DEF m, size
    <2>4. /\ Core(h, g, lo, m)
          /\ \E d \in FreeIn(g.heapinfo) : d <= last /\ End(info, last) <= End(g.heapinfo, d)
      <3>1. more = morecore(h, m)
        BY DEF m
      <3> HIDE DEF more
      <3> QED
        BY <1>4, <2>1, <2>2, <3>1, CoreIs
    <2> HIDE DEF more
    <2>5. PICK d \in FreeIn(g.heapinfo) : d <= last /\ End(info, last) <= End(g.heapinfo, d)
      BY <2>4
    <2>6. /\ g.heapinfo \in [Index -> Info] /\ LinksOK(g.heapinfo) /\ SpansOK(g.heapinfo, lo)
      BY <2>4, HeapAtHas DEF Core
    <2>7. End(info, last) = lo
      BY <2>1 DEF End, Size, FreeIn, size
    <2>8. final = d /\ final \in FreeIn(g.heapinfo) /\ End(g.heapinfo, final) = lo /\ d \in Nat
      <3>1. final \in ListIn(g.heapinfo) /\ d <= final /\ final \in Nat /\ d \in Nat /\ d >= 1
        BY <2>6, LastIs, ListIs DEF ListIn, FreeIn, Block
      <3>2. final \in FreeIn(g.heapinfo)
        BY <3>1 DEF ListIn
      <3>3. final \in Starts(g.heapinfo) /\ d \in Starts(g.heapinfo)
        BY <2>5, <3>2 DEF FreeIn, Starts
      <3> HIDE DEF final, g
      <3>4. /\ End(g.heapinfo, d) \in Nat /\ End(g.heapinfo, final) \in Nat
            /\ End(g.heapinfo, final) = final + Size(g.heapinfo, final)
            /\ Size(g.heapinfo, final) \in Nat
        BY <2>6, <3>3, StartIs
      <3>5. /\ End(g.heapinfo, d) <= lo /\ End(g.heapinfo, final) <= lo
            /\ Size(g.heapinfo, final) >= 1
            /\ d < final => End(g.heapinfo, d) <= final
        BY <2>6, <3>3 DEF SpansOK
      <3>6. End(g.heapinfo, d) = lo
        BY <1>1, <2>5, <2>7, <3>4, <3>5
      <3>7. ~(d < final)
        BY <1>1, <3>1, <3>4, <3>5, <3>6
      <3>8. final = d
        BY <3>1, <3>7
      <3> QED
        BY <3>1, <3>2, <3>6, <3>8
    <2>9. g.heapinfo[final].size \in Nat /\ final + g.heapinfo[final].size = lo
      <3>1. g.heapinfo[final].kind = "free" /\ final \in ListIn(g.heapinfo)
        BY <2>8 DEF FreeIn, ListIn
      <3> HIDE DEF final, g
      <3> QED
        BY <2>6, <2>8, <3>1, ListIs DEF End, Size
    <2>10. g.heapinfo[final].size >= size
      BY <1>1, <2>1, <2>5, <2>8, <2>9
    <2> DEFINE s == g.heapinfo[final].size + n - size
    <2>11. s \in Nat /\ s = g.heapinfo[final].size + m /\ s >= n
      BY <2>1, <2>2, <2>9, <2>10 DEF m
    <2>12. e = [g EXCEPT !.heapinfo[final].size = s]
      OBVIOUS
    <2> HIDE DEF e, s
    <2>13. /\ HeapAt(e, e.heaplimit) /\ e.fraghead = h.fraghead
           /\ final \in FreeIn(e.heapinfo) /\ e.heapinfo[final].size = s
           /\ Busier(h.heapinfo, e.heapinfo, 0)
      <3> HIDE DEF final, g
      <3> DEFINE j == [g EXCEPT !.heapinfo[final].size = s]
      <3>1. /\ HeapAt(j, j.heaplimit) /\ j.fraghead = h.fraghead
            /\ final \in FreeIn(j.heapinfo) /\ j.heapinfo[final].size = s
            /\ Busier(h.heapinfo, j.heapinfo, 0)
        BY ONLY <2>2, <2>4, <2>8, <2>11, CoreJoined
      <3>2. e = j
        BY <2>12
      <3> HIDE DEF j
      <3> QED
        BY <3>1, <3>2
    <2>14. Obtains(e, Take(e, final, n), final, n)
      BY <2>11, <2>13, TakeAllocates
    <2>15. Obtains(h, Take(e, final, n), final, n)
      BY <2>13, <2>14, AllocatesFrom
    <2>16. r.heap = Take(e, final, n) /\ r.block = final /\ final # 0
      BY <2>3, <2>8, Indices DEF FreeIn
    <2> HIDE DEF r, final
    <2> QED
      BY <2>15, <2>16 DEF r
  <1>5. CASE b = 0 /\ ~(IsLast(h, last) /\ more.block # 0)
    <2> DEFINE core == morecore(h, n)
    <2>1. r = FromSystem(core, n)
      BY <1>5 DEF AllocBlocks, Extend
    <2>2. IF core.block = 0 THEN core = NoCore(h)
          ELSE core.block = lo /\ Core(h, core.heap, lo, n)
      BY CoreIs
    <2>3. CASE core.block = 0
      <3>1. r = NoCore(h) /\ r.block = 0
        BY <2>1, <2>2, <2>3 DEF FromSystem, NoCore
      <3> HIDE DEF r
      <3> QED
        BY <3>1 DEF r
    <2>4. CASE core.block # 0
      <3>1. r = [core EXCEPT !.heap.heapinfo[core.block] = Large(n)]
        BY <2>1, <2>4 DEF FromSystem
      <3>2. core = [heap |-> core.heap, block |-> core.block]
        BY <2>4 DEF morecore, NoCore
      <3> HIDE DEF core
      <3>3. r = [heap |-> [core.heap EXCEPT !.heapinfo[core.block] = Large(n)],
                 block |-> core.block]
        BY <3>1, <3>2
      <3>4. r.block = lo /\ r.heap = [core.heap EXCEPT !.heapinfo[lo] = Large(n)]
        BY <2>2, <2>4, <3>3
      <3>5. Obtains(h, [core.heap EXCEPT !.heapinfo[lo] = Large(n)], lo, n)
        BY <2>2, <2>4, CoreAllocates
      <3> HIDE DEF r
      <3> QED
        BY <2>2, <2>4, <3>4, <3>5 DEF r
    <2> QED
      BY <2>3, <2>4
  <1> QED
    BY <1>3, <1>4, <1>5

-----------------------------------------------------------------------------
(* Holds of fragments.                                                     *)
Holds(list, p) == \E k \in 1 .. Len(list) : list[k] = p
Distinct(list) == \A j, k \in 1 .. Len(list) : list[j] = list[k] => j = k

(* new is list without m fragments from the k-th on.                       *)
Cut(list, new, k, m) ==
  /\ list \in Seq(Addr) /\ new \in Seq(Addr) /\ Len(new) = Len(list) - m
  /\ \A j \in 1 .. Len(new) : new[j] = IF j < k THEN list[j] ELSE list[j + m]

(* new is list with p behind the k-th fragment.                            *)
Put(list, new, k, p) ==
  /\ list \in Seq(Addr) /\ new \in Seq(Addr) /\ Len(new) = Len(list) + 1
  /\ \A j \in 1 .. Len(new) : new[j] = IF j <= k THEN list[j]
                                       ELSE IF j = k + 1 THEN p ELSE list[j - 1]

(* What new says of the fragments of other blocks than b is what list says. *)
Kept(list, new, b) ==
  /\ Distinct(new)
  /\ \A p \in Addr : p[1] # b => (Holds(new, p) <=> Holds(list, p))
  /\ \A c \in Block \ {b}, n \in Nat, f \in Nat : RunOK(list, c, n, f) => RunOK(new, c, n, f)

(* Lists of fragments hold addresses.                                      *)
LEMMA SeqIs ==
  ASSUME NEW list \in Seq(Addr)
  PROVE  /\ Len(list) \in Nat
         /\ \A k \in 1 .. Len(list) : /\ list[k] \in Addr /\ list[k][1] \in Block
                                      /\ list[k][2] \in Nat
                                      /\ list[k] = <<list[k][1], list[k][2]>>
  BY DEF Addr

(* A list that stays keeps what it says, ...                               *)
LEMMA KeptSame ==
  ASSUME NEW list, Distinct(list), NEW b
  PROVE  Kept(list, list, b)
  BY DEF Kept

(* ... so does one that loses fragments of b that stand together, ...      *)
LEMMA KeptCut ==
  ASSUME NEW list, NEW new, NEW b, NEW k \in Nat, NEW m \in Nat, k >= 1, m >= 1,
         k + m - 1 <= Len(list),
         Cut(list, new, k, m), Distinct(list),
         \A j \in Nat : k <= j /\ j < k + m => list[j][1] = b
  PROVE  Kept(list, new, b)
  <1>1. /\ Len(list) \in Nat /\ Len(new) \in Nat /\ Len(new) = Len(list) - m
        /\ \A j \in Nat : 1 <= j /\ j <= Len(new) =>
             new[j] = IF j < k THEN list[j] ELSE list[j + m]
    BY SeqIs DEF Cut
  <1>b. \A j \in Nat : 1 <= j /\ j <= Len(new) =>
          IF j < k THEN new[j] = list[j] /\ j <= Len(list)
          ELSE \E i \in Nat : i >= k + m /\ i <= Len(list) /\ i = j + m /\ new[j] = list[i]
    <2> TAKE j \in Nat
    <2> HAVE 1 <= j /\ j <= Len(new)
    <2>1. CASE j < k
      BY SMTT(20), <1>1, <2>1
    <2>2. CASE ~(j < k)
      <3>1. j + m \in Nat /\ j + m >= k + m /\ j + m <= Len(list) /\ new[j] = list[j + m]
        BY <1>1, <2>2
      <3> QED
        BY <2>2, <3>1
    <2> QED
      BY <2>1, <2>2
  <1>a. \A e \in Nat : e >= k /\ e + m <= Len(list) => e \in 1 .. Len(new) /\ new[e] = list[e + m]
    BY <1>1
  <1>2. Distinct(new)
    <2>2. \A i, j \in Nat : 1 <= i /\ i <= Len(list) /\ 1 <= j /\ j <= Len(list) /\ list[i] = list[j] => i = j
      BY <1>1 DEF Distinct
    <2> SUFFICES ASSUME NEW i \in Nat, NEW j \in Nat, 1 <= i, i <= Len(new), 1 <= j, j <= Len(new),
                        new[i] = new[j]
                 PROVE  i = j
      BY <1>1 DEF Distinct
    <2>3. IF i < k THEN new[i] = list[i] /\ i <= Len(list)
          ELSE \E x \in Nat : x >= k + m /\ x <= Len(list) /\ x = i + m /\ new[i] = list[x]
      BY <1>b
    <2>4. IF j < k THEN new[j] = list[j] /\ j <= Len(list)
          ELSE \E x \in Nat : x >= k + m /\ x <= Len(list) /\ x = j + m /\ new[j] = list[x]
      BY <1>b
    <2>5. CASE i < k /\ j < k
      BY <2>2, <2>3, <2>4, <2>5
    <2>6. CASE i < k /\ ~(j < k)
      BY <2>2, <2>3, <2>4, <2>6
    <2>7. CASE ~(i < k) /\ j < k
      BY <2>2, <2>3, <2>4, <2>7
    <2>8. CASE ~(i < k) /\ ~(j < k)
      BY <2>2, <2>3, <2>4, <2>8
    <2> QED
      BY <2>5, <2>6, <2>7, <2>8
  <1>3. ASSUME NEW p \in Addr, p[1] # b PROVE Holds(new, p) <=> Holds(list, p)
    <2>1. ASSUME NEW j \in 1 .. Len(new), new[j] = p PROVE Holds(list, p)
      <3>1. j \in Nat /\ 1 <= j /\ j <= Len(new)
        BY <1>1
      <3>2. \E x \in Nat : 1 <= x /\ x <= Len(list) /\ list[x] = p
        <4>1. CASE j < k
          BY <1>b, <2>1, <3>1, <4>1
        <4>2. CASE ~(j < k)
          <5>1. PICK x \in Nat : x >= k + m /\ x <= Len(list) /\ new[j] = list[x]
            BY <1>b, <3>1, <4>2
          <5> QED
            BY <2>1, <5>1
        <4> QED
          BY <4>1, <4>2
      <3> QED
        BY <1>1, <3>2 DEF Holds
    <2>2. ASSUME NEW j \in 1 .. Len(list), list[j] = p PROVE Holds(new, p)
      <3>1. CASE j < k
        BY <1>1, <2>2, <3>1 DEF Holds
      <3>2. CASE ~(j < k)
        <4>1. j >= k + m
          BY <1>1, <1>3, <2>2, <3>2
        <4>2. j - m \in 1 .. Len(new) /\ new[j - m] = list[j]
          <5>1. j - m \in Nat /\ j - m >= k /\ j - m <= Len(new) /\ (j - m) + m = j
            BY <1>1, <4>1
          <5> QED
            BY <1>1, <5>1
        <4> QED
          BY <2>2, <4>2 DEF Holds
      <3> QED
        BY <3>1, <3>2
    <2> QED
      BY <2>1, <2>2 DEF Holds
  <1>4. ASSUME NEW c \in Block \ {b}, NEW n \in Nat, NEW f \in Nat, RunOK(list, c, n, f)
        PROVE  RunOK(new, c, n, f)
    <2>1. CASE n = 0
      <3>1. \A j \in 1 .. Len(list) : list[j][1] # c
        BY <1>4, <2>1 DEF RunOK
      <3>2. \A j \in 1 .. Len(new) : new[j][1] # c
        <4> TAKE j \in 1 .. Len(new)
        <4>1. CASE j < k
          BY SMTT(20), <1>1, <3>1, <4>1
        <4>2. CASE ~(j < k)
          <5>1. j + m \in 1 .. Len(list) /\ new[j] = list[j + m]
            BY <1>1, <4>2
          <5> QED
            BY <3>1, <5>1
        <4> QED
          BY <4>1, <4>2
      <3> QED
        BY <2>1, <3>2 DEF RunOK
    <2>2. CASE n > 0
      <3>1. PICK i \in 1 .. Len(list) :
              /\ i + n - 1 <= Len(list) /\ list[i] = <<c, f>>
              /\ \A j \in 1 .. Len(list) : list[j][1] = c <=> i <= j /\ j <= i + n - 1
        <4>1. n # 0
          BY ONLY <2>2
        <4> QED
          BY ONLY <1>4, <4>1 DEF RunOK
      <3>2. \A j \in Nat : k <= j /\ j < k + m => ~(i <= j /\ j <= i + n - 1)
        <4> TAKE j \in Nat
        <4> HAVE k <= j /\ j < k + m
        <4>1. j \in 1 .. Len(list) /\ list[j][1] = b
          BY <1>1
        <4> QED
          BY <3>1, <4>1
      <3>3. i + n - 1 < k \/ i >= k + m
        <4>1. ~(k <= i /\ i < k + m)
          BY SMTT(20), <2>2, <3>2
        <4>2. ~(i <= k /\ k <= i + n - 1)
          BY <2>2, <3>2
        <4> QED
          BY <2>2, <4>1, <4>2
      <3>4. CASE i + n - 1 < k
        <4>1. i \in 1 .. Len(new) /\ i + n - 1 <= Len(new) /\ new[i] = <<c, f>>
          BY <1>1, <2>2, <3>1, <3>4
        <4>2. \A j \in 1 .. Len(new) : new[j][1] = c <=> i <= j /\ j <= i + n - 1
          <5> TAKE j \in 1 .. Len(new)
          <5>1. CASE j < k
            BY <1>1, <3>1, <5>1
          <5>2. CASE ~(j < k)
            <6>1. PICK x \in Nat : x >= k + m /\ x <= Len(list) /\ x = j + m /\ new[j] = list[x]
              BY <1>1, <1>b, <5>2
            <6>2. ~(x <= i + n - 1) /\ ~(j <= i + n - 1) /\ x \in 1 .. Len(list)
              BY <1>1, <2>2, <3>4, <5>2, <6>1
            <6> QED
              BY <3>1, <6>1, <6>2
          <5> QED
            BY <5>1, <5>2
        <4> QED
          BY <2>2, <4>1, <4>2 DEF RunOK
      <3>5. CASE i >= k + m
        <4> DEFINE e == i - m
        <4>1. e \in Nat /\ e >= k /\ e + m = i
          BY <1>1, <3>5
        <4> HIDE DEF e
        <4>2. e \in 1 .. Len(new) /\ e + n - 1 <= Len(new) /\ new[e] = <<c, f>>
          <5>1. e + n - 1 \in Nat /\ (e + n - 1) + m = i + n - 1
            BY <2>2, <4>1
          <5>2. (e + n - 1) + m <= Len(list) /\ e + m <= Len(list)
            BY <2>2, <3>1, <4>1, <5>1
          <5>3. e + n - 1 <= Len(new)
            BY <1>1, <5>1, <5>2
          <5> QED
            BY <1>a, <3>1, <4>1, <5>2, <5>3
        <4>3. \A j \in 1 .. Len(new) : new[j][1] = c <=> e <= j /\ j <= e + n - 1
          <5> TAKE j \in 1 .. Len(new)
          <5>1. CASE j < k
            BY <1>1, <3>1, <3>5, <4>1, <5>1
          <5>2. CASE ~(j < k)
            <6>1. j + m \in 1 .. Len(list) /\ new[j] = list[j + m]
              BY <1>1, <5>2
            <6>2. (i <= j + m /\ j + m <= i + n - 1) <=> (e <= j /\ j <= e + n - 1)
              BY <2>2, <4>1
            <6> QED
              BY <3>1, <6>1, <6>2
          <5> QED
            BY <5>1, <5>2
        <4> QED
          BY <2>2, <4>2, <4>3 DEF RunOK
      <3> QED
        BY <3>3, <3>4, <3>5
    <2> QED
      BY <2>1, <2>2
  <1> QED
    BY <1>2, <1>3, <1>4 DEF Kept

(* ... and one that gets a fragment of b at its start or behind another.   *)
LEMMA KeptPut ==
  ASSUME NEW list, NEW new, NEW b, NEW k \in Nat, k <= Len(list), NEW p \in Addr, p[1] = b,
         Put(list, new, k, p), Distinct(list), ~Holds(list, p),
         k = 0 \/ list[k][1] = b
  PROVE  Kept(list, new, b)
  <1>1. /\ Len(list) \in Nat /\ Len(new) \in Nat /\ Len(new) = Len(list) + 1
        /\ \A j \in Nat : 1 <= j /\ j <= Len(new) =>
             new[j] = IF j <= k THEN list[j] ELSE IF j = k + 1 THEN p ELSE list[j - 1]
    BY SeqIs DEF Put
  <1>a. \A j \in Nat : j > k /\ j <= Len(list) => new[j + 1] = list[j]
    BY <1>1
  <1>b. \A j \in Nat : 1 <= j /\ j <= Len(new) =>
          \/ j <= k /\ new[j] = list[j]
          \/ j = k + 1 /\ new[j] = p
          \/ \E i \in Nat : i > k /\ i <= Len(list) /\ j = i + 1 /\ new[j] = list[i]
    <2> TAKE j \in Nat
    <2> HAVE 1 <= j /\ j <= Len(new)
    <2>1. CASE j <= k + 1
      BY <1>1, <2>1
    <2>2. CASE j > k + 1
      <3>1. j - 1 \in Nat /\ j - 1 > k /\ j - 1 <= Len(list) /\ j = (j - 1) + 1
        BY <1>1, <2>2
      <3>2. new[j] = list[j - 1]
        BY <1>1, <2>2
      <3> QED
        BY <3>1, <3>2
    <2> QED
      BY <2>1, <2>2
  <1>2. Distinct(new)
    <2>1. \A j \in Nat : 1 <= j /\ j <= Len(list) => list[j] # p
      BY <1>1 DEF Holds
    <2>2. \A i, j \in Nat : 1 <= i /\ i <= Len(list) /\ 1 <= j /\ j <= Len(list) /\ list[i] = list[j] => i = j
      BY <1>1 DEF Distinct
    <2> SUFFICES ASSUME NEW i \in Nat, NEW j \in Nat, 1 <= i, i <= Len(new), 1 <= j, j <= Len(new),
                        new[i] = new[j]
                 PROVE  i = j
      BY <1>1 DEF Distinct
    <2>3. \/ i <= k /\ new[i] = list[i]
          \/ i = k + 1 /\ new[i] = p
          \/ \E x \in Nat : x > k /\ x <= Len(list) /\ i = x + 1 /\ new[i] = list[x]
      BY <1>b
    <2>4. \/ j <= k /\ new[j] = list[j]
          \/ j = k + 1 /\ new[j] = p
          \/ \E x \in Nat : x > k /\ x <= Len(list) /\ j = x + 1 /\ new[j] = list[x]
      BY <1>b
    <2>5. CASE i <= k
      <3>1. new[i] = list[i]
        BY <2>3, <2>5
      <3> QED
        BY <1>1, <2>1, <2>2, <2>4, <2>5, <3>1
    <2>6. CASE i = k + 1
      <3>1. new[i] = p
        BY <2>3, <2>6
      <3> QED
        BY <1>1, <2>1, <2>4, <2>6, <3>1
    <2>7. CASE i > k + 1
      <3>1. PICK x \in Nat : x > k /\ x <= Len(list) /\ i = x + 1 /\ new[i] = list[x]
        BY <2>3, <2>7
      <3>2. CASE j <= k
        BY <1>1, <2>2, <2>4, <3>1, <3>2
      <3>3. CASE j = k + 1
        BY <1>1, <2>1, <2>4, <3>1, <3>3
      <3>4. CASE j > k + 1
        BY <1>1, <2>2, <2>4, <3>1, <3>4
      <3> QED
        BY <3>2, <3>3, <3>4
    <2> QED
      BY <2>5, <2>6, <2>7
  <1>3. ASSUME NEW q \in Addr, q[1] # b PROVE Holds(new, q) <=> Holds(list, q)
    <2>1. ASSUME NEW j \in 1 .. Len(new), new[j] = q PROVE Holds(list, q)
      BY <1>1, <1>3, <1>b, <2>1 DEF Holds
    <2>2. ASSUME NEW j \in 1 .. Len(list), list[j] = q PROVE Holds(new, q)
      <3>1. CASE j <= k
        BY <1>1, <2>2, <3>1 DEF Holds
      <3>2. CASE j > k
        <4>1. j + 1 \in 1 .. Len(new) /\ new[j + 1] = q
          BY <1>1, <1>a, <2>2, <3>2
        <4> QED
          BY <4>1 DEF Holds
      <3> QED
        BY <3>1, <3>2
    <2> QED
      BY <2>1, <2>2 DEF Holds
  <1>4. ASSUME NEW c \in Block \ {b}, NEW n \in Nat, NEW f \in Nat, RunOK(list, c, n, f)
        PROVE  RunOK(new, c, n, f)
    <2>1. CASE n = 0
      <3>1. \A j \in Nat : 1 <= j /\ j <= Len(list) => list[j][1] # c
        BY <1>1, <1>4, <2>1 DEF RunOK
      <3>2. \A j \in 1 .. Len(new) : new[j][1] # c
        BY <1>1, <1>b, <3>1
      <3> QED
        BY <2>1, <3>2 DEF RunOK
    <2>2. CASE n > 0
      <3>1. PICK i \in 1 .. Len(list) :
              /\ i + n - 1 <= Len(list) /\ list[i] = <<c, f>>
              /\ \A j \in 1 .. Len(list) : list[j][1] = c <=> i <= j /\ j <= i + n - 1
        <4>1. n # 0
          BY ONLY <2>2
        <4> QED
          BY ONLY <1>4, <4>1 DEF RunOK
      <3>2. ~(i <= k /\ k <= i + n - 1)
        <4>1. CASE k = 0
          BY <1>1, <4>1
        <4>2. CASE k # 0
          <5>1. k \in 1 .. Len(list) /\ list[k][1] # c
            BY <1>1, <4>2
          <5> QED
            BY <3>1, <5>1
        <4> QED
          BY <4>1, <4>2
      <3>3. CASE i <= k
        <4>0. i + n - 1 < k
          BY <2>2, <3>2, <3>3
        <4>1. i \in 1 .. Len(new) /\ i + n - 1 <= Len(new) /\ new[i] = <<c, f>>
          BY <1>1, <2>2, <3>1, <3>3
        <4>2. \A j \in 1 .. Len(new) : new[j][1] = c <=> i <= j /\ j <= i + n - 1
          <5> TAKE j \in 1 .. Len(new)
          <5>1. CASE j <= k
            BY <1>1, <3>1, <5>1
          <5>2. CASE j = k + 1
            BY <1>1, <2>2, <4>0, <5>2
          <5>3. CASE j > k + 1
            <6>1. j - 1 \in 1 .. Len(list) /\ new[j] = list[j - 1] /\ j - 1 > i + n - 1
              BY <1>1, <2>2, <4>0, <5>3
            <6> QED
              BY <3>1, <6>1
          <5> QED
            BY <5>1, <5>2, <5>3
        <4> QED
          BY <2>2, <4>1, <4>2 DEF RunOK
      <3>4. CASE i > k
        <4> DEFINE e == i + 1
        <4>1. e \in Nat /\ e > k + 1 /\ e = i + 1
          BY <1>1, <3>4
        <4> HIDE DEF e
        <4>2. e \in 1 .. Len(new) /\ e + n - 1 <= Len(new) /\ new[e] = <<c, f>>
          BY <1>1, <1>a, <2>2, <3>1, <3>4, <4>1
        <4>3. \A j \in 1 .. Len(new) : new[j][1] = c <=> e <= j /\ j <= e + n - 1
          <5> TAKE j \in 1 .. Len(new)
          <5>1. CASE j <= k
            BY <1>1, <3>1, <3>4, <4>1, <5>1
          <5>2. CASE j = k + 1
            BY <1>1, <2>2, <4>1, <5>2
          <5>3. CASE j > k + 1
            <6>1. j - 1 \in 1 .. Len(list) /\ new[j] = list[j - 1]
              BY <1>1, <5>3
            <6>2. (i <= j - 1 /\ j - 1 <= i + n - 1) <=> (e <= j /\ j <= e + n - 1)
              BY <2>2, <4>1
            <6> QED
              BY <3>1, <6>1, <6>2
          <5> QED
            BY <5>1, <5>2, <5>3
        <4> QED
          BY <2>2, <4>2, <4>3 DEF RunOK
      <3> QED
        BY <3>3, <3>4
    <2> QED
      BY <2>1, <2>2
  <1> QED
    BY <1>2, <1>3, <1>4 DEF Kept

(* A block has two fragments or more.                                      *)
LEMMA LogIs ==
  \A l \in Log : l \in Nat \ {0} /\ PerBlock[l] \in Nat /\ PerBlock[l] >= 2
  <1> TAKE l \in Log
  <1>1. l \in Nat \ {0} /\ PerBlock[l] \in Nat \ {0, 1}
    BY UmallocAssumption
  <1> DEFINE n == PerBlock[l]
  <1>2. n \in Nat \ {0, 1}
    BY <1>1
  <1> HIDE DEF n
  <1>3. n \in Nat /\ n >= 2
    BY ONLY <1>2
  <1> QED
    BY <1>1, <1>3 DEF n

(* Tail cuts out the first.                                                *)
LEMMA TailCut ==
  ASSUME NEW list \in Seq(Addr), list # <<>>
  PROVE  Cut(list, Tail(list), 1, 1) /\ Len(list) >= 1 /\ Len(list) \in Nat
  <1>1. Len(list) \in Nat /\ Len(list) # 0
    BY EmptySeq, LenProperties
  <1>2. /\ Tail(list) \in Seq(Addr) /\ Len(Tail(list)) = Len(list) - 1
        /\ \A i \in 1 .. Len(Tail(list)) : Tail(list)[i] = list[i + 1]
    BY HeadTailProperties
  <1> QED
    BY <1>1, <1>2 DEF Cut

(* SubSeq, and concatenation, element by element.                          *)
LEMMA PieceIs ==
  ASSUME NEW list \in Seq(Addr), NEW m \in Nat, NEW n \in Nat, m >= 1, n <= Len(list), m <= n + 1
  PROVE  /\ SubSeq(list, m, n) \in Seq(Addr) /\ Len(SubSeq(list, m, n)) = n - m + 1
         /\ \A i \in 1 .. n - m + 1 : SubSeq(list, m, n)[i] = list[m + i - 1]
  <1>1. \A i \in m .. n : list[i] \in Addr
    BY SeqIs
  <1>2. m \in Int /\ n \in Int
    OBVIOUS
  <1>3. /\ SubSeq(list, m, n) \in Seq(Addr)
        /\ Len(SubSeq(list, m, n)) = IF m <= n THEN n - m + 1 ELSE 0
        /\ \A i \in 1 .. n - m + 1 : SubSeq(list, m, n)[i] = list[m + i - 1]
    BY <1>1, <1>2, SubSeqProperties
  <1> QED
    BY <1>3

LEMMA JoinIs ==
  ASSUME NEW s \in Seq(Addr), NEW t \in Seq(Addr)
  PROVE  /\ s \o t \in Seq(Addr) /\ Len(s \o t) = Len(s) + Len(t)
         /\ Len(s) \in Nat /\ Len(t) \in Nat
         /\ \A i \in 1 .. Len(s) + Len(t) : (s \o t)[i] = IF i <= Len(s) THEN s[i]
                                                          ELSE t[i - Len(s)]
  BY ConcatProperties, LenProperties

(* The list without a run of m fragments, as FreeFrag makes it.            *)
LEMMA CutOut ==
  ASSUME NEW list \in Seq(Addr), NEW k \in Nat, NEW m \in Nat, k >= 1, m >= 1, k + m - 1 <= Len(list)
  PROVE  Cut(list, SubSeq(list, 1, k - 1) \o SubSeq(list, k + m, Len(list)), k, m)
  <1> DEFINE s == SubSeq(list, 1, k - 1)
             t == SubSeq(list, k + m, Len(list))
  <1>1. Len(list) \in Nat /\ k - 1 \in Nat /\ k + m \in Nat /\ k + m >= 1 /\ k + m <= Len(list) + 1
    BY LenProperties
  <1>2. /\ s \in Seq(Addr) /\ Len(s) = k - 1
        /\ \A i \in 1 .. k - 1 : s[i] = list[i]
    <2>1. /\ s \in Seq(Addr) /\ Len(s) = (k - 1) - 1 + 1
          /\ \A i \in 1 .. (k - 1) - 1 + 1 : s[i] = list[1 + i - 1]
      BY <1>1, PieceIs
    <2> HIDE DEF s
    <2> QED
      BY <1>1, <2>1
  <1>3. /\ t \in Seq(Addr) /\ Len(t) = Len(list) - (k + m) + 1
        /\ \A i \in 1 .. Len(list) - (k + m) + 1 : t[i] = list[(k + m) + i - 1]
    BY <1>1, PieceIs
  <1> HIDE DEF s, t
  <1>4. /\ s \o t \in Seq(Addr) /\ Len(s \o t) = Len(s) + Len(t)
        /\ \A i \in 1 .. Len(s) + Len(t) : (s \o t)[i] = IF i <= Len(s) THEN s[i] ELSE t[i - Len(s)]
    BY <1>2, <1>3, JoinIs
  <1>5. Len(s \o t) = Len(list) - m
    BY <1>1, <1>2, <1>3, <1>4
  <1>6. ASSUME NEW j \in 1 .. Len(s \o t)
        PROVE  (s \o t)[j] = IF j < k THEN list[j] ELSE list[j + m]
    <2>1. CASE j < k
      <3>1. j \in 1 .. Len(s) + Len(t) /\ j <= Len(s) /\ j \in 1 .. k - 1
        BY <1>1, <1>2, <1>3, <1>4, <2>1
      <3> QED
        BY <1>2, <1>4, <2>1, <3>1
    <2>2. CASE ~(j < k)
      <3>1. (s \o t)[j] = t[j - (k - 1)]
        BY <1>1, <1>2, <1>3, <1>4, <2>2
      <3>2. j - (k - 1) \in 1 .. Len(list) - (k + m) + 1
        BY <1>1, <1>5, <2>2
      <3>3. t[j - (k - 1)] = list[(k + m) + (j - (k - 1)) - 1]
        BY <1>3, <3>2
      <3>4. (k + m) + (j - (k - 1)) - 1 = j + m
        BY <1>1
      <3> QED
        BY <2>2, <3>1, <3>3, <3>4
    <2> QED
      BY <2>1, <2>2
  <1> QED
    BY <1>4, <1>5, <1>6 DEF Cut, s, t

LEMMA OneIs ==
  ASSUME NEW p \in Addr
  PROVE  <<p>> \in Seq(Addr) /\ Len(<<p>>) = 1 /\ <<p>>[1] = p
  OBVIOUS

(* The two ways in which FreeFrag puts a fragment into a list.             *)
LEMMA PutFirst ==
  ASSUME NEW list \in Seq(Addr), NEW p \in Addr
  PROVE  Put(list, <<p>> \o list, 0, p)
  <1> DEFINE s == <<p>>
  <1>1. s \in Seq(Addr) /\ Len(s) = 1 /\ s[1] = p /\ Len(list) \in Nat
    BY OneIs, LenProperties
  <1> HIDE DEF s
  <1>2. /\ s \o list \in Seq(Addr) /\ Len(s \o list) = Len(s) + Len(list)
        /\ \A i \in 1 .. Len(s) + Len(list) :
             (s \o list)[i] = IF i <= Len(s) THEN s[i] ELSE list[i - Len(s)]
    BY <1>1, JoinIs
  <1>3. \A i \in 1 .. 1 + Len(list) : (s \o list)[i] = IF i <= 0 THEN list[i] ELSE IF i = 0 + 1 THEN p ELSE list[i - 1]
    BY <1>1, <1>2
  <1> QED
    BY <1>1, <1>2, <1>3 DEF Put, s

LEMMA PutBehind ==
  ASSUME NEW list \in Seq(Addr), NEW k \in Nat, k >= 1, k <= Len(list), NEW p \in Addr
  PROVE  Put(list, SubSeq(list, 1, k) \o <<p>> \o SubSeq(list, k + 1, Len(list)), k, p)
  <1> DEFINE s == SubSeq(list, 1, k)
             o == <<p>>
             u == s \o o
             t == SubSeq(list, k + 1, Len(list))
  <1>1. Len(list) \in Nat
    BY LenProperties
  <1>2. /\ s \in Seq(Addr) /\ Len(s) = k
        /\ \A i \in 1 .. k : s[i] = list[i]
    <2>1. /\ s \in Seq(Addr) /\ Len(s) = k - 1 + 1
          /\ \A i \in 1 .. k - 1 + 1 : s[i] = list[1 + i - 1]
      BY <1>1, PieceIs
    <2> HIDE DEF s
    <2> QED
      BY <1>1, <2>1
  <1>3. /\ t \in Seq(Addr) /\ Len(t) = Len(list) - (k + 1) + 1
        /\ \A i \in 1 .. Len(list) - (k + 1) + 1 : t[i] = list[(k + 1) + i - 1]
    BY <1>1, PieceIs
  <1>4. o \in Seq(Addr) /\ Len(o) = 1 /\ o[1] = p
    BY OneIs
  <1> HIDE DEF s, t, o
  <1>5. /\ u \in Seq(Addr) /\ Len(u) = Len(s) + Len(o)
        /\ \A i \in 1 .. Len(s) + Len(o) : u[i] = IF i <= Len(s) THEN s[i] ELSE o[i - Len(s)]
    <2>1. /\ s \o o \in Seq(Addr) /\ Len(s \o o) = Len(s) + Len(o)
          /\ \A i \in 1 .. Len(s) + Len(o) : (s \o o)[i] = IF i <= Len(s) THEN s[i] ELSE o[i - Len(s)]
      BY <1>2, <1>4, JoinIs
    <2> QED
      BY <2>1
  <1>6. Len(u) = k + 1 /\ u[k + 1] = p /\ \A i \in 1 .. k : u[i] = list[i]
    <2>1. u[k + 1] = o[(k + 1) - k] /\ (k + 1) - k = 1
      BY <1>2, <1>4, <1>5
    <2>2. u[k + 1] = p
      BY <1>4, <2>1
    <2> HIDE DEF u
    <2>3. \A i \in 1 .. k : u[i] = list[i]
      BY <1>2, <1>4, <1>5
    <2>4. Len(u) = k + 1
      BY <1>2, <1>4, <1>5
    <2> QED
      BY <2>2, <2>3, <2>4
  <1> HIDE DEF u
  <1>7. /\ u \o t \in Seq(Addr) /\ Len(u \o t) = Len(u) + Len(t)
        /\ \A i \in 1 .. Len(u) + Len(t) : (u \o t)[i] = IF i <= Len(u) THEN u[i] ELSE t[i - Len(u)]
    BY <1>5, <1>3, JoinIs
  <1>8. Len(u \o t) = Len(list) + 1
    BY <1>1, <1>3, <1>6, <1>7
  <1>9. ASSUME NEW j \in 1 .. Len(u \o t)
        PROVE  (u \o t)[j] = IF j <= k THEN list[j] ELSE IF j = k + 1 THEN p ELSE list[j - 1]
    <2>1. CASE j <= k + 1
      <3>1. (u \o t)[j] = u[j]
        BY <1>1, <1>3, <1>6, <1>7, <2>1
      <3> QED
        BY <1>6, <2>1, <3>1
    <2>2. CASE j > k + 1
      <3>1. (u \o t)[j] = t[j - (k + 1)]
        BY <1>1, <1>3, <1>6, <1>7, <2>2
      <3>2. j - (k + 1) \in 1 .. Len(list) - (k + 1) + 1
        BY <1>1, <1>8, <2>2
      <3>3. t[j - (k + 1)] = list[(k + 1) + (j - (k + 1)) - 1]
        BY <1>3, <3>2
      <3>4. (k + 1) + (j - (k + 1)) - 1 = j - 1
        BY <1>1
      <3> QED
        BY <2>2, <3>1, <3>3, <3>4
    <2> QED
      BY <2>1, <2>2
  <1>10. Put(list, u \o t, k, p)
    BY <1>7, <1>8, <1>9 DEF Put
  <1> QED
    BY <1>10 DEF u, s, t, o

(* A block that is broken up has all its fragments but one in the list,    *)
(* each once.                                                              *)
LEMMA FirstFragsIs ==
  ASSUME NEW b \in Block, NEW l \in Log
  PROVE  LET list == FirstFrags(b, l) IN
         /\ list \in Seq(Addr) /\ Len(list) = PerBlock[l] - 1
         /\ \A k \in 1 .. PerBlock[l] - 1 : list[k] = <<b, PerBlock[l] - k>>
         /\ Distinct(list)
  <1> DEFINE list == FirstFrags(b, l)
             n == PerBlock[l] - 1
  <1>1. n \in Nat /\ PerBlock[l] \in Nat /\ n >= 1
    BY LogIs
  <1>2. list = [k \in 1 .. n |-> <<b, PerBlock[l] - k>>]
    BY DEF FirstFrags
  <1>3. \A k \in 1 .. n : PerBlock[l] - k \in Nat
    BY <1>1
  <1>4. \A k \in 1 .. n : <<b, PerBlock[l] - k>> \in Addr
    BY <1>3 DEF Addr
  <1> HIDE DEF list, n
  <1>5. list \in [1 .. n -> Addr]
    BY <1>2, <1>4
  <1>6. list \in Seq(Addr) /\ Len(list) = n
    BY <1>1, <1>5
  <1>7. \A k \in 1 .. n : list[k] = <<b, PerBlock[l] - k>>
    BY <1>2
  <1>8. Distinct(list)
    <2> SUFFICES ASSUME NEW j \in 1 .. n, NEW k \in 1 .. n, list[j] = list[k] PROVE j = k
      BY <1>6 DEF Distinct
    <2>1. PerBlock[l] - j = PerBlock[l] - k
      BY <1>7
    <2> QED
      BY <1>1, <2>1
  <1> QED
    BY <1>6, <1>7, <1>8 DEF list, n

-----------------------------------------------------------------------------
(* What is in use.                                                         *)
Used(h, b, i) ==
  LET info == h.heapinfo[b] IN
  \/ info.kind = "large" /\ i = 0
  \/ /\ info.kind = "frags" /\ i \in 0 .. PerBlock[info.log] - 1
     /\ ~Holds(h.fraghead[info.log], <<b, i>>)

(* The fields of a block of fragments.                                     *)
LEMMA FragsIs ==
  ASSUME NEW r \in Info, r.kind = "frags"
  PROVE  r.log \in Log /\ r.nfree \in Nat /\ r.first \in Nat
  BY InfoKinds DEF FragsInfo

(* InUse, fragment by fragment.                                            *)
LEMMA InUseIs ==
  ASSUME NEW h \in Heap
  PROVE  \A x : x \in InUse(h) <=> \E b \in Block, i \in Nat : x = <<b, i>> /\ Used(h, b, i)
  <1>1. h.heapinfo \in [Index -> Info] /\ h.fraghead \in [Log -> Seq(Addr)]
    BY HeapFields
  <1>2. \A b \in Block : b \in Index /\ h.heapinfo[b] \in Info
    BY <1>1, Indices
  <1> DEFINE PB(b) == PerBlock[h.heapinfo[b].log]
             L(b) == h.fraghead[h.heapinfo[b].log]
  <1>3. ASSUME NEW b \in FragBlocks(h), NEW x
        PROVE  (x \in { <<b, i>> : i \in 0 .. PB(b) - 1 } \ { L(b)[k] : k \in FreeFrags(h, b) })
               <=> \E i \in Nat : x = <<b, i>> /\ Used(h, b, i)
    <2>1. b \in Block /\ h.heapinfo[b].kind = "frags" /\ h.heapinfo[b].log \in Log /\ PB(b) \in Nat
      BY <1>2, FragsIs, LogIs DEF FragBlocks
    <2>2. L(b) \in Seq(Addr)
      BY <1>1, <2>1
    <2>3. \A i \in Nat : <<b, i>> \in { L(b)[k] : k \in FreeFrags(h, b) } <=> Holds(L(b), <<b, i>>)
      <3> TAKE i \in Nat
      <3>1. \A k : k \in FreeFrags(h, b) <=> k \in 1 .. Len(L(b)) /\ L(b)[k][1] = b
        BY DEF FreeFrags
      <3> HIDE DEF L
      <3>2. \A k \in 1 .. Len(L(b)) : L(b)[k] = <<b, i>> => L(b)[k][1] = b
        OBVIOUS
      <3> QED
        BY <3>1, <3>2 DEF Holds
    <2>4. \A i : i \in 0 .. PB(b) - 1 => i \in Nat
      BY <2>1
    <2>5. \A i \in Nat : Used(h, b, i) <=> i \in 0 .. PB(b) - 1 /\ ~Holds(L(b), <<b, i>>)
      BY <2>1 DEF Used
    <2> HIDE DEF L, PB
    <2> QED
      BY <2>3, <2>4, <2>5
  <1>4. ASSUME NEW b \in LargeClusters(h), NEW i \in Nat PROVE Used(h, b, i) <=> i = 0
    BY <1>4 DEF Used, LargeClusters
  <1>5. \A b \in Block, i \in Nat : Used(h, b, i) => b \in LargeClusters(h) \/ b \in FragBlocks(h)
    BY DEF Used, LargeClusters, FragBlocks
  <1>6. \A b : (b \in LargeClusters(h) => b \in Block) /\ (b \in FragBlocks(h) => b \in Block)
    BY DEF LargeClusters, FragBlocks
  <1>7. \A x : x \in InUse(h) <=>
          \/ \E b \in LargeClusters(h) : x = <<b, 0>>
          \/ \E b \in FragBlocks(h) :
               x \in { <<b, i>> : i \in 0 .. PB(b) - 1 } \ { L(b)[k] : k \in FreeFrags(h, b) }
    BY DEF InUse
  <1> HIDE DEF PB, L
  <1> TAKE x
  <1>8. (\E b \in LargeClusters(h) : x = <<b, 0>>) <=>
        (\E b \in LargeClusters(h), i \in Nat : x = <<b, i>> /\ Used(h, b, i))
    BY <1>4
  <1>9. (\E b \in FragBlocks(h) :
           x \in { <<b, i>> : i \in 0 .. PB(b) - 1 } \ { L(b)[k] : k \in FreeFrags(h, b) }) <=>
        (\E b \in FragBlocks(h), i \in Nat : x = <<b, i>> /\ Used(h, b, i))
    BY <1>3
  <1> QED
    BY <1>5, <1>6, <1>7, <1>8, <1>9

LEMMA InUseOf ==
  ASSUME NEW h \in Heap
  PROVE  /\ \A b \in Block, i \in Nat : <<b, i>> \in InUse(h) <=> Used(h, b, i)
         /\ InUse(h) \subseteq Addr
  BY InUseIs DEF Addr

(* A change of the block b and of the lists it is in.                      *)
LEMMA FragsChanged ==
  ASSUME NEW h \in Heap, NEW g \in Heap, FragsOK(h), NEW b \in Block,
         Busier(h.heapinfo, g.heapinfo, b),
         \A l \in Log : Kept(h.fraghead[l], g.fraghead[l], b),
         \A l \in Log : \A k \in 1 .. Len(g.fraghead[l]) : g.fraghead[l][k][1] = b =>
           /\ g.heapinfo[b].kind = "frags" /\ g.heapinfo[b].log = l
           /\ g.fraghead[l][k][2] \in 0 .. PerBlock[l] - 1,
         g.heapinfo[b].kind = "frags" =>
           /\ g.heapinfo[b].nfree \in 0 .. PerBlock[g.heapinfo[b].log] - 1
           /\ RunOK(g.fraghead[g.heapinfo[b].log], b, g.heapinfo[b].nfree, g.heapinfo[b].first)
  PROVE  /\ FragsOK(g)
         /\ \A c \in Block \ {b}, i \in Nat : Used(g, c, i) <=> Used(h, c, i)
  <1>1. /\ h.fraghead \in [Log -> Seq(Addr)] /\ g.fraghead \in [Log -> Seq(Addr)]
        /\ h.heapinfo \in [Index -> Info] /\ g.heapinfo \in [Index -> Info]
    BY HeapFields
  <1>2. \A c \in Block \ {b} : IF h.heapinfo[c].kind \in Busy THEN g.heapinfo[c] = h.heapinfo[c]
                               ELSE g.heapinfo[c].kind \notin Busy
    BY DEF Busier
  <1>3. ASSUME NEW l \in Log
        PROVE  LET list == g.fraghead[l] IN
               /\ \A k \in 1 .. Len(list) :
                    LET info == g.heapinfo[list[k][1]] IN
                    info.kind = "frags" /\ info.log = l /\ list[k][2] \in 0 .. PerBlock[l] - 1
               /\ \A j, k \in 1 .. Len(list) : list[j] = list[k] => j = k
    <2> DEFINE list == g.fraghead[l]
               old == h.fraghead[l]
    <2>1. Kept(old, list, b) /\ list \in Seq(Addr) /\ old \in Seq(Addr)
      BY <1>1
    <2>2. \A k \in 1 .. Len(list) : list[k][1] = b =>
           /\ g.heapinfo[b].kind = "frags" /\ g.heapinfo[b].log = l
           /\ list[k][2] \in 0 .. PerBlock[l] - 1
      OBVIOUS
    <2>3. \A k \in 1 .. Len(old) :
                    LET info == h.heapinfo[old[k][1]] IN
                    info.kind = "frags" /\ info.log = l /\ old[k][2] \in 0 .. PerBlock[l] - 1
      BY DEF FragsOK
    <2> HIDE DEF list, old
    <2>4. ASSUME NEW k \in 1 .. Len(list)
          PROVE  LET info == g.heapinfo[list[k][1]] IN
                 info.kind = "frags" /\ info.log = l /\ list[k][2] \in 0 .. PerBlock[l] - 1
      <3>1. CASE list[k][1] = b
        BY <2>2, <3>1
      <3>2. CASE list[k][1] # b
        <4>1. list[k] \in Addr /\ list[k][1] \in Block /\ Holds(list, list[k])
          BY <2>1, SeqIs DEF Holds
        <4>2. Holds(old, list[k])
          BY <2>1, <3>2, <4>1 DEF Kept
        <4>3. PICK j \in 1 .. Len(old) : old[j] = list[k]
          BY <4>2 DEF Holds
        <4>4. /\ h.heapinfo[list[k][1]].kind = "frags" /\ h.heapinfo[list[k][1]].log = l
              /\ list[k][2] \in 0 .. PerBlock[l] - 1
          BY <2>3, <4>3
        <4>5. g.heapinfo[list[k][1]] = h.heapinfo[list[k][1]]
          BY <1>2, <3>2, <4>1, <4>4 DEF Busy
        <4> QED
          BY <4>4, <4>5
      <3> QED
        BY <3>1, <3>2
    <2>5. \A j, k \in 1 .. Len(list) : list[j] = list[k] => j = k
      BY <2>1 DEF Kept, Distinct
    <2> QED
      BY <2>4, <2>5 DEF list
  <1>4. ASSUME NEW c \in Block, g.heapinfo[c].kind = "frags"
        PROVE  LET info == g.heapinfo[c] IN
               /\ info.nfree \in 0 .. PerBlock[info.log] - 1
               /\ RunOK(g.fraghead[info.log], c, info.nfree, info.first)
    <2>1. CASE c = b
      BY <1>4, <2>1
    <2>2. CASE c # b
      <3>1. g.heapinfo[c] = h.heapinfo[c]
        BY <1>2, <1>4, <2>2 DEF Busy
      <3> DEFINE info == h.heapinfo[c]
      <3>2. info.kind = "frags" /\ info \in Info
        BY <1>1, <1>4, <3>1, Indices
      <3>3. info.nfree \in 0 .. PerBlock[info.log] - 1 /\ RunOK(h.fraghead[info.log], c, info.nfree, info.first)
        BY <3>2 DEF FragsOK
      <3>4. info.log \in Log /\ info.nfree \in Nat /\ info.first \in Nat
        BY <3>2, FragsIs
      <3> HIDE DEF info
      <3>5. RunOK(g.fraghead[info.log], c, info.nfree, info.first)
        BY <2>2, <3>3, <3>4 DEF Kept
      <3> QED
        BY <3>1, <3>3, <3>5 DEF info
    <2> QED
      BY <2>1, <2>2
  <1>5. ASSUME NEW c \in Block \ {b}, NEW i \in Nat PROVE Used(g, c, i) <=> Used(h, c, i)
    <2>1. CASE h.heapinfo[c].kind \notin Busy
      BY <1>2, <2>1 DEF Used, Busy
    <2>2. CASE h.heapinfo[c].kind = "large"
      <3>1. g.heapinfo[c] = h.heapinfo[c]
        BY <1>2, <2>2 DEF Busy
      <3> QED
        BY <2>2, <3>1 DEF Used
    <2>3. CASE h.heapinfo[c].kind = "frags"
      <3>1. g.heapinfo[c] = h.heapinfo[c]
        BY <1>2, <2>3 DEF Busy
      <3> DEFINE l == h.heapinfo[c].log
      <3>2. l \in Log
        BY <1>1, <2>3, FragsIs, Indices
      <3>3. <<c, i>> \in Addr /\ <<c, i>>[1] # b
        BY DEF Addr
      <3>4. Holds(g.fraghead[l], <<c, i>>) <=> Holds(h.fraghead[l], <<c, i>>)
        BY <3>2, <3>3 DEF Kept
      <3> QED
        BY <2>3, <3>1, <3>4 DEF Used
    <2> QED
      BY <2>1, <2>2, <2>3 DEF Busy
  <1> QED
    BY <1>3, <1>4, <1>5 DEF FragsOK

(* A busy block that stays busy, and as large as it was.                   *)
LEMMA Relabelled ==
  ASSUME NEW h, HeapAt(h, h.heaplimit), NEW g \in Heap, NEW b \in Block,
         h.heapinfo[b].kind \in Busy, g.heapinfo[b].kind \in Busy,
         Size(g.heapinfo, b) = Size(h.heapinfo, b),
         \A c \in Index \ {b} : g.heapinfo[c] = h.heapinfo[c],
         g.heapindex = h.heapindex, g.heaplimit = h.heaplimit, g.heapsize = h.heapsize,
         g.table = h.table, g.breakval = h.breakval
  PROVE  HeapAt(g, g.heaplimit) /\ Busier(h.heapinfo, g.heapinfo, b)
  <1> DEFINE info == h.heapinfo
             new == g.heapinfo
  <1>1. /\ info \in [Index -> Info] /\ new \in [Index -> Info] /\ LinksOK(info)
        /\ SpansOK(info, h.heaplimit) /\ h.heaplimit \in Nat /\ h.heapindex \in ListIn(info)
    BY HeapAtHas, HeapFields
  <1>2. info[b].kind \in Busy /\ new[b].kind \in Busy
    OBVIOUS
  <1>3. \A c \in Index \ {b} : new[c] = info[c]
    OBVIOUS
  <1>4. Size(new, b) = Size(info, b)
    OBVIOUS
  <1> HIDE DEF info, new
  <1>5. Starts(new) = Starts(info) /\ ListIn(new) = ListIn(info) /\ b \notin ListIn(info)
    BY <1>2, <1>3, Indices DEF Starts, ListIn, FreeIn, Busy
  <1>6. \A c \in Starts(info) : Size(new, c) = Size(info, c)
    BY <1>3, <1>4, Indices DEF Size, Starts
  <1>7. SpansOK(new, h.heaplimit) /\ Covered(new) = Covered(info)
    BY <1>1, <1>5, <1>6, SpansSame
  <1>8. LinksOK(new)
    <2>1. /\ 0 \in ListIn(info) /\ info[0].kind = "free" /\ info[0].size = 0
          /\ \A c \in ListIn(info) : c \in Index
      BY <1>1, ListIs DEF LinksOK
    <2>2. \A c \in ListIn(info) : new[c] = info[c]
      BY <1>3, <1>5, <2>1
    <2> QED
      BY <1>1, <1>5, <2>1, <2>2, LinksSame
  <1>9. HeapAt(g, g.heaplimit)
    <2>1. /\ LinksOK(g.heapinfo) /\ SpansOK(g.heapinfo, g.heaplimit)
          /\ g.heapindex \in ListIn(g.heapinfo) /\ Covered(g.heapinfo) = Covered(h.heapinfo)
      BY <1>1, <1>5, <1>7, <1>8 DEF info, new
    <2> QED
      BY <2>1, HeapAtHas, HeapAtFrom
  <1>10. Busier(info, new, b)
    BY <1>3, Indices DEF Busier
  <1> QED
    BY <1>9, <1>10 DEF info, new

(* One fragment more in use, ...                                           *)
LEMMA UseAdded ==
  ASSUME NEW h \in Heap, NEW g \in Heap, NEW b \in Block, NEW x \in Nat,
         \A c \in Block \ {b}, i \in Nat : Used(g, c, i) <=> Used(h, c, i),
         \A i \in Nat : Used(g, b, i) <=> Used(h, b, i) \/ i = x,
         ~Used(h, b, x)
  PROVE  /\ <<b, x>> \in Addr \ InUse(h) /\ InUse(g) = InUse(h) \cup {<<b, x>>}
  <1>1. <<b, x>> \in Addr
    BY DEF Addr
  <1>2. <<b, x>> \notin InUse(h)
    BY InUseOf
  <1>3. ASSUME NEW c \in Block, NEW i \in Nat
        PROVE  Used(g, c, i) <=> Used(h, c, i) \/ <<c, i>> = <<b, x>>
    OBVIOUS
  <1>4. ASSUME NEW p PROVE p \in InUse(g) <=> p \in InUse(h) \/ p = <<b, x>>
    <2>1. p \in InUse(g) <=> \E c \in Block, i \in Nat : p = <<c, i>> /\ Used(g, c, i)
      BY InUseIs
    <2>2. p \in InUse(h) <=> \E c \in Block, i \in Nat : p = <<c, i>> /\ Used(h, c, i)
      BY InUseIs
    <2> QED
      BY <1>3, <2>1, <2>2
  <1> QED
    BY <1>1, <1>2, <1>4

(* ... and one less.                                                       *)
LEMMA UseRemoved ==
  ASSUME NEW h \in Heap, NEW g \in Heap, NEW b \in Block, NEW x \in Nat,
         \A c \in Block \ {b}, i \in Nat : Used(g, c, i) <=> Used(h, c, i),
         \A i \in Nat : Used(g, b, i) <=> Used(h, b, i) /\ i # x
  PROVE  InUse(g) = InUse(h) \ {<<b, x>>}
  <1>3. ASSUME NEW c \in Block, NEW i \in Nat
        PROVE  Used(g, c, i) <=> Used(h, c, i) /\ <<c, i>> # <<b, x>>
    OBVIOUS
  <1>4. ASSUME NEW p PROVE p \in InUse(g) <=> p \in InUse(h) /\ p # <<b, x>>
    <2>1. p \in InUse(g) <=> \E c \in Block, i \in Nat : p = <<c, i>> /\ Used(g, c, i)
      BY InUseIs
    <2>2. p \in InUse(h) <=> \E c \in Block, i \in Nat : p = <<c, i>> /\ Used(h, c, i)
      BY InUseIs
    <2> QED
      BY <1>3, <2>1, <2>2
  <1> QED
    BY <1>4

(* No fragment is twice in a list.                                         *)
LEMMA ListsDistinct ==
  ASSUME NEW h, FragsOK(h), NEW l \in Log
  PROVE  Distinct(h.fraghead[l])
  BY DEF FragsOK, Distinct

(* A block that is not cut up is in no list, before and after.             *)
LEMMA FragsSame ==
  ASSUME NEW h \in Heap, NEW g \in Heap, FragsOK(h), NEW b \in Block,
         Busier(h.heapinfo, g.heapinfo, b), g.fraghead = h.fraghead,
         h.heapinfo[b].kind # "frags", g.heapinfo[b].kind # "frags"
  PROVE  /\ FragsOK(g)
         /\ \A c \in Block \ {b}, i \in Nat : Used(g, c, i) <=> Used(h, c, i)
  <1>1. \A l \in Log : Kept(h.fraghead[l], g.fraghead[l], b)
    BY ListsDistinct, KeptSame
  <1>2. \A l \in Log : \A k \in 1 .. Len(g.fraghead[l]) : g.fraghead[l][k][1] # b
    BY DEF FragsOK
  <1> QED
    BY <1>1, <1>2, FragsChanged

(* After an allocation of blocks the books are right and one more is in    *)
(* use.                                                                    *)
LEMMA LargeAllocated ==
  ASSUME NEW h, Books(h), NEW g, NEW b, NEW n \in Nat, n >= 1, Obtains(h, g, b, n)
  PROVE  /\ Books(g) /\ b \in Block /\ h \in Heap /\ g \in Heap
         /\ \A c \in Block \ {b}, i \in Nat : Used(g, c, i) <=> Used(h, c, i)
         /\ \A i \in Nat : (Used(g, b, i) <=> i = 0) /\ ~Used(h, b, i)
  <1>1. /\ h \in Heap /\ g \in Heap /\ FragsOK(h) /\ b \in Block /\ HeapAt(g, g.heaplimit)
        /\ Busier(h.heapinfo, g.heapinfo, b) /\ g.fraghead = h.fraghead
        /\ h.heapinfo[b].kind \notin Busy /\ g.heapinfo[b] = Large(n)
    BY HeapAtHas DEF Books, Obtains
  <1>2. g.heapinfo[b].kind = "large"
    BY <1>1, LargeIs
  <1>3. FragsOK(g) /\ \A c \in Block \ {b}, i \in Nat : Used(g, c, i) <=> Used(h, c, i)
    BY <1>1, <1>2, FragsSame DEF Busy
  <1>4. \A i \in Nat : (Used(g, b, i) <=> i = 0) /\ ~Used(h, b, i)
    BY <1>1, <1>2 DEF Used, Busy
  <1> QED
    BY <1>1, <1>3, <1>4 DEF Books

(* An empty list gets the fragments of b.                                  *)
LEMMA KeptFirst ==
  ASSUME NEW new \in Seq(Addr), NEW b, Distinct(new), \A k \in 1 .. Len(new) : new[k][1] = b
  PROVE  Kept(<<>>, new, b)
  <1>1. Len(<<>>) = 0 /\ Len(new) \in Nat
    BY SeqIs
  <1>2. \A p \in Addr : p[1] # b => (Holds(new, p) <=> Holds(<<>>, p))
    BY <1>1 DEF Holds
  <1>3. \A c \in Block \ {b}, n \in Nat, f \in Nat : RunOK(<<>>, c, n, f) => RunOK(new, c, n, f)
    BY <1>1 DEF RunOK
  <1> QED
    BY <1>2, <1>3 DEF Kept

(* Frags makes an entry.                                                   *)
LEMMA FragsAre ==
  ASSUME NEW l \in Log, NEW m \in Nat, NEW f \in Nat
  PROVE  /\ Frags(l, m, f) \in Info /\ Frags(l, m, f).kind = "frags" /\ Frags(l, m, f).log = l
         /\ Frags(l, m, f).nfree = m /\ Frags(l, m, f).first = f
  BY DEF Frags, Info, FragsInfo

(* A large cluster of one block is broken up.                              *)
LEMMA BrokenUpIs ==
  ASSUME NEW h, Books(h), NEW b \in Block, h.heapinfo[b] = Large(1),
         NEW l \in Log, h.fraghead[l] = <<>>
  PROVE  LET g == [h EXCEPT !.heapinfo[b] = Frags(l, PerBlock[l] - 1, PerBlock[l] - 1),
                            !.fraghead[l] = FirstFrags(b, l)] IN
         /\ Books(g) /\ g \in Heap
         /\ \A c \in Block \ {b}, i \in Nat : Used(g, c, i) <=> Used(h, c, i)
         /\ \A i \in Nat : Used(g, b, i) <=> i = 0
  <1> DEFINE n == PerBlock[l] - 1
             v == Frags(l, n, n)
             list == FirstFrags(b, l)
             g == [h EXCEPT !.heapinfo[b] = v, !.fraghead[l] = list]
  <1>1. /\ h \in Heap /\ HeapAt(h, h.heaplimit) /\ FragsOK(h)
        /\ h.heapinfo \in [Index -> Info] /\ h.fraghead \in [Log -> Seq(Addr)]
    BY HeapFields DEF Books, HeapAt
  <1>2. n \in Nat /\ n >= 1 /\ PerBlock[l] \in Nat /\ PerBlock[l] = n + 1 /\ PerBlock[l] - 1 = n
    BY LogIs
  <1>3. b \in Index
    BY Indices
  <1>4. v \in Info /\ v.kind = "frags" /\ v.log = l /\ v.nfree = n /\ v.first = n
    BY <1>2, FragsAre
  <1>5. /\ list \in Seq(Addr) /\ Len(list) = n
        /\ \A k \in 1 .. n : list[k] = <<b, (n + 1) - k>>
        /\ Distinct(list)
    BY <1>2, FirstFragsIs
  <1> HIDE DEF n, v, list
  <1>6. /\ g \in Heap /\ g.heapindex = h.heapindex /\ g.heaplimit = h.heaplimit
        /\ g.heapsize = h.heapsize /\ g.table = h.table /\ g.breakval = h.breakval
        /\ g.heapinfo[b] = v /\ \A c \in Index \ {b} : g.heapinfo[c] = h.heapinfo[c]
    BY <1>1, <1>3, <1>4, <1>5 DEF Heap
  <1>7. g.fraghead[l] = list /\ \A m \in Log \ {l} : g.fraghead[m] = h.fraghead[m]
    BY <1>1
  <1>8. g = [h EXCEPT !.heapinfo[b] = Frags(l, PerBlock[l] - 1, PerBlock[l] - 1),
                      !.fraghead[l] = FirstFrags(b, l)]
    BY <1>2 DEF v, list, n
  <1> HIDE DEF g
  <1>9. HeapAt(g, g.heaplimit) /\ Busier(h.heapinfo, g.heapinfo, b)
    <2>1. h.heapinfo[b].kind = "large" /\ h.heapinfo[b].size = 1
      BY LargeIs
    <2>2. Size(h.heapinfo, b) = 1 /\ Size(g.heapinfo, b) = 1
      BY <1>4, <1>6, <2>1 DEF Size
    <2>3. h.heapinfo[b].kind \in Busy /\ g.heapinfo[b].kind \in Busy
      BY <1>4, <1>6, <2>1 DEF Busy
    <2> QED
      BY <1>1, <1>6, <2>2, <2>3, Relabelled
  <1>10. \A k \in 1 .. n : list[k][1] = b /\ list[k][2] = (n + 1) - k /\ list[k][2] \in 1 .. n
    BY <1>2, <1>5
  <1>11. \A m \in Log : Kept(h.fraghead[m], g.fraghead[m], b)
    <2> TAKE m \in Log
    <2>1. CASE m = l
      BY <1>5, <1>7, <1>10, <2>1, KeptFirst
    <2>2. CASE m # l
      BY <1>1, <1>7, <2>2, KeptSame, ListsDistinct
    <2> QED
      BY <2>1, <2>2
  <1>12. \A m \in Log : \A k \in 1 .. Len(g.fraghead[m]) : g.fraghead[m][k][1] = b =>
           /\ g.heapinfo[b].kind = "frags" /\ g.heapinfo[b].log = m
           /\ g.fraghead[m][k][2] \in 0 .. PerBlock[m] - 1
    <2> TAKE m \in Log
    <2>1. CASE m = l
      BY <1>2, <1>4, <1>5, <1>6, <1>7, <1>10, <2>1
    <2>2. CASE m # l
      <3>1. h.heapinfo[b].kind # "frags"
        BY LargeIs
      <3>2. \A k \in 1 .. Len(h.fraghead[m]) : h.fraghead[m][k][1] # b
        BY <1>1, <3>1 DEF FragsOK
      <3> QED
        BY <1>7, <2>2, <3>2
    <2> QED
      BY <2>1, <2>2
  <1>13. RunOK(list, b, n, n)
    <2>1. 1 \in 1 .. Len(list) /\ 1 + n - 1 <= Len(list) /\ list[1] = <<b, n>>
      <3>1. (n + 1) - 1 = n
        BY <1>2
      <3> QED
        BY <1>2, <1>5, <3>1
    <2>2. \A j \in 1 .. Len(list) : list[j][1] = b <=> 1 <= j /\ j <= 1 + n - 1
      BY <1>2, <1>5, <1>10
    <2>3. \E k \in 1 .. Len(list) :
            /\ k + n - 1 <= Len(list) /\ list[k] = <<b, n>>
            /\ \A j \in 1 .. Len(list) : list[j][1] = b <=> k <= j /\ j <= k + n - 1
      <3>1. 1 \in 1 .. Len(list)
        BY <2>1
      <3> WITNESS 1 \in 1 .. Len(list)
      <3> QED
        BY <2>1, <2>2
    <2>4. n > 0
      BY <1>2
    <2> QED
      BY <2>3, <2>4 DEF RunOK
  <1>14. /\ g.heapinfo[b].nfree \in 0 .. PerBlock[g.heapinfo[b].log] - 1
         /\ RunOK(g.fraghead[g.heapinfo[b].log], b, g.heapinfo[b].nfree, g.heapinfo[b].first)
    BY <1>2, <1>4, <1>6, <1>7, <1>13
  <1>15. FragsOK(g) /\ \A c \in Block \ {b}, i \in Nat : Used(g, c, i) <=> Used(h, c, i)
    BY <1>1, <1>6, <1>9, <1>11, <1>12, <1>14, FragsChanged
  <1>16. \A i \in Nat : Used(g, b, i) <=> i = 0
    <2> TAKE i \in Nat
    <2>1. Used(g, b, i) <=> i \in 0 .. n /\ ~Holds(list, <<b, i>>)
      BY <1>2, <1>4, <1>6, <1>7 DEF Used
    <2>2. Holds(list, <<b, i>>) <=> i \in 1 .. n
      <3>1. ASSUME i \in 1 .. n PROVE Holds(list, <<b, i>>)
        <4>1. (n + 1) - i \in 1 .. n /\ (n + 1) - ((n + 1) - i) = i
          BY <1>2, <3>1
        <4>2. list[(n + 1) - i] = <<b, i>>
          BY <1>5, <4>1
        <4> QED
          BY <1>5, <4>1, <4>2 DEF Holds
      <3>2. ASSUME NEW k \in 1 .. n, list[k] = <<b, i>> PROVE i \in 1 .. n
        BY <1>10, <3>2
      <3> QED
        BY <1>5, <3>1, <3>2 DEF Holds
    <2> QED
      BY <1>2, <2>1, <2>2
  <1> QED
    BY <1>6, <1>8, <1>9, <1>15, <1>16 DEF Books

(* What the books say of a block of fragments and its list.                *)
LEMMA FragBlockHas ==
  ASSUME NEW h, Books(h), NEW b \in Block, h.heapinfo[b].kind = "frags"
  PROVE  LET info == h.heapinfo[b]
             list == h.fraghead[info.log]
         IN  /\ info.log \in Log /\ info.nfree \in Nat /\ info.first \in Nat
             /\ info = Frags(info.log, info.nfree, info.first)
             /\ info.nfree <= PerBlock[info.log] - 1
             /\ PerBlock[info.log] \in Nat /\ PerBlock[info.log] >= 2
             /\ list \in Seq(Addr) /\ Distinct(list)
             /\ RunOK(list, b, info.nfree, info.first)
             /\ \A k \in 1 .. Len(list) : list[k][1] = b => list[k][2] \in 0 .. PerBlock[info.log] - 1
             /\ \A l \in Log : l # info.log =>
                  \A k \in 1 .. Len(h.fraghead[l]) : h.fraghead[l][k][1] # b
  <1> DEFINE info == h.heapinfo[b]
             list == h.fraghead[info.log]
  <1>1. /\ h \in Heap /\ FragsOK(h) /\ h.heapinfo \in [Index -> Info]
        /\ h.fraghead \in [Log -> Seq(Addr)]
    BY HeapFields DEF Books, HeapAt
  <1>2. info \in Info /\ info.kind = "frags"
    BY <1>1, Indices
  <1>3. info.log \in Log /\ info.nfree \in Nat /\ info.first \in Nat
    BY <1>2, FragsIs
  <1>4. info = Frags(info.log, info.nfree, info.first)
    BY <1>2, InfoKinds DEF FragsInfo, Frags
  <1>5. PerBlock[info.log] \in Nat /\ PerBlock[info.log] >= 2
    BY <1>3, LogIs
  <1>6. info.nfree \in 0 .. PerBlock[info.log] - 1 /\ RunOK(list, b, info.nfree, info.first)
    BY <1>1, <1>2 DEF FragsOK
  <1>7. list \in Seq(Addr) /\ Distinct(list)
    BY <1>1, <1>3, ListsDistinct
  <1>8. \A k \in 1 .. Len(list) : list[k][1] = b => list[k][2] \in 0 .. PerBlock[info.log] - 1
    BY <1>1, <1>3 DEF FragsOK
  <1>9. \A l \in Log : l # info.log =>
          \A k \in 1 .. Len(h.fraghead[l]) : h.fraghead[l][k][1] # b
    BY <1>1 DEF FragsOK
  <1>10. info.nfree <= PerBlock[info.log] - 1
    BY <1>3, <1>5, <1>6
  <1> HIDE DEF info, list
  <1> QED
    BY ONLY <1>3, <1>4, <1>5, <1>6, <1>7, <1>8, <1>9, <1>10 DEF info, list

(* A block of fragments stays one, and what its list is changes.           *)
Relists(h, g, b, l, n, first, list) ==
  /\ b \in Block /\ h.heapinfo[b].kind = "frags" /\ h.heapinfo[b].log = l
  /\ n \in Nat /\ n <= PerBlock[l] - 1 /\ first \in Nat /\ list \in Seq(Addr)
  /\ g \in Heap /\ g.heapindex = h.heapindex /\ g.heaplimit = h.heaplimit
  /\ g.heapsize = h.heapsize /\ g.table = h.table /\ g.breakval = h.breakval
  /\ g.heapinfo[b] = Frags(l, n, first)
  /\ \A c \in Index \ {b} : g.heapinfo[c] = h.heapinfo[c]
  /\ g.fraghead[l] = list /\ \A m \in Log \ {l} : g.fraghead[m] = h.fraghead[m]
  /\ Kept(h.fraghead[l], list, b) /\ RunOK(list, b, n, first)
  /\ \A k \in 1 .. Len(list) : list[k][1] = b => list[k][2] \in 0 .. PerBlock[l] - 1

(* The books are right after that, and what is in use of b is what the     *)
(* list does not hold.                                                     *)
LEMMA ListChanged ==
  ASSUME NEW h, Books(h), NEW g, NEW b, NEW l \in Log, NEW n, NEW first, NEW list,
         Relists(h, g, b, l, n, first, list)
  PROVE  /\ Books(g)
         /\ \A c \in Block \ {b}, i \in Nat : Used(g, c, i) <=> Used(h, c, i)
         /\ \A i \in Nat :
              Used(g, b, i) <=> i \in 0 .. PerBlock[l] - 1 /\ ~Holds(list, <<b, i>>)
  <1> DEFINE v == Frags(l, n, first)
  <1>a. /\ b \in Block /\ h.heapinfo[b].kind = "frags" /\ h.heapinfo[b].log = l
        /\ n \in Nat /\ n <= PerBlock[l] - 1 /\ first \in Nat /\ list \in Seq(Addr)
        /\ Kept(h.fraghead[l], list, b) /\ RunOK(list, b, n, first)
        /\ \A k \in 1 .. Len(list) : list[k][1] = b => list[k][2] \in 0 .. PerBlock[l] - 1
    BY DEF Relists
  <1>1. /\ h \in Heap /\ HeapAt(h, h.heaplimit) /\ FragsOK(h)
        /\ h.heapinfo \in [Index -> Info] /\ h.fraghead \in [Log -> Seq(Addr)]
    BY HeapFields DEF Books, HeapAt
  <1>2. b \in Index
    BY <1>a, Indices
  <1>3. v \in Info /\ v.kind = "frags" /\ v.log = l /\ v.nfree = n /\ v.first = first
    BY <1>a, FragsAre
  <1> HIDE DEF v
  <1>6. /\ g \in Heap /\ g.heapindex = h.heapindex /\ g.heaplimit = h.heaplimit
        /\ g.heapsize = h.heapsize /\ g.table = h.table /\ g.breakval = h.breakval
        /\ g.heapinfo[b] = v /\ \A c \in Index \ {b} : g.heapinfo[c] = h.heapinfo[c]
    BY DEF v, Relists
  <1>7. g.fraghead[l] = list /\ \A m \in Log \ {l} : g.fraghead[m] = h.fraghead[m]
    BY DEF Relists
  <1>9. HeapAt(g, g.heaplimit) /\ Busier(h.heapinfo, g.heapinfo, b)
    <2>2. Size(h.heapinfo, b) = 1 /\ Size(g.heapinfo, b) = 1
      BY <1>a, <1>3, <1>6 DEF Size
    <2>3. h.heapinfo[b].kind \in Busy /\ g.heapinfo[b].kind \in Busy
      BY <1>a, <1>3, <1>6 DEF Busy
    <2> QED
      BY <1>a, <1>1, <1>6, <2>2, <2>3, Relabelled
  <1>11. \A m \in Log : Kept(h.fraghead[m], g.fraghead[m], b)
    <2> TAKE m \in Log
    <2>1. CASE m = l
      BY <1>a, <1>7, <2>1
    <2>2. CASE m # l
      BY <1>a, <1>1, <1>7, <2>2, KeptSame, ListsDistinct
    <2> QED
      BY <1>a, <2>1, <2>2
  <1>12. \A m \in Log : \A k \in 1 .. Len(g.fraghead[m]) : g.fraghead[m][k][1] = b =>
           /\ g.heapinfo[b].kind = "frags" /\ g.heapinfo[b].log = m
           /\ g.fraghead[m][k][2] \in 0 .. PerBlock[m] - 1
    <2> TAKE m \in Log
    <2>1. CASE m = l
      BY <1>a, <1>3, <1>6, <1>7, <2>1
    <2>2. CASE m # l
      <3>2. \A k \in 1 .. Len(h.fraghead[m]) : h.fraghead[m][k][1] # b
        BY SMTT(20), <1>a, <2>2, FragBlockHas
      <3> QED
        BY <1>a, <1>7, <2>2, <3>2
    <2> QED
      BY <1>a, <2>1, <2>2
  <1>14. /\ g.heapinfo[b].nfree \in 0 .. PerBlock[g.heapinfo[b].log] - 1
         /\ RunOK(g.fraghead[g.heapinfo[b].log], b, g.heapinfo[b].nfree, g.heapinfo[b].first)
    BY <1>a, <1>3, <1>6, <1>7, LogIs
  <1>15. FragsOK(g) /\ \A c \in Block \ {b}, i \in Nat : Used(g, c, i) <=> Used(h, c, i)
    BY ONLY <1>a, <1>1, <1>6, <1>9, <1>11, <1>12, <1>14, FragsChanged
  <1>16. \A i \in Nat : Used(g, b, i) <=> i \in 0 .. PerBlock[l] - 1 /\ ~Holds(list, <<b, i>>)
    BY <1>a, <1>3, <1>6, <1>7 DEF Used
  <1> QED
    BY <1>a, <1>1, <1>6, <1>9, <1>15, <1>16 DEF Books

(* The first fragment of a list comes into use.                            *)
LEMMA PopFragIs ==
  ASSUME NEW h, Books(h), NEW l \in Log, h.fraghead[l] # <<>>
  PROVE  LET p == h.fraghead[l][1]
             g == PopFrag(h, l)
         IN  /\ Books(g) /\ p \in Addr \ InUse(h) /\ InUse(g) = InUse(h) \cup {p}
  <1> DEFINE list == h.fraghead[l]
             p == list[1]
             b == p[1]
             x == p[2]
             info == h.heapinfo[b]
             n == info.nfree
             rest == Tail(list)
             first == IF n - 1 # 0 THEN rest[1][2] ELSE info.first
             g == PopFrag(h, l)
  <1>1. /\ h \in Heap /\ FragsOK(h) /\ h.heapinfo \in [Index -> Info]
        /\ h.fraghead \in [Log -> Seq(Addr)] /\ list \in Seq(Addr) /\ list # <<>>
    BY HeapFields DEF Books, HeapAt
  <1>2. Cut(list, rest, 1, 1) /\ Len(list) >= 1 /\ Len(list) \in Nat
    BY <1>1, TailCut
  <1>3. p \in Addr /\ b \in Block /\ x \in Nat /\ p = <<b, x>> /\ 1 \in 1 .. Len(list)
    BY <1>1, <1>2, SeqIs
  <1>4. info.kind = "frags" /\ info.log = l /\ x \in 0 .. PerBlock[l] - 1
    BY <1>1, <1>3 DEF FragsOK
  <1>5. /\ n \in Nat /\ info.first \in Nat /\ info = Frags(l, n, info.first)
        /\ n <= PerBlock[l] - 1 /\ PerBlock[l] \in Nat /\ Distinct(list)
        /\ RunOK(list, b, n, info.first)
        /\ \A k \in 1 .. Len(list) : list[k][1] = b => list[k][2] \in 0 .. PerBlock[l] - 1
    <2>1. /\ info.log \in Log /\ info.nfree \in Nat /\ info.first \in Nat
          /\ info = Frags(info.log, info.nfree, info.first)
          /\ info.nfree <= PerBlock[info.log] - 1
          /\ PerBlock[info.log] \in Nat
          /\ Distinct(h.fraghead[info.log])
          /\ RunOK(h.fraghead[info.log], b, info.nfree, info.first)
          /\ \A k \in 1 .. Len(h.fraghead[info.log]) :
               h.fraghead[info.log][k][1] = b => h.fraghead[info.log][k][2] \in 0 .. PerBlock[info.log] - 1
      <3> HIDE DEF b
      <3> QED
        BY <1>3, <1>4, FragBlockHas
    <2> HIDE DEF info, b
    <2> QED
      BY <1>4, <2>1
  <1>g. g = [h EXCEPT !.fraghead[l] = rest, !.heapinfo[b].nfree = n - 1,
                      !.heapinfo[b].first = IF n - 1 # 0 THEN rest[1][2] ELSE @]
    BY DEF PopFrag
  <1>l. list = h.fraghead[l] /\ info = h.heapinfo[b] /\ rest \in Seq(Addr) /\ b = p[1]
    BY <1>2 DEF Cut
  <1>m. first = IF n - 1 # 0 THEN rest[1][2] ELSE info.first
    OBVIOUS
  <1>n. p = list[1]
    OBVIOUS
  <1> HIDE DEF p, b, x, info, n, rest, list, g, first
  <1>6. /\ n > 0 /\ n <= Len(list)
        /\ \A j \in 1 .. Len(list) : list[j][1] = b <=> j <= n
    <2>1. PICK k \in 1 .. Len(list) :
            /\ n > 0 /\ k + n - 1 <= Len(list)
            /\ \A j \in 1 .. Len(list) : list[j][1] = b <=> k <= j /\ j <= k + n - 1
      BY <1>3, <1>5, <1>l, <1>n DEF RunOK
    <2>2. k = 1
      BY <1>2, <1>3, <1>l, <1>n, <2>1
    <2> QED
      BY <1>2, <1>5, <2>1, <2>2
  <1>7. Len(rest) = Len(list) - 1 /\ \A j \in 1 .. Len(rest) : rest[j] = list[j + 1]
    BY <1>2 DEF Cut
  <1>8. first \in Nat /\ (n - 1 # 0 => rest[1] = <<b, first>>)
    <2>1. CASE n - 1 # 0
      <3>1. 1 \in 1 .. Len(rest) /\ rest[1] = list[1 + 1] /\ 1 + 1 \in 1 .. Len(list)
        BY <1>2, <1>5, <1>6, <1>7, <2>1
      <3>2. list[1 + 1][1] = b
        BY <1>5, <1>6, <2>1, <3>1
      <3>3. list[1 + 1] = <<list[1 + 1][1], list[1 + 1][2]>> /\ list[1 + 1][2] \in Nat
        BY <1>1, <3>1, SeqIs
      <3> QED
        BY <1>m, <2>1, <3>1, <3>2, <3>3
    <2>2. CASE n - 1 = 0
      BY <1>5, <1>m, <2>2
    <2> QED
      BY <2>1, <2>2
  <1>9. g = [h EXCEPT !.heapinfo = [h.heapinfo EXCEPT ![b] = Frags(l, n - 1, first)],
                      !.fraghead = [h.fraghead EXCEPT ![l] = rest]]
    <2>1. [[info EXCEPT !.nfree = n - 1] EXCEPT !.first = first] = Frags(l, n - 1, first)
      <3> DEFINE f == info.first
      <3>1. info = [kind |-> "frags", log |-> l, nfree |-> n, first |-> f]
        BY <1>5 DEF Frags
      <3> HIDE DEF f
      <3> DEFINE u == [info EXCEPT !.nfree = n - 1]
      <3>2. u = [kind |-> "frags", log |-> l, nfree |-> n - 1, first |-> f]
        BY <3>1
      <3> HIDE DEF u
      <3>3. [u EXCEPT !.first = first] = Frags(l, n - 1, first)
        BY <3>2 DEF Frags
      <3> QED
        BY <3>3 DEF u
    <2>2. b \in Index /\ l \in Log
      BY <1>3, Indices
    <2>3. [info EXCEPT !.nfree = n - 1].first = info.first
      BY <1>5 DEF Frags
    <2>5. g = [h EXCEPT !.fraghead[l] = rest, !.heapinfo[b].nfree = n - 1,
                        !.heapinfo[b].first = first]
      <3>1. CASE n - 1 # 0
        BY <1>g, <1>m, <3>1
      <3>2. CASE n - 1 = 0
        <4>1. first = h.heapinfo[b].first
          BY <1>l, <1>m, <3>2
        <4> QED
          BY <1>1, <1>g, <2>2, <3>2, <4>1 DEF Heap
      <3> QED
        BY <3>1, <3>2
    <2>4. g = [h EXCEPT !.fraghead[l] = rest,
                        !.heapinfo = [h.heapinfo EXCEPT ![b] = [[info EXCEPT !.nfree = n - 1] EXCEPT !.first = first]]]
      BY <1>1, <1>l, <2>2, <2>5 DEF Heap
    <2> QED
      BY <1>1, <2>1, <2>4 DEF Heap
  <1>10. Kept(list, rest, b)
    <2>1. \A j \in Nat : 1 <= j /\ j < 1 + 1 => list[j][1] = b
      BY <1>l, <1>n
    <2>2. 1 + 1 - 1 <= Len(list)
      BY <1>2
    <2> QED
      BY <1>2, <1>5, <2>1, <2>2, KeptCut
  <1>11. RunOK(rest, b, n - 1, first)
    <2>1. \A j \in 1 .. Len(rest) : rest[j][1] = b <=> j <= n - 1
      BY <1>2, <1>5, <1>6, <1>7
    <2>2. CASE n - 1 = 0
      <3>1. \A j \in 1 .. Len(rest) : rest[j][1] # b
        BY <2>1, <2>2
      <3> QED
        BY <2>2, <3>1 DEF RunOK
    <2>3. CASE n - 1 # 0
      <3>1. 1 \in 1 .. Len(rest) /\ 1 + (n - 1) - 1 <= Len(rest) /\ rest[1] = <<b, first>>
        BY <1>2, <1>5, <1>6, <1>7, <1>8, <2>3
      <3>2. \A j \in 1 .. Len(rest) : rest[j][1] = b <=> 1 <= j /\ j <= 1 + (n - 1) - 1
        BY <1>5, <2>1
      <3>3. \E k \in 1 .. Len(rest) :
              /\ k + (n - 1) - 1 <= Len(rest) /\ rest[k] = <<b, first>>
              /\ \A j \in 1 .. Len(rest) : rest[j][1] = b <=> k <= j /\ j <= k + (n - 1) - 1
        <4>1. 1 \in 1 .. Len(rest)
          BY <3>1
        <4> WITNESS 1 \in 1 .. Len(rest)
        <4> QED
          BY <3>1, <3>2
      <3>4. n - 1 > 0
        BY <1>5, <1>6, <2>3
      <3> QED
        BY <3>3, <3>4 DEF RunOK
    <2> QED
      BY <2>2, <2>3
  <1>12. \A k \in 1 .. Len(rest) : rest[k][1] = b => rest[k][2] \in 0 .. PerBlock[l] - 1
    <2> TAKE k \in 1 .. Len(rest)
    <2>1. k + 1 \in 1 .. Len(list) /\ rest[k] = list[k + 1]
      BY <1>2, <1>7
    <2> QED
      BY <1>5, <2>1
  <1>13. n - 1 \in Nat /\ n - 1 <= PerBlock[l] - 1
    BY <1>5, <1>6
  <1>14. /\ Books(g) /\ g \in Heap
         /\ \A c \in Block \ {b}, i \in Nat : Used(g, c, i) <=> Used(h, c, i)
         /\ \A i \in Nat : Used(g, b, i) <=> i \in 0 .. PerBlock[l] - 1 /\ ~Holds(rest, <<b, i>>)
    <2>1. h.heapinfo[b].kind = "frags" /\ h.heapinfo[b].log = l /\ h.fraghead[l] = list
      BY <1>4, <1>l
    <2> DEFINE m == n - 1
               v == Frags(l, m, first)
    <2>2. /\ m \in Nat /\ m <= PerBlock[l] - 1 /\ RunOK(rest, b, m, first)
          /\ Kept(h.fraghead[l], rest, b) /\ b \in Block /\ first \in Nat /\ rest \in Seq(Addr)
      BY <1>3, <1>8, <1>10, <1>11, <1>13, <1>l
    <2>3. g = [h EXCEPT !.heapinfo = [h.heapinfo EXCEPT ![b] = v],
                        !.fraghead = [h.fraghead EXCEPT ![l] = rest]]
      BY <1>9
    <2>4. v \in Info /\ b \in Index
      BY <2>2, FragsAre, Indices
    <2> HIDE DEF m, v
    <2>5. /\ g \in Heap /\ g.heapindex = h.heapindex /\ g.heaplimit = h.heaplimit
          /\ g.heapsize = h.heapsize /\ g.table = h.table /\ g.breakval = h.breakval
          /\ g.heapinfo[b] = v /\ \A c \in Index \ {b} : g.heapinfo[c] = h.heapinfo[c]
          /\ g.fraghead[l] = rest /\ \A c \in Log \ {l} : g.fraghead[c] = h.fraghead[c]
      BY <1>1, <1>l, <2>3, <2>4 DEF Heap
    <2>6. /\ Books(g)
          /\ \A c \in Block \ {b}, i \in Nat : Used(g, c, i) <=> Used(h, c, i)
          /\ \A i \in Nat : Used(g, b, i) <=> i \in 0 .. PerBlock[l] - 1 /\ ~Holds(rest, <<b, i>>)
      <3>1. g.heapinfo[b] = Frags(l, m, first)
        BY <2>5 DEF v
      <3>2. Books(h) /\ l \in Log
        OBVIOUS
      <3>3. Relists(h, g, b, l, m, first, rest)
        BY ONLY <1>12, <2>1, <2>2, <2>5, <3>1, <3>2 DEF Relists
      <3> QED
        BY ONLY <3>2, <3>3, ListChanged
    <2> QED
      BY <2>5, <2>6
  <1>15. \A i \in Nat : Used(h, b, i) <=> i \in 0 .. PerBlock[l] - 1 /\ ~Holds(list, <<b, i>>)
    BY <1>4, <1>l DEF Used
  <1>16. ASSUME NEW i \in Nat PROVE Holds(list, <<b, i>>) <=> Holds(rest, <<b, i>>) \/ i = x
    <2>1. Holds(list, <<b, x>>)
      BY <1>3, <1>n DEF Holds
    <2>2. ASSUME NEW j \in 1 .. Len(rest), rest[j] = <<b, i>> PROVE Holds(list, <<b, i>>)
      <3>1. j + 1 \in 1 .. Len(list) /\ list[j + 1] = <<b, i>>
        BY <1>2, <1>7, <2>2
      <3> QED
        BY <3>1 DEF Holds
    <2>3. ASSUME NEW j \in 1 .. Len(list), list[j] = <<b, i>>, i # x PROVE Holds(rest, <<b, i>>)
      <3>1. j # 1
        BY <1>3, <1>n, <2>3
      <3>2. j - 1 \in 1 .. Len(rest) /\ (j - 1) + 1 = j
        BY <1>2, <1>7, <3>1
      <3>3. rest[j - 1] = <<b, i>>
        BY <1>7, <2>3, <3>2
      <3> QED
        BY <3>2, <3>3 DEF Holds
    <2> QED
      BY <2>1, <2>2, <2>3 DEF Holds
  <1>17. ~Holds(rest, <<b, x>>)
    <2> SUFFICES ASSUME NEW j \in 1 .. Len(rest), rest[j] = <<b, x>> PROVE FALSE
      BY DEF Holds
    <2>1. j + 1 \in 1 .. Len(list) /\ list[j + 1] = list[1] /\ j + 1 # 1
      BY <1>2, <1>3, <1>7, <1>n
    <2> QED
      BY <1>3, <1>5, <2>1 DEF Distinct
  <1>18. \A i \in Nat : Used(g, b, i) <=> Used(h, b, i) \/ i = x
    BY <1>4, <1>14, <1>15, <1>16, <1>17
  <1>19. ~Used(h, b, x)
    BY <1>3, <1>15, <1>16
  <1>20. <<b, x>> \in Addr \ InUse(h) /\ InUse(g) = InUse(h) \cup {<<b, x>>}
    BY <1>1, <1>3, <1>14, <1>18, <1>19, UseAdded
  <1> QED
    BY <1>3, <1>14, <1>20 DEF g, p, list

(* An allocation of blocks, in the same words.                             *)
LEMMA AllocateIs ==
  ASSUME NEW h, Books(h), NEW n \in Nat, n >= 1
  PROVE  LET r == AllocBlocks(h, n)
             g == r.heap
             b == r.block
         IN  IF b = 0 THEN g = h
             ELSE /\ Books(g) /\ b \in Block /\ g.heapinfo[b] = Large(n)
                  /\ g.fraghead = h.fraghead /\ h \in Heap /\ g \in Heap
                  /\ \A c \in Block \ {b}, i \in Nat : Used(g, c, i) <=> Used(h, c, i)
                  /\ \A i \in Nat : (Used(g, b, i) <=> i = 0) /\ ~Used(h, b, i)
  <1> DEFINE r == AllocBlocks(h, n)
  <1>1. IF r.block = 0 THEN r = NoCore(h) ELSE Obtains(h, r.heap, r.block, n)
    BY AllocBlocksIs DEF Books
  <1> HIDE DEF r
  <1>2. CASE r.block = 0
    <2>1. r.heap = h
      BY <1>1, <1>2 DEF NoCore
    <2> QED
      BY <1>2, <2>1 DEF r
  <1>3. CASE r.block # 0
    <2>1. Obtains(h, r.heap, r.block, n)
      BY <1>1, <1>3
    <2>2. /\ Books(r.heap) /\ r.block \in Block /\ h \in Heap /\ r.heap \in Heap
          /\ \A c \in Block \ {r.block}, i \in Nat : Used(r.heap, c, i) <=> Used(h, c, i)
          /\ \A i \in Nat : (Used(r.heap, r.block, i) <=> i = 0) /\ ~Used(h, r.block, i)
      BY <2>1, LargeAllocated
    <2>3. r.heap.heapinfo[r.block] = Large(n) /\ r.heap.fraghead = h.fraghead
      BY <2>1 DEF Obtains
    <2> QED
      BY <1>3, <2>2, <2>3 DEF r
  <1> QED
    BY <1>2, <1>3

(* What callers get.                                                       *)
Gets(h, r) ==
  /\ Books(r.heap)
  /\ \/ r.ptr = NULL /\ InUse(r.heap) = InUse(h)
     \/ r.ptr \in Addr \ InUse(h) /\ InUse(r.heap) = InUse(h) \cup {r.ptr}

(* What a request for blocks gets, ...                                     *)
LEMMA AllocLargeIs ==
  ASSUME NEW h, Books(h), NEW n \in Nat, n >= 1
  PROVE  Gets(h, AllocLarge(AllocBlocks(h, n)))
  <1> DEFINE a == AllocBlocks(h, n)
             r == AllocLarge(a)
  <1>1. IF a.block = 0 THEN a.heap = h
        ELSE /\ Books(a.heap) /\ a.block \in Block /\ h \in Heap /\ a.heap \in Heap
             /\ \A c \in Block \ {a.block}, i \in Nat : Used(a.heap, c, i) <=> Used(h, c, i)
             /\ \A i \in Nat : (Used(a.heap, a.block, i) <=> i = 0) /\ ~Used(h, a.block, i)
    BY AllocateIs
  <1> HIDE DEF a
  <1>2. r.heap = a.heap /\ r.ptr = <<a.block, 0>>
    BY DEF AllocLarge
  <1> HIDE DEF r
  <1>3. CASE a.block = 0
    BY <1>1, <1>2, <1>3 DEF NULL, Gets, a, r
  <1>4. CASE a.block # 0
    <2>1. <<a.block, 0>> \in Addr \ InUse(h) /\ InUse(a.heap) = InUse(h) \cup {<<a.block, 0>>}
      BY <1>1, <1>4, UseAdded
    <2> QED
      BY <1>1, <1>2, <1>4, <2>1 DEF Gets, a, r
  <1> QED
    BY <1>3, <1>4

(* ... and one for a fragment when the list is empty.                      *)
LEMMA BrokenUpGets ==
  ASSUME NEW h, Books(h), NEW l \in Log, h.fraghead[l] = <<>>
  PROVE  Gets(h, BrokenUp(AllocBlocks(h, 1), l))
  <1> DEFINE a == AllocBlocks(h, 1)
             r == BrokenUp(a, l)
  <1>1. IF a.block = 0 THEN a.heap = h
        ELSE /\ Books(a.heap) /\ a.block \in Block /\ a.heap.heapinfo[a.block] = Large(1)
             /\ a.heap.fraghead = h.fraghead /\ h \in Heap /\ a.heap \in Heap
             /\ \A c \in Block \ {a.block}, i \in Nat : Used(a.heap, c, i) <=> Used(h, c, i)
             /\ \A i \in Nat : (Used(a.heap, a.block, i) <=> i = 0) /\ ~Used(h, a.block, i)
    BY AllocateIs
  <1> HIDE DEF a
  <1>2. CASE a.block = 0
    <2>1. r.heap = h /\ r.ptr = NULL
      BY <1>1, <1>2 DEF BrokenUp
    <2> HIDE DEF r
    <2> QED
      BY <2>1 DEF Gets, a, r
  <1>3. CASE a.block # 0
    <2> DEFINE b == a.block
               k == a.heap
               g == [k EXCEPT !.heapinfo[b] = Frags(l, PerBlock[l] - 1, PerBlock[l] - 1),
                              !.fraghead[l] = FirstFrags(b, l)]
    <2>1. r.heap = g /\ r.ptr = <<b, 0>>
      BY <1>3 DEF BrokenUp
    <2>2. Books(k) /\ b \in Block /\ k.heapinfo[b] = Large(1) /\ k.fraghead[l] = <<>> /\ h \in Heap
      BY <1>1, <1>3
    <2>3. /\ \A c \in Block \ {b}, i \in Nat : Used(k, c, i) <=> Used(h, c, i)
          /\ \A i \in Nat : ~Used(h, b, i)
      BY <1>1, <1>3
    <2> HIDE DEF b, k
    <2>4. /\ Books(g) /\ g \in Heap
          /\ \A c \in Block \ {b}, i \in Nat : Used(g, c, i) <=> Used(k, c, i)
          /\ \A i \in Nat : Used(g, b, i) <=> i = 0
      BY <2>2, BrokenUpIs
    <2> HIDE DEF g, r
    <2>5. <<b, 0>> \in Addr \ InUse(h) /\ InUse(g) = InUse(h) \cup {<<b, 0>>}
      BY <2>2, <2>3, <2>4, UseAdded
    <2> QED
      BY <2>1, <2>4, <2>5 DEF Gets, a, r
  <1> QED
    BY <1>2, <1>3

(* umalloc serves every request, and leaves the books right.               *)
THEOREM UmallocIs ==
  ASSUME NEW h, Books(h), NEW req \in Request
  PROVE  Gets(h, umalloc(h, req))
  <1>1. CASE req.log = 0
    <2>1. req.blocks \in Nat /\ req.blocks >= 1
      <3>1. \A n \in Sizes : n \in Nat /\ n >= 1
        BY UmallocAssumption
      <3>2. req.blocks = 1 \/ req.blocks \in Sizes
        BY DEF Request
      <3> QED
        BY <3>1, <3>2
    <2> QED
      BY <1>1, <2>1, AllocLargeIs DEF umalloc
  <1>2. CASE req.log # 0
    <2> DEFINE l == req.log
    <2>1. l \in Log /\ umalloc(h, req) = AllocFrag(h, l)
      BY <1>2 DEF Request, umalloc
    <2> HIDE DEF l
    <2>2. CASE h.fraghead[l] = <<>>
      BY <2>1, <2>2, BrokenUpGets DEF AllocFrag
    <2>3. CASE h.fraghead[l] # <<>>
      <3> DEFINE r == AllocFrag(h, l)
      <3>1. r.heap = PopFrag(h, l) /\ r.ptr = h.fraghead[l][1]
        BY <2>3 DEF AllocFrag
      <3> HIDE DEF r
      <3>2. Gets(h, r)
        BY <2>1, <2>3, <3>1, PopFragIs DEF Gets
      <3> QED
        BY <2>1, <3>2 DEF r
    <2> QED
      BY <2>2, <2>3
  <1> QED
    BY <1>1, <1>2

(* A large cluster that is freed goes out of use, and no other.            *)
LEMMA LargeFreed ==
  ASSUME NEW h, Books(h), NEW b \in Block, h.heapinfo[b].kind = "large"
  PROVE  LET r == FreeBlocks(h, b) IN
         /\ Books(r) /\ r \in Heap /\ h \in Heap
         /\ \A c \in Block \ {b}, i \in Nat : Used(r, c, i) <=> Used(h, c, i)
         /\ \A i \in Nat : ~Used(r, b, i)
  <1> DEFINE r == FreeBlocks(h, b)
             new == r.heapinfo
             info == h.heapinfo
             top == h.heaplimit
             T == h.table
             TB == TableBlocks(h.heapsize)
  <1>1. /\ h \in Heap /\ top \in Nat /\ top <= Top + 1 /\ LinksOK(info) /\ SpansOK(info, top)
        /\ h.heapindex \in ListIn(info) /\ FragsOK(h) /\ Top \in Nat
        /\ h.breakval \in Nat /\ h.heapsize \in Nat \ {0} /\ top <= h.breakval
        /\ h.breakval <= Top + 1 /\ top <= h.heapsize
        /\ T \in Nat /\ TB \in Nat /\ TB >= 1 /\ T + TB <= h.breakval
        /\ T + TB <= top \/ top <= T
    BY HeapAtHas DEF Books
  <1>2. /\ \A x \in Nat : x >= 1 /\ x < h.breakval => x \in Covered(info) \/ (T <= x /\ x < T + TB)
        /\ \A x \in Nat : T <= x /\ x < T + TB => x \notin Covered(info)
    <2>1. \A x \in Nat : x >= 1 /\ x < h.breakval => x \in Covered(info) \/ (T <= x /\ x < T + TB)
      <3> TAKE x \in Nat
      <3>1. ~(top <= x /\ x < top)
        BY <1>1
      <3> QED
        BY <3>1, HeapAtHas DEF Books
    <2> QED
      BY <2>1, HeapAtHas DEF Books
  <1>3. /\ r \in Heap /\ r.heapsize = h.heapsize /\ r.table = h.table
        /\ r.fraghead = h.fraghead
        /\ LinksOK(new) /\ r.heapindex \in ListIn(new)
        /\ new[b].kind \notin Busy
        /\ \A c \in Block \ {b} : IF info[c].kind \in Busy THEN new[c] = info[c]
                                  ELSE new[c].kind \notin Busy
        /\ \/ /\ r.heaplimit = h.heaplimit /\ r.breakval = h.breakval
              /\ SpansOK(new, top) /\ Covered(new) = Covered(info)
           \/ /\ h.heaplimit = top /\ h.breakval = top
              /\ r.heaplimit = r.breakval /\ r.breakval < top /\ SpansOK(new, r.breakval)
              /\ \A x \in Nat : x \in Covered(new) <=> x \in Covered(info) /\ x < r.breakval
              /\ \A x \in Nat : r.breakval <= x /\ x < top => x \in Covered(info)
    <2>1. top <= h.heaplimit
      BY <1>1
    <2> QED
      BY <1>1, <2>1, FreeBlocksHas
  <1> HIDE DEF r, new, info, top, T, TB
  <1>4. HeapAt(r, r.heaplimit)
    <2>0. /\ r.heapinfo = new /\ TableBlocks(r.heapsize) = TB /\ r.table = T /\ h.heaplimit = top
          /\ r.breakval \in Nat
      BY <1>3, HeapFields DEF new, TB, T, top
    <2>1. CASE /\ r.heaplimit = h.heaplimit /\ r.breakval = h.breakval
               /\ SpansOK(new, top) /\ Covered(new) = Covered(info)
      BY <1>1, <1>2, <1>3, <2>0, <2>1, HeapAtFrom
    <2>2. CASE /\ h.heaplimit = top /\ h.breakval = top
               /\ r.heaplimit = r.breakval /\ r.breakval < top /\ SpansOK(new, r.breakval)
               /\ \A x \in Nat : x \in Covered(new) <=> x \in Covered(info) /\ x < r.breakval
               /\ \A x \in Nat : r.breakval <= x /\ x < top => x \in Covered(info)
      <3>1. T + TB <= r.breakval
        <4> SUFFICES ASSUME ~(T + TB <= r.breakval) PROVE FALSE
          OBVIOUS
        <4>1. T + TB - 1 \in Nat /\ T <= T + TB - 1 /\ T + TB - 1 < T + TB /\ r.breakval <= T + TB - 1
              /\ T + TB - 1 < top
          BY <1>1, <2>0, <2>2
        <4> QED
          BY <1>2, <2>2, <4>1
      <3>2. /\ r.breakval <= Top + 1 /\ r.breakval <= r.heapsize
        BY <1>1, <1>3, <2>0, <2>2
      <3>3. \A x \in Nat : x >= 1 /\ x < r.breakval => x \in Covered(new) \/ (T <= x /\ x < T + TB)
        BY <1>1, <1>2, <2>0, <2>2
      <3>4. \A x \in Nat : T <= x /\ x < T + TB => x \notin Covered(new)
        BY <1>2, <2>2
      <3> QED
        BY <1>3, <2>0, <2>2, <3>1, <3>2, <3>3, <3>4, HeapAtFrom
    <2> QED
      BY <1>3, <2>1, <2>2
  <1>5. Busier(h.heapinfo, r.heapinfo, b)
    BY <1>3 DEF Busier, info, new
  <1>6. FragsOK(r) /\ \A c \in Block \ {b}, i \in Nat : Used(r, c, i) <=> Used(h, c, i)
    <2>1. r.heapinfo[b].kind # "frags" /\ h.heapinfo[b].kind # "frags"
      BY <1>3 DEF new, Busy
    <2> QED
      BY <1>1, <1>3, <1>5, <2>1, FragsSame
  <1>7. \A i \in Nat : ~Used(r, b, i)
    BY <1>3 DEF new, Busy, Used
  <1> QED
    BY <1>1, <1>3, <1>4, <1>6, <1>7 DEF Books, r

(* Of a block with all fragments but one free, that one is in use.         *)
LEMMA AllOthersFree ==
  ASSUME NEW list \in Seq(Addr), Distinct(list), NEW b \in Block, NEW n \in Nat, n >= 1,
         NEW first \in Nat, RunOK(list, b, n, first),
         \A k \in 1 .. Len(list) : list[k][1] = b => list[k][2] \in 0 .. n,
         NEW i \in 0 .. n, NEW j \in 0 .. n, i # j
  PROVE  Holds(list, <<b, i>>) \/ Holds(list, <<b, j>>)
  <1> SUFFICES ASSUME ~Holds(list, <<b, i>>), ~Holds(list, <<b, j>>) PROVE FALSE
    OBVIOUS
  <1> DEFINE A == 0 .. n
             T == (A \ {i}) \ {j}
             S == 1 .. n
  <1>1. PICK k \in 1 .. Len(list) :
          /\ k + n - 1 <= Len(list) /\ list[k] = <<b, first>>
          /\ \A m \in 1 .. Len(list) : list[m][1] = b <=> k <= m /\ m <= k + n - 1
    BY DEF RunOK
  <1> DEFINE f == [m \in S |-> list[k + m - 1][2]]
  <1>2. \A m \in S : k + m - 1 \in 1 .. Len(list) /\ list[k + m - 1][1] = b
    <2> TAKE m \in S
    <2>1. k + m - 1 \in 1 .. Len(list) /\ k <= k + m - 1 /\ k + m - 1 <= k + n - 1
      BY <1>1, SeqIs
    <2> QED
      BY <1>1, <2>1
  <1>3. \A m \in S : list[k + m - 1] = <<b, list[k + m - 1][2]>>
    BY <1>2, SeqIs
  <1>4. \A m \in S : list[k + m - 1][2] \in T
    BY <1>2, <1>3 DEF Holds
  <1>5. f \in [S -> T]
    BY <1>4
  <1>6. IsFiniteSet(A) /\ Cardinality(A) = n + 1
    BY FS_Interval
  <1>7. IsFiniteSet(A \ {i}) /\ Cardinality(A \ {i}) = n
    <2>1. i \in A
      OBVIOUS
    <2> HIDE DEF A
    <2>2. IsFiniteSet(A \ {i}) /\ Cardinality(A \ {i}) = (n + 1) - 1
      BY <1>6, <2>1, FS_RemoveElement
    <2> QED
      BY <2>2
  <1>8. IsFiniteSet(T) /\ Cardinality(T) = n - 1
    <2>1. j \in A \ {i}
      OBVIOUS
    <2> QED
      BY ZenonT(30), <1>7, <2>1, FS_RemoveElement
  <1>9. IsFiniteSet(S) /\ Cardinality(S) = n
    BY FS_Interval
  <1>10. Cardinality(T) < Cardinality(S)
    BY <1>8, <1>9
  <1> HIDE DEF T, f
  <1>11. \E x, y \in S : x # y /\ f[x] = f[y]
    <2> HIDE DEF S
    <2> QED
      BY <1>5, <1>8, <1>9, <1>10, FS_PigeonHole
  <1>12. PICK x \in S, y \in S : x # y /\ f[x] = f[y]
    BY <1>11
  <1>13. list[k + x - 1] = list[k + y - 1]
    BY <1>3, <1>12 DEF f
  <1>14. k + x - 1 = k + y - 1
    BY <1>2, <1>13 DEF Distinct
  <1> QED
    BY <1>12, <1>14

(* The run of b's free fragments starts where FreeFrag looks for it.       *)
LEMMA PositionIs ==
  ASSUME NEW list \in Seq(Addr), Distinct(list), NEW b, NEW n \in Nat, n # 0, NEW first,
         RunOK(list, b, n, first)
  PROVE  LET k == Position(list, <<b, first>>) IN
         /\ k \in 1 .. Len(list) /\ k + n - 1 <= Len(list) /\ list[k] = <<b, first>>
         /\ \A j \in 1 .. Len(list) : list[j][1] = b <=> k <= j /\ j <= k + n - 1
  <1>1. PICK k \in 1 .. Len(list) :
          /\ k + n - 1 <= Len(list) /\ list[k] = <<b, first>>
          /\ \A m \in 1 .. Len(list) : list[m][1] = b <=> k <= m /\ m <= k + n - 1
    BY DEF RunOK
  <1>2. Position(list, <<b, first>>) = k
    BY <1>1 DEF Position, Distinct
  <1> QED
    BY <1>1, <1>2

(* The last fragment in use of a block is freed: first the block becomes a *)
(* large cluster of its own.                                               *)
LEMMA LastFragFreed ==
  ASSUME NEW h, Books(h), NEW b \in Block, h.heapinfo[b].kind = "frags",
         NEW x \in Nat, Used(h, b, x), OthersFree(h.heapinfo[b])
  PROVE  LET r == FreeFrag(h, <<b, x>>) IN
         /\ Books(r) /\ InUse(r) = InUse(h) \ {<<b, x>>}
  <1> DEFINE info == h.heapinfo[b]
             l == info.log
             n == info.nfree
             list == h.fraghead[l]
             k == Position(list, <<b, info.first>>)
             new == SubSeq(list, 1, k - 1) \o SubSeq(list, k + n, Len(list))
             e == [h EXCEPT !.fraghead[l] = new, !.heapinfo[b] = Large(1)]
             r == FreeFrag(h, <<b, x>>)
  <1>1. /\ h \in Heap /\ FragsOK(h) /\ h.heapinfo \in [Index -> Info]
        /\ h.fraghead \in [Log -> Seq(Addr)] /\ HeapAt(h, h.heaplimit) /\ b \in Index
    BY HeapFields, Indices DEF Books, HeapAt
  <1>2. /\ l \in Log /\ n \in Nat /\ info.first \in Nat
        /\ PerBlock[l] \in Nat /\ PerBlock[l] >= 2
        /\ list \in Seq(Addr) /\ Distinct(list) /\ RunOK(list, b, n, info.first)
        /\ \A j \in 1 .. Len(list) : list[j][1] = b => list[j][2] \in 0 .. PerBlock[l] - 1
        /\ \A m \in Log : m # l =>
             \A j \in 1 .. Len(h.fraghead[m]) : h.fraghead[m][j][1] # b
    BY FragBlockHas
  <1>3. n = PerBlock[l] - 1 /\ n >= 1
    <2>1. n = PerBlock[l] - 1
      BY DEF OthersFree
    <2> HIDE DEF n, l
    <2> QED
      BY <1>2, <2>1
  <1>4. r = FreeBlocks(e, b)
    BY DEF FreeFrag
  <1>u. Used(h, b, x) /\ \A i \in Nat : Used(h, b, i) <=> i \in 0 .. PerBlock[l] - 1 /\ ~Holds(list, <<b, i>>)
    BY DEF Used
  <1>i. info = h.heapinfo[b] /\ list = h.fraghead[l] /\ info.kind = "frags" /\ info.log = l
    OBVIOUS
  <1>p. k = Position(list, <<b, info.first>>)
    OBVIOUS
  <1> HIDE DEF info, l, n, list, k
  <1>5. /\ k \in 1 .. Len(list) /\ k + n - 1 <= Len(list)
        /\ \A j \in 1 .. Len(list) : list[j][1] = b <=> k <= j /\ j <= k + n - 1
    <2> DEFINE first == info.first
    <2>1. /\ list \in Seq(Addr) /\ Distinct(list) /\ n \in Nat /\ n # 0
          /\ RunOK(list, b, n, first) /\ k = Position(list, <<b, first>>)
      BY <1>2, <1>3, <1>p
    <2> HIDE DEF first
    <2> DEFINE q == Position(list, <<b, first>>)
    <2>2. /\ q \in 1 .. Len(list) /\ q + n - 1 <= Len(list)
          /\ \A j \in 1 .. Len(list) : list[j][1] = b <=> q <= j /\ j <= q + n - 1
      BY <2>1, PositionIs
    <2>3. k = q
      BY <2>1
    <2> HIDE DEF q
    <2> QED
      BY <2>2, <2>3
  <1>6. Cut(list, new, k, n) /\ k \in Nat /\ k >= 1 /\ new \in Seq(Addr) /\ Len(list) \in Nat
    <2>1. k \in Nat /\ k >= 1 /\ Len(list) \in Nat
      BY <1>2, <1>5, SeqIs
    <2>2. Cut(list, new, k, n)
      BY <1>2, <1>3, <1>5, <2>1, CutOut
    <2> QED
      BY <2>1, <2>2 DEF Cut
  <1>e. e = [h EXCEPT !.fraghead[l] = new, !.heapinfo[b] = Large(1)]
    OBVIOUS
  <1> HIDE DEF new, r
  <1>7. /\ e \in Heap /\ e.heapindex = h.heapindex /\ e.heaplimit = h.heaplimit
        /\ e.heapsize = h.heapsize /\ e.table = h.table /\ e.breakval = h.breakval
        /\ e.heapinfo[b] = Large(1) /\ \A c \in Index \ {b} : e.heapinfo[c] = h.heapinfo[c]
        /\ e.fraghead[l] = new /\ \A m \in Log \ {l} : e.fraghead[m] = h.fraghead[m]
    <2> DEFINE v == Large(1)
    <2>1. v \in Info
      BY LargeIs
    <2>2. e = [h EXCEPT !.fraghead[l] = new, !.heapinfo[b] = v]
      BY <1>e
    <2> HIDE DEF v
    <2>3. /\ e \in Heap /\ e.heapindex = h.heapindex /\ e.heaplimit = h.heaplimit
          /\ e.heapsize = h.heapsize /\ e.table = h.table /\ e.breakval = h.breakval
          /\ e.heapinfo[b] = v /\ \A c \in Index \ {b} : e.heapinfo[c] = h.heapinfo[c]
          /\ e.fraghead[l] = new /\ \A m \in Log \ {l} : e.fraghead[m] = h.fraghead[m]
      <3>1. e = [h EXCEPT !.heapinfo = [h.heapinfo EXCEPT ![b] = v],
                          !.fraghead = [h.fraghead EXCEPT ![l] = new]]
        BY <1>1, <2>2 DEF Heap
      <3>2. [h.heapinfo EXCEPT ![b] = v] \in [Index -> Info]
        BY <1>1, <2>1
      <3>3. [h.fraghead EXCEPT ![l] = new] \in [Log -> Seq(Addr)]
        BY <1>1, <1>6
      <3>4. e \in Heap
        BY <1>1, <3>1, <3>2, <3>3 DEF Heap
      <3>5. /\ e.heapindex = h.heapindex /\ e.heaplimit = h.heaplimit
            /\ e.heapsize = h.heapsize /\ e.table = h.table /\ e.breakval = h.breakval
            /\ e.heapinfo = [h.heapinfo EXCEPT ![b] = v]
            /\ e.fraghead = [h.fraghead EXCEPT ![l] = new]
        BY <1>1, <3>1 DEF Heap
      <3> QED
        BY <1>1, <1>2, <3>4, <3>5
    <2> QED
      BY <2>3 DEF v
  <1> HIDE DEF e
  <1>8. e.heapinfo[b].kind = "large" /\ e.heapinfo[b].size = 1
    BY <1>7, LargeIs
  <1>9. HeapAt(e, e.heaplimit) /\ Busier(h.heapinfo, e.heapinfo, b)
    <2>2. Size(h.heapinfo, b) = 1 /\ Size(e.heapinfo, b) = 1
      BY <1>8, <1>i DEF Size
    <2>3. h.heapinfo[b].kind \in Busy /\ e.heapinfo[b].kind \in Busy
      BY <1>8, <1>i DEF Busy
    <2> QED
      BY <1>1, <1>7, <2>2, <2>3, Relabelled
  <1>10. \A j \in 1 .. Len(new) : new[j][1] # b
    <2> TAKE j \in 1 .. Len(new)
    <2>0. Len(new) = Len(list) - n /\ new[j] = IF j < k THEN list[j] ELSE list[j + n]
      BY <1>6 DEF Cut
    <2>1. CASE j < k
      BY <1>2, <1>5, <1>6, <2>0, <2>1
    <2>2. CASE ~(j < k)
      <3>1. j + n \in 1 .. Len(list) /\ ~(j + n <= k + n - 1)
        BY SMTT(20), <1>2, <1>6, <2>0, <2>2
      <3> QED
        BY <1>5, <2>0, <2>2, <3>1
    <2> QED
      BY <2>1, <2>2
  <1>11. Kept(list, new, b)
    <2>1. \A j \in Nat : k <= j /\ j < k + n => list[j][1] = b
      <3> TAKE j \in Nat
      <3> HAVE k <= j /\ j < k + n
      <3>1. j \in 1 .. Len(list) /\ j <= k + n - 1
        BY <1>2, <1>5, <1>6
      <3> QED
        BY <1>5, <3>1
    <2> QED
      BY <1>2, <1>3, <1>5, <1>6, <2>1, KeptCut
  <1>12. \A m \in Log : Kept(h.fraghead[m], e.fraghead[m], b)
    <2> TAKE m \in Log
    <2>1. CASE m = l
      BY <1>7, <1>11, <1>i, <2>1
    <2>2. CASE m # l
      BY <1>1, <1>7, <2>2, KeptSame, ListsDistinct
    <2> QED
      BY <2>1, <2>2
  <1>13. \A m \in Log : \A j \in 1 .. Len(e.fraghead[m]) : e.fraghead[m][j][1] # b
    <2> TAKE m \in Log
    <2>1. CASE m = l
      BY <1>7, <1>10, <2>1
    <2>2. CASE m # l
      <3>1. \A j \in 1 .. Len(h.fraghead[m]) : h.fraghead[m][j][1] # b
        BY <1>2, <2>2
      <3> QED
        BY <1>7, <2>2, <3>1
    <2> QED
      BY <2>1, <2>2
  <1>14. FragsOK(e) /\ \A c \in Block \ {b}, i \in Nat : Used(e, c, i) <=> Used(h, c, i)
    <2>1. e.heapinfo[b].kind # "frags"
      BY <1>8
    <2> QED
      BY ONLY b \in Block, <1>1, <1>7, <1>9, <1>12, <1>13, <2>1, FragsChanged
  <1>15. Books(e)
    BY <1>9, <1>14 DEF Books
  <1>16. /\ Books(r) /\ r \in Heap
         /\ \A c \in Block \ {b}, i \in Nat : Used(r, c, i) <=> Used(e, c, i)
         /\ \A i \in Nat : ~Used(r, b, i)
    BY <1>4, <1>8, <1>15, LargeFreed
  <1>17. \A i \in Nat : Used(h, b, i) => i = x
    <2> SUFFICES ASSUME NEW i \in Nat, Used(h, b, i), i # x PROVE FALSE
      OBVIOUS
    <2>1. /\ i \in 0 .. n /\ x \in 0 .. n
          /\ ~Holds(list, <<b, i>>) /\ ~Holds(list, <<b, x>>)
      BY <1>3, <1>u
    <2>2. \A j \in 1 .. Len(list) : list[j][1] = b => list[j][2] \in 0 .. n
      BY <1>2, <1>3
    <2> QED
      BY <1>2, <1>3, <2>1, <2>2, AllOthersFree
  <1>18. \A i \in Nat : Used(r, b, i) <=> Used(h, b, i) /\ i # x
    BY <1>16, <1>17
  <1>19. \A c \in Block \ {b}, i \in Nat : Used(r, c, i) <=> Used(h, c, i)
    BY <1>14, <1>16
  <1>h. h \in Heap /\ r \in Heap
    BY <1>1, <1>16
  <1>20. InUse(r) = InUse(h) \ {<<b, x>>}
    BY ONLY b \in Block, x \in Nat, <1>h, <1>18, <1>19, UseRemoved
  <1> QED
    BY <1>16, <1>20 DEF r

(* A list with p put into it holds p too.                                  *)
LEMMA PutHolds ==
  ASSUME NEW list, NEW new, NEW k \in Nat, NEW p, Put(list, new, k, p), k <= Len(list)
  PROVE  \A q : Holds(new, q) <=> Holds(list, q) \/ q = p
  <1>1. /\ Len(list) \in Nat /\ Len(new) = Len(list) + 1
        /\ \A j \in 1 .. Len(new) : new[j] = IF j <= k THEN list[j]
                                             ELSE IF j = k + 1 THEN p ELSE list[j - 1]
    BY SeqIs DEF Put
  <1> TAKE q
  <1>2. ASSUME NEW j \in 1 .. Len(new), new[j] = q, q # p PROVE Holds(list, q)
    <2>1. CASE j <= k
      BY <1>1, <1>2, <2>1 DEF Holds
    <2>2. CASE j > k
      <3>1. j - 1 \in 1 .. Len(list) /\ list[j - 1] = q
        BY <1>1, <1>2, <2>2
      <3> QED
        BY <3>1 DEF Holds
    <2> QED
      BY <1>1, <2>1, <2>2
  <1>3. ASSUME NEW j \in 1 .. Len(list), list[j] = q PROVE Holds(new, q)
    <2>1. CASE j <= k
      BY <1>1, <1>3, <2>1 DEF Holds
    <2>2. CASE j > k
      <3>1. j + 1 \in 1 .. Len(new) /\ ~(j + 1 <= k) /\ j + 1 # k + 1 /\ (j + 1) - 1 = j
        BY <1>1, <2>2
      <3>2. new[j + 1] = q
        BY <1>1, <1>3, <3>1
      <3> QED
        BY <3>1, <3>2 DEF Holds
    <2> QED
      BY <1>1, <2>1, <2>2
  <1>4. Holds(new, p)
    <2>1. k + 1 \in 1 .. Len(new) /\ new[k + 1] = p
      BY <1>1
    <2> QED
      BY <2>1 DEF Holds
  <1> QED
    BY <1>2, <1>3, <1>4 DEF Holds

(* The fragment x of b is put into its list, which becomes new.            *)
Puts(h, g, b, x, l, n, first, list, new, k) ==
  /\ b \in Block /\ h.heapinfo[b].kind = "frags" /\ l = h.heapinfo[b].log /\ l \in Log
  /\ x \in Nat /\ Used(h, b, x) /\ list \in Seq(Addr) /\ list = h.fraghead[l]
  /\ k \in Nat /\ k <= Len(list) /\ Put(list, new, k, <<b, x>>) /\ (k = 0 \/ list[k][1] = b)
  /\ n \in Nat /\ n <= PerBlock[l] - 1 /\ first \in Nat /\ RunOK(new, b, n, first)
  /\ g = [h EXCEPT !.heapinfo = [h.heapinfo EXCEPT ![b] = Frags(l, n, first)],
                   !.fraghead = [h.fraghead EXCEPT ![l] = new]]

(* That takes the fragment, and no other, out of use.                      *)
LEMMA FragPut ==
  ASSUME NEW h, Books(h), NEW g, NEW b, NEW x, NEW l, NEW n, NEW first, NEW list, NEW new, NEW k,
         Puts(h, g, b, x, l, n, first, list, new, k)
  PROVE  Books(g) /\ InUse(g) = InUse(h) \ {<<b, x>>}
  <1>p. /\ b \in Block /\ h.heapinfo[b].kind = "frags" /\ l = h.heapinfo[b].log /\ l \in Log
        /\ x \in Nat /\ Used(h, b, x) /\ list \in Seq(Addr) /\ list = h.fraghead[l]
        /\ k \in Nat /\ k <= Len(list) /\ Put(list, new, k, <<b, x>>) /\ (k = 0 \/ list[k][1] = b)
        /\ n \in Nat /\ n <= PerBlock[l] - 1 /\ first \in Nat /\ RunOK(new, b, n, first)
    BY DEF Puts
  <1> DEFINE v == Frags(l, n, first)
             info == [h.heapinfo EXCEPT ![b] = v]
             head == [h.fraghead EXCEPT ![l] = new]
  <1>1. /\ h \in Heap /\ h.heapinfo \in [Index -> Info] /\ b \in Index
        /\ h.fraghead \in [Log -> Seq(Addr)]
    BY <1>p, HeapFields, Indices DEF Books, HeapAt
  <1>2. v \in Info /\ new \in Seq(Addr)
    BY <1>p, FragsAre DEF Put
  <1>3. info \in [Index -> Info] /\ head \in [Log -> Seq(Addr)]
    <2> HIDE DEF v
    <2> QED
      BY <1>p, <1>1, <1>2
  <1>4. /\ info[b] = v /\ \A c \in Index \ {b} : info[c] = h.heapinfo[c]
        /\ head[l] = new /\ \A m \in Log \ {l} : head[m] = h.fraghead[m]
    BY <1>p, <1>1
  <1>5. g = [h EXCEPT !.heapinfo = info, !.fraghead = head]
    BY DEF Puts
  <1>v. v = Frags(l, n, first)
    OBVIOUS
  <1> HIDE DEF v, info, head
  <1>6. g \in Heap
    BY <1>p, <1>1, <1>3, <1>5 DEF Heap
  <1>7. /\ g.heapindex = h.heapindex /\ g.heaplimit = h.heaplimit
        /\ g.heapsize = h.heapsize /\ g.table = h.table /\ g.breakval = h.breakval
        /\ g.heapinfo = info /\ g.fraghead = head
    BY <1>p, <1>1, <1>5 DEF Heap
  <1>8. /\ PerBlock[l] \in Nat /\ Distinct(list)
        /\ \A j \in 1 .. Len(list) : list[j][1] = b => list[j][2] \in 0 .. PerBlock[l] - 1
    <2>1. /\ PerBlock[h.heapinfo[b].log] \in Nat /\ Distinct(h.fraghead[h.heapinfo[b].log])
          /\ \A j \in 1 .. Len(h.fraghead[h.heapinfo[b].log]) :
               h.fraghead[h.heapinfo[b].log][j][1] = b =>
                 h.fraghead[h.heapinfo[b].log][j][2] \in 0 .. PerBlock[h.heapinfo[b].log] - 1
      BY <1>p, FragBlockHas
    <2> QED
      BY <1>p, <2>1
  <1>9. /\ x \in 0 .. PerBlock[l] - 1 /\ ~Holds(list, <<b, x>>)
        /\ \A i \in Nat : Used(h, b, i) <=> i \in 0 .. PerBlock[l] - 1 /\ ~Holds(list, <<b, i>>)
    BY <1>p DEF Used
  <1>10. Kept(list, new, b)
    <2>1. <<b, x>> \in Addr /\ <<b, x>>[1] = b
      BY <1>p DEF Addr
    <2> QED
      BY <1>p, <1>8, <1>9, <2>1, KeptPut
  <1>11. \A j \in 1 .. Len(new) : new[j][1] = b => new[j][2] \in 0 .. PerBlock[l] - 1
    <2> TAKE j \in 1 .. Len(new)
    <2> HAVE new[j][1] = b
    <2>1. Holds(new, new[j])
      BY <1>p DEF Holds
    <2>2. Holds(list, new[j]) \/ new[j] = <<b, x>>
      BY SMTT(20), <1>p, <2>1, PutHolds
    <2>3. CASE new[j] = <<b, x>>
      BY SMTT(20), <1>p, <1>9, <2>3
    <2>4. CASE Holds(list, new[j])
      BY <1>p, <1>8, <2>4 DEF Holds
    <2> QED
      BY <1>p, <2>2, <2>3, <2>4
  <1>12. Relists(h, g, b, l, n, first, new)
    BY <1>p, <1>2, <1>4, <1>6, <1>7, <1>10, <1>11, <1>v DEF Relists
  <1>13. /\ Books(g)
         /\ \A c \in Block \ {b}, i \in Nat : Used(g, c, i) <=> Used(h, c, i)
         /\ \A i \in Nat :
              Used(g, b, i) <=> i \in 0 .. PerBlock[l] - 1 /\ ~Holds(new, <<b, i>>)
    <2>1. Books(h) /\ l \in Log
      BY <1>p
    <2> QED
      BY ONLY <2>1, <1>12, ListChanged
  <1>14. \A i \in Nat : Used(g, b, i) <=> Used(h, b, i) /\ i # x
    <2> TAKE i \in Nat
    <2>1. Holds(new, <<b, i>>) <=> Holds(list, <<b, i>>) \/ <<b, i>> = <<b, x>>
      BY <1>p, PutHolds
    <2> QED
      BY <1>p, <1>9, <1>13, <2>1
  <1> QED
    BY ONLY <1>p, <1>1, <1>6, <1>13, <1>14, UseRemoved

(* A fragment is freed that is not the last of its block.                  *)
LEMMA FragFreed ==
  ASSUME NEW h, Books(h), NEW b \in Block, h.heapinfo[b].kind = "frags",
         NEW x \in Nat, Used(h, b, x), ~OthersFree(h.heapinfo[b])
  PROVE  LET r == FreeFrag(h, <<b, x>>) IN
         /\ Books(r) /\ InUse(r) = InUse(h) \ {<<b, x>>}
  <1> DEFINE info == h.heapinfo[b]
             l == info.log
             n == info.nfree
             first == info.first
             list == h.fraghead[l]
             p == <<b, x>>
             k == Position(list, <<b, first>>)
             r == FreeFrag(h, p)
  <1>1. /\ h \in Heap /\ FragsOK(h) /\ h.heapinfo \in [Index -> Info]
        /\ h.fraghead \in [Log -> Seq(Addr)] /\ b \in Index
    BY HeapFields, Indices DEF Books, HeapAt
  <1>2. /\ l \in Log /\ n \in Nat /\ first \in Nat /\ info = Frags(l, n, first)
        /\ n <= PerBlock[l] - 1 /\ PerBlock[l] \in Nat /\ PerBlock[l] >= 2
        /\ list \in Seq(Addr) /\ Distinct(list) /\ RunOK(list, b, n, first)
    BY FragBlockHas
  <1>3. n # PerBlock[l] - 1
    BY DEF OthersFree
  <1>4. p \in Addr /\ p[1] = b /\ p[2] = x
    BY DEF Addr
  <1>i. info = h.heapinfo[b] /\ list = h.fraghead[l] /\ l = h.heapinfo[b].log
    OBVIOUS
  <1>5. CASE n = 0
    <2> DEFINE new == <<p>> \o list
    <2>1. r = [h EXCEPT !.fraghead[l] = new, !.heapinfo[b] = Frags(l, 1, x)]
      BY <1>5 DEF FreeFrag
    <2> HIDE DEF info, l, n, first, list, p, r
    <2>2. Put(list, new, 0, p)
      BY <1>2, <1>4, PutFirst
    <2> HIDE DEF new
    <2>3. Len(list) \in Nat /\ Len(new) = Len(list) + 1 /\ new[1] = p
          /\ \A j \in 1 .. Len(new) : j # 1 => new[j] = list[j - 1]
      BY <1>2, <2>2, SeqIs DEF Put
    <2>4. \A j \in 1 .. Len(list) : list[j][1] # b
      BY <1>2, <1>5 DEF RunOK
    <2>5. \A j \in 1 .. Len(new) : new[j][1] = b <=> 1 <= j /\ j <= 1 + 1 - 1
      BY <1>4, <2>3, <2>4
    <2>6. RunOK(new, b, 1, x)
      <3>1. 1 \in 1 .. Len(new) /\ 1 + 1 - 1 <= Len(new) /\ new[1] = <<b, x>>
        BY <2>3 DEF p
      <3>2. \E i \in 1 .. Len(new) :
              /\ i + 1 - 1 <= Len(new) /\ new[i] = <<b, x>>
              /\ \A j \in 1 .. Len(new) : new[j][1] = b <=> i <= j /\ j <= i + 1 - 1
        <4>1. 1 \in 1 .. Len(new)
          BY <3>1
        <4> WITNESS 1 \in 1 .. Len(new)
        <4> QED
          BY <2>5, <3>1
      <3> QED
        BY <3>2 DEF RunOK
    <2>7. r = [h EXCEPT !.heapinfo = [h.heapinfo EXCEPT ![b] = Frags(l, 1, x)],
                        !.fraghead = [h.fraghead EXCEPT ![l] = new]]
      BY <1>1, <2>1 DEF Heap
    <2>8. 1 <= PerBlock[l] - 1
      BY <1>2
    <2>9. Books(r) /\ InUse(r) = InUse(h) \ {<<b, x>>}
      <3>1. Puts(h, r, b, x, l, 1, x, list, new, 0)
        <4>1. Put(list, new, 0, <<b, x>>)
          BY <2>2 DEF p
        <4>2. b \in Block /\ h.heapinfo[b].kind = "frags" /\ x \in Nat /\ Used(h, b, x)
          OBVIOUS
        <4>3. 0 \in Nat /\ 0 <= Len(list) /\ 1 \in Nat
          BY <2>3
        <4> QED
          BY ONLY <1>2, <1>i, <2>6, <2>7, <2>8, <4>1, <4>2, <4>3 DEF Puts
      <3> QED
        BY <3>1, FragPut
    <2> QED
      BY <2>9 DEF r, p
  <1>6. CASE n # 0
    <2> DEFINE new == SubSeq(list, 1, k) \o <<p>> \o SubSeq(list, k + 1, Len(list))
    <2>1. r = [h EXCEPT !.fraghead[l] = new, !.heapinfo[b].nfree = n + 1]
      BY <1>6 DEF FreeFrag
    <2>p. k = Position(list, <<b, first>>)
      OBVIOUS
    <2> HIDE DEF info, l, n, first, list, p, r, k
    <2>2. /\ k \in 1 .. Len(list) /\ k + n - 1 <= Len(list) /\ list[k] = <<b, first>>
          /\ \A j \in 1 .. Len(list) : list[j][1] = b <=> k <= j /\ j <= k + n - 1
      <3> DEFINE q == Position(list, <<b, first>>)
      <3>1. /\ q \in 1 .. Len(list) /\ q + n - 1 <= Len(list) /\ list[q] = <<b, first>>
            /\ \A j \in 1 .. Len(list) : list[j][1] = b <=> q <= j /\ j <= q + n - 1
        BY <1>2, <1>6, PositionIs
      <3>2. k = q
        BY <2>p
      <3> HIDE DEF q
      <3> QED
        BY <3>1, <3>2
    <2>a. Len(list) \in Nat /\ k \in Nat /\ k >= 1 /\ k <= Len(list)
      BY <1>2, <2>2, SeqIs
    <2>3. Put(list, new, k, p)
      BY <1>2, <1>4, <2>a, PutBehind
    <2> HIDE DEF new
    <2>4. /\ Len(new) = Len(list) + 1
          /\ \A j \in 1 .. Len(new) : new[j] = IF j <= k THEN list[j]
                                               ELSE IF j = k + 1 THEN p ELSE list[j - 1]
      BY <2>3 DEF Put
    <2>5. RunOK(new, b, n + 1, first)
      <3>1. k \in 1 .. Len(new) /\ k + (n + 1) - 1 <= Len(new) /\ new[k] = <<b, first>>
        BY <1>2, <2>2, <2>4, <2>a
      <3>2. \A j \in 1 .. Len(new) : new[j][1] = b <=> k <= j /\ j <= k + (n + 1) - 1
        <4> TAKE j \in 1 .. Len(new)
        <4>1. CASE j <= k
          BY <1>2, <1>6, <2>2, <2>4, <2>a, <4>1
        <4>2. CASE j = k + 1
          BY <1>2, <1>4, <1>6, <2>4, <2>a, <4>2
        <4>3. CASE j > k + 1
          <5>1. new[j] = list[j - 1] /\ j - 1 \in 1 .. Len(list)
            BY <2>4, <2>a, <4>3
          <5>2. list[j - 1][1] = b <=> k <= j - 1 /\ j - 1 <= k + n - 1
            BY <2>2, <5>1
          <5> QED
            BY <1>2, <2>a, <4>3, <5>1, <5>2
        <4> QED
          BY <2>a, <4>1, <4>2, <4>3
      <3>3. n + 1 > 0
        BY <1>2
      <3> QED
        BY <3>1, <3>2, <3>3 DEF RunOK
    <2>6. r = [h EXCEPT !.heapinfo = [h.heapinfo EXCEPT ![b] = Frags(l, n + 1, first)],
                        !.fraghead = [h.fraghead EXCEPT ![l] = new]]
      <3>1. [info EXCEPT !.nfree = n + 1] = Frags(l, n + 1, first)
        BY <1>2 DEF Frags
      <3>2. r = [h EXCEPT !.heapinfo = [h.heapinfo EXCEPT ![b] = [info EXCEPT !.nfree = n + 1]],
                          !.fraghead = [h.fraghead EXCEPT ![l] = new]]
        BY <1>1, <1>i, <2>1 DEF Heap
      <3> QED
        BY <3>1, <3>2
    <2>7. n + 1 \in Nat /\ n + 1 <= PerBlock[l] - 1
      BY <1>2, <1>3
    <2>8. list[k][1] = b
      BY <2>2
    <2>9. Books(r) /\ InUse(r) = InUse(h) \ {<<b, x>>}
      <3> DEFINE m == n + 1
      <3>1. m \in Nat /\ m <= PerBlock[l] - 1 /\ RunOK(new, b, m, first)
            /\ r = [h EXCEPT !.heapinfo = [h.heapinfo EXCEPT ![b] = Frags(l, m, first)],
                             !.fraghead = [h.fraghead EXCEPT ![l] = new]]
        BY <2>5, <2>6, <2>7
      <3> HIDE DEF m
      <3> QED
        <4>1. Put(list, new, k, <<b, x>>)
          BY <2>3 DEF p
        <4>2. b \in Block /\ h.heapinfo[b].kind = "frags" /\ x \in Nat /\ Used(h, b, x)
          OBVIOUS
        <4>3. Puts(h, r, b, x, l, m, first, list, new, k)
          BY ONLY <1>2, <1>i, <2>8, <2>a, <3>1, <4>1, <4>2 DEF Puts
        <4> QED
          BY <4>3, FragPut
    <2> QED
      BY <2>9 DEF r, p
  <1> QED
    BY <1>5, <1>6

(* ufree of what is in use takes it, and no other, out, and leaves the     *)
(* books right.                                                            *)
THEOREM UfreeIs ==
  ASSUME NEW h, Books(h), NEW p \in InUse(h)
  PROVE  Books(ufree(h, p)) /\ InUse(ufree(h, p)) = InUse(h) \ {p}
  <1>1. h \in Heap
    BY DEF Books, HeapAt
  <1>2. PICK b \in Block, x \in Nat : p = <<b, x>> /\ Used(h, b, x)
    BY <1>1, InUseIs
  <1>3. p[1] = b
    BY <1>2
  <1>4. CASE h.heapinfo[b].kind = "large"
    <2> DEFINE r == FreeBlocks(h, b)
    <2>1. ufree(h, p) = r
      BY <1>3, <1>4 DEF ufree
    <2>2. /\ Books(r) /\ r \in Heap
          /\ \A c \in Block \ {b}, i \in Nat : Used(r, c, i) <=> Used(h, c, i)
          /\ \A i \in Nat : ~Used(r, b, i)
      BY <1>4, LargeFreed
    <2> HIDE DEF r
    <2>3. \A i \in Nat : Used(h, b, i) <=> i = 0
      BY <1>4 DEF Used
    <2>4. x = 0 /\ \A i \in Nat : Used(r, b, i) <=> Used(h, b, i) /\ i # x
      BY <1>2, <2>2, <2>3
    <2>5. InUse(r) = InUse(h) \ {<<b, x>>}
      BY <1>1, <2>2, <2>4, UseRemoved
    <2> QED
      BY <1>2, <2>1, <2>2, <2>5
  <1>5. CASE h.heapinfo[b].kind = "frags"
    <2>1. ufree(h, p) = FreeFrag(h, <<b, x>>)
      BY <1>2, <1>3, <1>5 DEF ufree
    <2>2. CASE OthersFree(h.heapinfo[b])
      BY <1>2, <1>5, <2>1, <2>2, LastFragFreed
    <2>3. CASE ~OthersFree(h.heapinfo[b])
      BY <1>2, <1>5, <2>1, <2>3, FragFreed
    <2> QED
      BY <2>2, <2>3
  <1> QED
    BY <1>2, <1>4, <1>5 DEF Used

(* A heap with right books serves every request and every free, ...        *)
THEOREM BooksServe ==
  ASSUME NEW h, Books(h) PROVE Serves(h)
  <1>1. ASSUME NEW req \in Request
        PROVE  LET r == umalloc(h, req) IN
               \/ r.ptr = NULL /\ InUse(r.heap) = InUse(h)
               \/ r.ptr \in Addr \ InUse(h) /\ InUse(r.heap) = InUse(h) \cup {r.ptr}
    <2>1. Gets(h, umalloc(h, req))
      BY UmallocIs
    <2> QED
      BY ONLY <2>1 DEF Gets
  <1>2. \A x \in InUse(h) : InUse(ufree(h, x)) = InUse(h) \ {x}
    BY UfreeIs
  <1> QED
    BY ONLY <1>1, <1>2 DEF Serves

(* ... the first heap has them, ...                                        *)
LEMMA InitializeBooks == Books(initialize)
  <1> DEFINE h == initialize
             info == h.heapinfo
             t == TableBlocks(HeapTable)
  <1>1. /\ {Top, HeapTable, InfoPerBlock, FINAL_FREE_BLOCKS} \subseteq Nat \ {0}
        /\ t \in Nat /\ t >= 1 /\ t <= Top
    <2>1. {Top, HeapTable, InfoPerBlock, FINAL_FREE_BLOCKS} \subseteq Nat \ {0}
      BY UmallocAssumption
    <2>2. t \in Nat /\ t >= 1
      BY <2>1, TableBlocksIs
    <2> QED
      BY <2>1, <2>2, TableFits
  <1>2. /\ info = [b \in Index |-> IF b = 0 THEN Free(0, 0, 0) ELSE NoInfo]
        /\ h.heapindex = 0 /\ h.heaplimit = 0 /\ h.heapsize = HeapTable /\ h.table = 1
        /\ h.breakval = 1 + t /\ h.fraghead = [l \in Log |-> <<>>]
    BY DEF initialize
  <1>t. t = TableBlocks(HeapTable)
    OBVIOUS
  <1> HIDE DEF t
  <1>3. 0 \in Index /\ Block \subseteq Index /\ 0 \notin Block
    BY <1>1 DEF Index, Block
  <1>4. /\ info[0] = Free(0, 0, 0) /\ \A b \in Block : info[b] = NoInfo
        /\ info[0].kind = "free" /\ info[0].size = 0 /\ info[0].next = 0 /\ info[0].prev = 0
        /\ \A b \in Block : info[b].kind = "none"
    BY <1>2, <1>3 DEF Free, NoInfo
  <1>5. info \in [Index -> Info]
    <2>1. Free(0, 0, 0) \in Info /\ NoInfo \in Info
      BY <1>3 DEF Free, Info, FreeInfo
    <2> QED
      BY <1>2, <2>1
  <1>6. h \in Heap
    <2>1. h.fraghead \in [Log -> Seq(Addr)]
      BY <1>2
    <2>2. h = [heapinfo |-> info, heapindex |-> 0, heaplimit |-> 0, heapsize |-> HeapTable,
               table |-> 1, breakval |-> 1 + t, fraghead |-> h.fraghead]
      BY <1>t DEF initialize
    <2> HIDE DEF h
    <2> QED
      BY <1>1, <1>3, <1>5, <2>1, <2>2 DEF Heap
  <1> HIDE DEF h, info
  <1>7. FreeIn(info) = {} /\ ListIn(info) = {0} /\ Starts(info) = {}
    BY <1>4 DEF FreeIn, ListIn, Starts
  <1>8. Sound(info, 0)
    <2>1. LinksOK(info)
      BY <1>4, <1>7 DEF LinksOK
    <2>2. SpansOK(info, 0)
      BY <1>7 DEF SpansOK
    <2>3. 0 \in 0 .. Top + 1
      BY <1>1
    <2> QED
      BY <1>5, <2>1, <2>2, <2>3 DEF Sound
  <1>9. Covered(info) = {} /\ Table(h) = 1 .. t
    BY <1>1, <1>2, <1>7, <1>t DEF Covered, Table
  <1>10. HeapAt(h, h.heaplimit)
    <2>i. info = h.heapinfo
      BY DEF info
    <2>1. \A x \in 1 .. h.breakval - 1 : x \in Table(h)
      BY <1>1, <1>2, <1>9
    <2>2. /\ h.heaplimit = 0 /\ h.heapindex \in ListIn(info) /\ 0 <= h.heaplimit
          /\ h.heaplimit <= h.breakval /\ h.breakval <= Top + 1 /\ h.heaplimit <= h.heapsize
          /\ h.table + TableBlocks(h.heapsize) <= h.breakval /\ h.heaplimit <= h.table
      BY <1>1, <1>2, <1>7, <1>t
    <2> QED
      BY <1>6, <1>8, <1>9, <2>i, <2>1, <2>2 DEF HeapAt
  <1>11. FragsOK(h)
    <2>1. \A l \in Log : h.fraghead[l] = <<>> /\ Len(h.fraghead[l]) = 0
      BY <1>2
    <2>2. \A b \in Block : h.heapinfo[b].kind # "frags"
      BY <1>4 DEF info
    <2>3. \A l \in Log : \A k \in 1 .. Len(h.fraghead[l]) : FALSE
      BY <2>1
    <2> QED
      BY <2>2, <2>3 DEF FragsOK
  <1>12. Books(h)
    BY <1>10, <1>11 DEF Books
  <1> QED
    BY <1>12 DEF h

(* ... and they say that the blocks are cut up without overlap or loss,    *)
(* ...                                                                     *)
LEMMA BooksPartition ==
  ASSUME NEW h, Books(h) PROVE Partition(h)
  <1> DEFINE info == h.heapinfo
             starts == FreeClusters(h) \cup LargeClusters(h) \cup FragBlocks(h)
  <1>1. HeapAt(h, h.heaplimit) /\ h \in Heap /\ Sound(info, h.heaplimit)
    BY DEF Books, HeapAt
  <1>2. /\ info \in [Index -> Info] /\ h.heaplimit \in Nat /\ h.breakval \in Nat
        /\ h.heapsize \in Nat /\ h.table \in Nat \ {0}
    BY <1>1, HeapFields
  <1>b. Block \subseteq Index /\ \A b \in Block : b \in Nat /\ b >= 1
    BY Indices
  <1>3. starts = Starts(info)
    <2>1. \A b \in Block : info[b].kind \in {"none", "free", "large", "frags"}
      BY <1>2, <1>b DEF Info, NoInfo, FreeInfo, LargeInfo, FragsInfo
    <2> QED
      BY <2>1 DEF FreeClusters, LargeClusters, FragBlocks, Starts
  <1> HIDE DEF starts
  <1>4. \A b \in Starts(info) : /\ b \in Nat /\ b >= 1 /\ b \in Block
                                /\ Size(info, b) \in Nat /\ Size(info, b) >= 1
                                /\ End(info, b) = b + Size(info, b)
                                /\ End(info, b) <= h.heaplimit
                                /\ Extent(h, b) = b .. End(info, b) - 1
    <2> TAKE b \in Starts(info)
    <2>1. b \in Block /\ b \in Nat /\ b >= 1 /\ info[b].kind # "none"
      BY <1>b DEF Starts
    <2>2. Size(info, b) >= 1 /\ End(info, b) <= h.heaplimit
      BY <1>1 DEF Sound, SpansOK
    <2>3. Size(info, b) \in Nat
      BY <1>2, <1>b, <2>1 DEF Size, Info, NoInfo, FreeInfo, LargeInfo, FragsInfo
    <2>4. (IF b \in FragBlocks(h) THEN 1 ELSE h.heapinfo[b].size) = Size(info, b)
      BY <2>1 DEF FragBlocks, Size
    <2> QED
      BY <2>1, <2>2, <2>3, <2>4 DEF End, Extent
  <1>5. UNION { Extent(h, b) : b \in Starts(info) } = Covered(info)
    BY <1>4 DEF Covered
  <1>6. /\ \A x \in 1 .. h.breakval - 1 : x \in Covered(info) \/ x \in Table(h)
        /\ \A x \in Table(h) : x \notin Covered(info)
        /\ h.heaplimit <= h.breakval /\ h.heaplimit <= h.heapsize
        /\ h.table + TableBlocks(h.heapsize) <= h.breakval
    <2>1. h.heaplimit .. h.heaplimit - 1 = {}
      BY <1>2
    <2> QED
      BY <1>1, <2>1 DEF HeapAt
  <1>7. \A x \in Covered(info) \cup Table(h) : x \in 1 .. h.breakval - 1
    <2>1. ASSUME NEW x \in Covered(info) PROVE x \in 1 .. h.breakval - 1
      <3>1. PICK b \in Starts(info) : x \in b .. End(info, b) - 1
        BY <2>1 DEF Covered
      <3> HIDE DEF info
      <3> QED
        BY <1>2, <1>4, <1>6, <3>1
    <2>2. ASSUME NEW x \in Table(h) PROVE x \in 1 .. h.breakval - 1
      <3>1. TableBlocks(h.heapsize) \in Nat
        BY <1>1, HeapFields, TableBlocksIs
      <3> QED
        BY <1>2, <1>6, <2>2, <3>1 DEF Table
    <2> QED
      BY <2>1, <2>2
  <1>8. \A b, c \in Starts(info) : b # c => Extent(h, b) \cap Extent(h, c) = {}
    <2>1. \A b, c \in Starts(info) : b < c => End(info, b) <= c
      BY <1>1 DEF Sound, SpansOK
    <2> HIDE DEF info
    <2>2. ASSUME NEW b \in Starts(info), NEW c \in Starts(info), b < c
          PROVE  Extent(h, b) \cap Extent(h, c) = {}
      <3>1. End(info, b) <= c
        BY <2>1, <2>2
      <3> QED
        BY <1>4, <2>2, <3>1
    <2>3. \A b, c \in Starts(info) : b # c => b < c \/ c < b
      BY <1>4
    <2> QED
      BY <2>2, <2>3
  <1>9. \A b \in Starts(info) : Extent(h, b) \cap Table(h) = {} /\ b < h.heapsize
    <2> TAKE b \in Starts(info)
    <2>1. \A x \in Extent(h, b) : x \in Covered(info)
      BY <1>5
    <2>2. b < h.heapsize
      <3> HIDE DEF info
      <3> QED
        BY <1>2, <1>4, <1>6
    <2> QED
      BY <1>6, <2>1, <2>2
  <1>10. (UNION { Extent(h, b) : b \in starts }) \cup Table(h) = 1 .. h.breakval - 1
    BY <1>3, <1>5, <1>6, <1>7
  <1> QED
    <2>1. /\ \A b, c \in starts : b # c => Extent(h, b) \cap Extent(h, c) = {}
          /\ \A b \in starts : Extent(h, b) \cap Table(h) = {} /\ b < h.heapsize
      BY <1>3, <1>8, <1>9
    <2>2. starts = FreeClusters(h) \cup LargeClusters(h) \cup FragBlocks(h)
      BY DEF starts
    <2> QED
      BY ONLY <1>10, <2>1, <2>2 DEF Partition

(* ... the list of free clusters is in order both ways, ...                *)
LEMMA BooksListed ==
  ASSUME NEW h, Books(h) PROVE ListSound(h)
  <1>1. LinksOK(h.heapinfo) /\ h.heapindex \in ListIn(h.heapinfo)
    BY DEF Books, HeapAt, Sound
  <1>2. List(h) = ListIn(h.heapinfo)
    BY DEF List, FreeClusters, ListIn, FreeIn
  <1> HIDE DEF List
  <1> DEFINE list == ListIn(h.heapinfo)
  <1>3. \A b \in list :
          LET next == h.heapinfo[b].next IN
          /\ next \in list /\ h.heapinfo[next].prev = b
          /\ \A c \in list : c > b => next # 0 /\ next <= c
          /\ next # 0 => next > b
    BY <1>1 DEF LinksOK
  <1> HIDE DEF list
  <1>4. h.heapindex \in list /\ List(h) = list
    BY <1>1, <1>2 DEF list
  <1> QED
    BY ONLY <1>3, <1>4 DEF ListSound

(* ... and nfree and first name a run in the list of the size.             *)
LEMMA BooksFragged ==
  ASSUME NEW h, Books(h) PROVE FragsSound(h)
  <1> SUFFICES ASSUME NEW b \in FragBlocks(h)
               PROVE  LET info == h.heapinfo[b]
                          list == h.fraghead[info.log]
                          ks == FreeFrags(h, b)
                      IN  /\ info.nfree \in 0 .. PerBlock[info.log] - 1
                          /\ info.nfree # 0 =>
                               \E k \in ks : /\ list[k] = <<b, info.first>>
                                             /\ ks = k .. k + info.nfree - 1
                          /\ info.nfree = 0 => ks = {}
    BY DEF FragsSound
  <1> DEFINE info == h.heapinfo[b]
             n == info.nfree
             list == h.fraghead[info.log]
             ks == FreeFrags(h, b)
  <1>1. b \in Block /\ info.kind = "frags"
    BY DEF FragBlocks
  <1>2. /\ n \in Nat /\ list \in Seq(Addr) /\ RunOK(list, b, n, info.first)
    BY <1>1, FragBlockHas
  <1>3. n \in 0 .. PerBlock[info.log] - 1
    BY <1>1 DEF Books, FragsOK
  <1>4. ks = { k \in 1 .. Len(list) : list[k][1] = b } /\ Len(list) \in Nat
    BY <1>2 DEF FreeFrags
  <1>5. CASE n = 0
    <2>1. ks = {}
      BY <1>2, <1>4, <1>5 DEF RunOK
    <2> QED
      BY <1>3, <1>5, <2>1
  <1>6. CASE n # 0
    <2> HIDE DEF n, list, ks, info
    <2>1. PICK k \in 1 .. Len(list) :
            /\ k + n - 1 <= Len(list) /\ list[k] = <<b, info.first>>
            /\ \A j \in 1 .. Len(list) : list[j][1] = b <=> k <= j /\ j <= k + n - 1
      BY <1>2, <1>6 DEF RunOK
    <2>2. ks = k .. k + n - 1 /\ k \in ks
      <3>1. k \in Nat /\ k >= 1
        BY <1>4, <2>1
      <3>2. \A j \in ks : j \in k .. k + n - 1
        BY <1>2, <1>4, <2>1, <3>1
      <3>3. \A j \in k .. k + n - 1 : j \in ks
        BY <1>2, <1>4, <2>1, <3>1
      <3>4. k \in k .. k + n - 1
        BY <1>2, <1>6, <3>1
      <3> QED
        BY <3>2, <3>3, <3>4
    <2> QED
      BY <1>3, <1>6, <2>1, <2>2 DEF n, list, ks, info
  <1> QED
    BY <1>5, <1>6

=============================================================================

------------------------------ MODULE Umalloc ------------------------------
(***************************************************************************)
(* The allocator behind the GRT's shared heap, src/Implementation/grt/     *)
(* umalloc, as functions from heap to heap, for a heap that grows up (the  *)
(* only kind grt_init makes).                                              *)
(*                                                                         *)
(* The unit is the block.  heapinfo says of the first block of a cluster   *)
(* whether it is free, and then how the circular list of free clusters     *)
(* goes on, or what it is used for: a large allocation, or fragments of    *)
(* one size.  What it holds for other blocks is never read, and is NoInfo  *)
(* here.  The list of free fragments is a sequence for each size.          *)
(***************************************************************************)
EXTENDS Naturals, Sequences

CONSTANTS
  Top,               \* the blocks of the segment
  HeapTable,         \* HEAP / BLOCKSIZE: entries of the first heapinfo table
  InfoPerBlock,      \* how many entries fit a block
  FINAL_FREE_BLOCKS, \* free blocks that go back to the system at the end
  Log,               \* the sizes of fragments ...
  PerBlock,          \* ... and BLOCKSIZE >> log, for each of them
  Sizes              \* the sizes of large allocations, in blocks

ASSUME UmallocAssumption ==
  /\ {Top, HeapTable, InfoPerBlock, FINAL_FREE_BLOCKS} \subseteq Nat \ {0}
  /\ Sizes \subseteq Nat \ {0}
  /\ Log \subseteq Nat \ {0}
  /\ \A l \in Log : PerBlock[l] \in Nat \ {0, 1}

Block == 1 .. Top
Index == 0 .. Top           \* block numbers, with 0 for the list's head

(* Addresses: fragment i of block b; block b itself is fragment 0.         *)
Addr == Block \X Nat
NULL == <<0, 0>>

(* What umalloc is asked for: a fragment, or some blocks.                  *)
Request == [log : Log, blocks : {1}] \cup [log : {0}, blocks : Sizes]

NoInfo == [kind |-> "none"]
Free(size, next, prev) ==
  [kind |-> "free", size |-> size, next |-> next, prev |-> prev]
Large(size) == [kind |-> "large", size |-> size]
Frags(log, nfree, first) ==
  [kind |-> "frags", log |-> log, nfree |-> nfree, first |-> first]

TableBlocks(n) == (n + InfoPerBlock - 1) \div InfoPerBlock

(* umalloc_makeheap, and initialize at the first allocation: the table is  *)
(* block 1.                                                                *)
initialize ==
  [ heapinfo  |-> [b \in Index |-> IF b = 0 THEN Free(0, 0, 0) ELSE NoInfo],
    heapindex |-> 0,
    heaplimit |-> 0,
    heapsize  |-> HeapTable,
    table     |-> 1,                          \* BLOCK(heapinfo)
    breakval  |-> 1 + TableBlocks(HeapTable), \* the block it points to
    fraghead  |-> [l \in Log |-> <<>>] ]

(* There is room for that table, or nothing could ever be allocated.       *)
ASSUME TableFits == TableBlocks(HeapTable) <= Top

-----------------------------------------------------------------------------
(* The circular list of free clusters                                      *)

FreeClusters(h) == { b \in Block : h.heapinfo[b].kind = "free" }
List(h) == {0} \cup FreeClusters(h)

SetNext(info, b, next) == [info EXCEPT ![b].next = next]
SetPrev(info, b, prev) == [info EXCEPT ![b].prev = prev]

(* b gets out of the list.                                                 *)
Unlinked(info, b) ==
  LET f == info[b] IN
  [SetPrev(SetNext(info, f.prev, f.next), f.next, f.prev) EXCEPT ![b] = NoInfo]

(* b, a cluster of n blocks, gets in between i and what follows it.        *)
Linked(info, i, b, n) ==
  LET next == info[i].next IN
  SetPrev(SetNext([info EXCEPT ![b] = Free(n, next, i)], i, b), next, b)

(* The free cluster before block b, searched from heapindex.               *)
Predecessor(h, b) ==
  LET info == h.heapinfo
      Back[i \in List(h)] == IF i > b THEN Back[info[i].prev] ELSE i
      Ahead[i \in List(h)] ==
        LET j == info[i].next
        IN  IF j # 0 /\ j < b THEN Ahead[j] ELSE info[j].prev
  IN  IF h.heapindex > b THEN Back[h.heapindex] ELSE Ahead[h.heapindex]

(* Whether the free cluster b is all there is before the break.            *)
IsLast(h, b) ==
  LET end == b + h.heapinfo[b].size
  IN  end = h.heaplimit /\ end = h.breakval

(* __umalloc_free of a large cluster: it joins the free cluster before it, *)
(* if adjacent, or else enters the list and joins the one after it.  After *)
(* the first the code's test for the second (block + blocks == block_next) *)
(* has block moved and blocks not, and never holds.                        *)
FreeBlocks(h, b) ==
  LET info == h.heapinfo
      n == info[b].size
      i == Predecessor(h, b)
      joins == b = i + info[i].size
      next == info[i].next
      linked == Linked(info, i, b, n)
      new ==
        IF joins
        THEN [info EXCEPT ![i].size = @ + n, ![b] = NoInfo]
        ELSE IF b + n = next
             THEN [Unlinked(linked, next) EXCEPT ![b].size = n + info[next].size]
             ELSE linked
      block == IF joins THEN i ELSE b
      size == new[block].size
      freed == [h EXCEPT !.heapinfo = new, !.heapindex = block]
  IN  IF size >= FINAL_FREE_BLOCKS /\ IsLast(freed, block)
      THEN [freed EXCEPT !.heapinfo = Unlinked(new, block),
                         !.heapindex = new[block].prev,
                         !.heaplimit = @ - size,
                         !.breakval = @ - size]
      ELSE freed

-----------------------------------------------------------------------------
(* Memory from the system                                                  *)

(* newsize, doubled until the table has blockno entries.                   *)
Grown(heapsize, blockno) ==
  LET Doubled[newsize \in 1 .. 2 * blockno] ==
        IF blockno > newsize THEN Doubled[2 * newsize] ELSE newsize
  IN  Doubled[heapsize]

NoCore(h) == [heap |-> h, block |-> 0]

(* n blocks at the break, and a larger heapinfo table behind them if they  *)
(* need one: then the old one is freed.  Without room nothing changes.     *)
morecore(h, n) ==
  LET blockno == h.breakval + n
      newsize == Grown(h.heapsize, blockno)
      end == blockno + TableBlocks(newsize)
      moved == [h EXCEPT !.breakval = end, !.table = blockno,
                         !.heapinfo[h.table] = Large(TableBlocks(h.heapsize))]
  IN  IF blockno > Top + 1 THEN NoCore(h)
      ELSE IF blockno <= h.heapsize
      THEN [heap |-> [h EXCEPT !.breakval = blockno, !.heaplimit = blockno],
            block |-> h.breakval]
      ELSE IF end > Top + 1 THEN NoCore(h)
      ELSE [heap |-> [FreeBlocks(moved, h.table) EXCEPT
                        !.heapsize = newsize, !.heaplimit = blockno],
            block |-> h.breakval]

-----------------------------------------------------------------------------
(* Allocation                                                              *)

(* Mutated form of Take: a free cluster is never split.                    *)
Take_whole(h, b, n) ==
  LET f == h.heapinfo[b] IN
  [h EXCEPT !.heapinfo = [Unlinked(@, b) EXCEPT ![b] = Large(n)],
            !.heapindex = f.next]

(* The first n blocks of the free cluster b; the rest takes its place.     *)
Take(h, b, n) ==
  LET info == h.heapinfo
      f == info[b]
      rest == b + n
      left == SetPrev(SetNext([info EXCEPT ![rest] = Free(f.size - n, f.next, f.prev)],
                              f.prev, rest),
                      f.next, rest)
  IN  IF f.size > n
      THEN [h EXCEPT !.heapinfo = [left EXCEPT ![b] = Large(n)],
                     !.heapindex = rest]
      ELSE [h EXCEPT !.heapinfo = [Unlinked(info, b) EXCEPT ![b] = Large(n)],
                     !.heapindex = f.next]

(* The first free cluster of n blocks in the list from heapindex on, or 0. *)
Fit(h, n) ==
  LET info == h.heapinfo
      Search[b \in List(h)] ==
        IF info[b].size >= n THEN b
        ELSE IF info[b].next = h.heapindex THEN 0
        ELSE Search[info[b].next]
  IN  Search[h.heapindex]

(* With no fit, the last free cluster is extended if it ends at the break, *)
(* else all n blocks come from the system.                                 *)
Extended(h, n, size) ==
  LET final == h.heapinfo[0].prev
  IN  [heap |-> Take([h EXCEPT !.heapinfo[final].size = @ + n - size], final, n),
       block |-> final]

FromSystem(core, n) ==
  IF core.block = 0 THEN core
  ELSE [core EXCEPT !.heap.heapinfo[core.block] = Large(n)]

Extend(h, n) ==
  LET last == h.heapinfo[0].prev
      size == h.heapinfo[last].size
      more == morecore(h, n - size)
  IN  IF IsLast(h, last) /\ more.block # 0
      THEN Extended(more.heap, n, size)
      ELSE FromSystem(morecore(h, n), n)

AllocBlocks(h, n) ==
  LET b == Fit(h, n)
  IN  IF b # 0 THEN [heap |-> Take(h, b, n), block |-> b] ELSE Extend(h, n)

(* The free fragments of a block that has just been broken up.             *)
FirstFrags(b, log) ==
  [k \in 1 .. PerBlock[log] - 1 |-> <<b, PerBlock[log] - k>>]

(* Mutated form of PopFrag: the fragment stays in the list.                *)
PopFrag_kept(h, log) ==
  LET f == h.fraghead[log][1] IN [h EXCEPT !.heapinfo[f[1]].nfree = @ - 1]

(* The head of the list of free fragments; first moves on to the next one, *)
(* taken to be of the same block while that has any.                       *)
PopFrag(h, log) ==
  LET b == h.fraghead[log][1][1]
      rest == Tail(h.fraghead[log])
      nfree == h.heapinfo[b].nfree - 1
  IN  [h EXCEPT !.fraghead[log] = rest,
                !.heapinfo[b].nfree = nfree,
                !.heapinfo[b].first = IF nfree # 0 THEN rest[1][2] ELSE @]

(* The first fragment of the block r, if there was one.                    *)
BrokenUp(r, log) ==
  IF r.block = 0 THEN [heap |-> r.heap, ptr |-> NULL]
  ELSE [heap |-> [r.heap EXCEPT
                    !.heapinfo[r.block] = Frags(log, PerBlock[log] - 1, PerBlock[log] - 1),
                    !.fraghead[log] = FirstFrags(r.block, log)],
        ptr |-> <<r.block, 0>>]

AllocFrag(h, log) ==
  IF h.fraghead[log] # <<>>
  THEN [heap |-> PopFrag(h, log), ptr |-> h.fraghead[log][1]]
  ELSE BrokenUp(AllocBlocks(h, 1), log)

AllocLarge(r) == [heap |-> r.heap, ptr |-> <<r.block, 0>>]

(* umalloc, ucalloc and umemalign (whose alignment every address has).     *)
umalloc(h, req) ==
  IF req.log # 0 THEN AllocFrag(h, req.log) ELSE AllocLarge(AllocBlocks(h, req.blocks))

-----------------------------------------------------------------------------
(* Deallocation                                                            *)

Position(list, f) == CHOOSE k \in 1 .. Len(list) : list[k] = f

(* Mutated form of OthersFree: one fragment is not counted.                *)
OthersFree_one(info) == info.nfree = PerBlock[info.log] - 2

(* All fragments of a block are free but the one that is being freed.      *)
OthersFree(info) == info.nfree = PerBlock[info.log] - 1

(* A fragment goes behind the first free one of its block, to the head of  *)
(* the list if there is none, or - the last of its block - takes the block *)
(* out of the list and frees it.                                           *)
FreeFrag(h, ptr) ==
  LET b == ptr[1]
      info == h.heapinfo[b]
      list == h.fraghead[info.log]
      k == Position(list, <<b, info.first>>)
      Upto == SubSeq(list, 1, k)
  IN  IF OthersFree(info)
      THEN FreeBlocks([h EXCEPT
             !.fraghead[info.log] =
               SubSeq(list, 1, k - 1) \o SubSeq(list, k + info.nfree, Len(list)),
             !.heapinfo[b] = Large(1)], b)
      ELSE IF info.nfree # 0
      THEN [h EXCEPT
             !.fraghead[info.log] = Upto \o <<ptr>> \o SubSeq(list, k + 1, Len(list)),
             !.heapinfo[b].nfree = @ + 1]
      ELSE [h EXCEPT
             !.fraghead[info.log] = <<ptr>> \o list,
             !.heapinfo[b] = Frags(info.log, 1, ptr[2])]

ufree(h, ptr) ==
  IF h.heapinfo[ptr[1]].kind = "large" THEN FreeBlocks(h, ptr[1])
  ELSE FreeFrag(h, ptr)

-----------------------------------------------------------------------------
(* What a heap should look like                                            *)

LargeClusters(h) == { b \in Block : h.heapinfo[b].kind = "large" }
FragBlocks(h) == { b \in Block : h.heapinfo[b].kind = "frags" }
FreeFrags(h, b) ==
  LET list == h.fraghead[h.heapinfo[b].log]
  IN  { k \in 1 .. Len(list) : list[k][1] = b }

(* The addresses the heap takes to be in use.                              *)
InUse(h) ==
  { <<b, 0>> : b \in LargeClusters(h) } \cup
  UNION { { <<b, i>> : i \in 0 .. PerBlock[h.heapinfo[b].log] - 1 }
            \ { h.fraghead[h.heapinfo[b].log][k] : k \in FreeFrags(h, b) }
          : b \in FragBlocks(h) }

(* The blocks of the cluster that starts at b.                             *)
Extent(h, b) ==
  b .. b + (IF b \in FragBlocks(h) THEN 1 ELSE h.heapinfo[b].size) - 1
Table(h) == h.table .. h.table + TableBlocks(h.heapsize) - 1

(* Every block below the break is in the table or in exactly one cluster,  *)
(* none above it, and the table has an entry for every cluster.            *)
Partition(h) ==
  LET starts == FreeClusters(h) \cup LargeClusters(h) \cup FragBlocks(h) IN
  /\ (UNION { Extent(h, b) : b \in starts }) \cup Table(h) = 1 .. h.breakval - 1
  /\ \A b, c \in starts : b # c => Extent(h, b) \cap Extent(h, c) = {}
  /\ \A b \in starts : Extent(h, b) \cap Table(h) = {} /\ b < h.heapsize

(* The list goes through the free clusters in the order of their addresses, *)
(* both ways, and the next search starts in it.                            *)
ListSound(h) ==
  LET list == List(h) IN
  /\ h.heapindex \in list
  /\ \A b \in list :
       LET next == h.heapinfo[b].next IN
       /\ next \in list /\ h.heapinfo[next].prev = b
       /\ \A c \in list : c > b => next # 0 /\ next <= c
       /\ next # 0 => next > b

(* The free fragments of a block stand together in the list of their size, *)
(* from the one that heapinfo calls first, and are never all there are.    *)
FragsSound(h) ==
  \A b \in FragBlocks(h) :
    LET info == h.heapinfo[b]
        list == h.fraghead[info.log]
        ks == FreeFrags(h, b)
    IN  /\ info.nfree \in 0 .. PerBlock[info.log] - 1
        /\ info.nfree # 0 =>
             \E k \in ks : /\ list[k] = <<b, info.first>>
                           /\ ks = k .. k + info.nfree - 1
        /\ info.nfree = 0 => ks = {}

(* What callers count on: an allocation returns memory that is not in use  *)
(* and takes this and no other into use, or finds none and changes         *)
(* nothing; a deallocation takes what it is given, and no other, out.      *)
Serves(h) ==
  /\ \A req \in Request :
       LET r == umalloc(h, req) IN
       \/ r.ptr = NULL /\ InUse(r.heap) = InUse(h)
       \/ r.ptr \in Addr \ InUse(h) /\ InUse(r.heap) = InUse(h) \cup {r.ptr}
  /\ \A x \in InUse(h) : InUse(ufree(h, x)) = InUse(h) \ {x}
=============================================================================

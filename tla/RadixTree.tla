----------------------------- MODULE RadixTree -----------------------------
(***************************************************************************)
(* The radix tree of python/minisgl/kvcache/radix_cache.py, as operators   *)
(* on a record.                                                            *)
(*                                                                         *)
(* Every length in the tree is a multiple of the page size (align_down in  *)
(* _tree_walk and insert_prefix) and the children of a node are indexed by *)
(* their first page of tokens (_get_key_fn), so the letters of a key are   *)
(* page-long blocks of tokens and lengths count pages.  A tree node is     *)
(* named by the whole key from the root down to its end: split_at keeps    *)
(* the lower node and that name, and the root is <<>>.                     *)
(*                                                                         *)
(*   t.page       cached key -> the page that holds its last block         *)
(*   t.ref        cached key -> ref_count of the node its last block is in *)
(*   t.nodes      the cached keys at which a node ends                     *)
(*   t.evictable  evictable_size, in pages                                 *)
(*   t.protected  protected_size, in pages                                 *)
(*                                                                         *)
(* Timestamps are left out: the operators serve every eviction order.      *)
(***************************************************************************)
EXTENDS Integers, FiniteSets, SequencesExt

EmptyTree ==
  [page |-> <<>>, ref |-> <<>>, nodes |-> {}, evictable |-> 0, protected |-> 0]

Cached(t) == DOMAIN t.page

\* The keys a walk from the root to the end of k passes, the root left out.
Path(k) == Prefixes(k) \ {<<>>}

\* _tree_walk(k) stops at m, the longest cached prefix of k.
StopsAt(t, k, m) ==
  /\ m \in Prefixes(k)
  /\ m = <<>> \/ m \in Cached(t)
  /\ \A q \in Path(k) \cap Cached(t) : Len(q) <= Len(m)

\* split_at: a node ends at m from now on. The new upper node takes over the
\* ref_count of the node it was cut from, so no block changes its count.
SplitAtUncounted(t, m) ==  \* mutant: the upper node starts with ref_count 0
  IF m = <<>> \/ m \in t.nodes THEN t
  ELSE [t EXCEPT !.nodes = @ \cup {m},
                 !.ref = [p \in Cached(t) |-> IF p \in Path(m) THEN 0 ELSE t.ref[p]]]

SplitAt(t, m) ==
  IF m = <<>> THEN t ELSE [t EXCEPT !.nodes = @ \cup {m}]

\* The blocks of the path to h with a given ref_count.
OnPath(t, h, count) == {p \in Path(h) \cap Cached(t) : t.ref[p] = count}

LockEveryBlock(t, h) ==  \* mutant: protects the path again although it is protected
  [t EXCEPT !.ref = [p \in Cached(t) |-> IF p \in Path(h) THEN t.ref[p] + 1 ELSE t.ref[p]],
            !.evictable = @ - Len(h),
            !.protected = @ + Len(h)]

\* lock_handle(h, unlock=False)
Lock(t, h) ==
  LET protect == Cardinality(OnPath(t, h, 0))
  IN  [t EXCEPT !.ref = [p \in Cached(t) |-> IF p \in Path(h) THEN t.ref[p] + 1 ELSE t.ref[p]],
                !.evictable = @ - protect,
                !.protected = @ + protect]

\* lock_handle(h, unlock=True)
Unlock(t, h) ==
  LET release == Cardinality(OnPath(t, h, 1))
  IN  [t EXCEPT !.ref = [p \in Cached(t) |-> IF p \in Path(h) THEN t.ref[p] - 1 ELSE t.ref[p]],
                !.evictable = @ + release,
                !.protected = @ - release]

\* insert_prefix once its walk has stopped at m: the rest of k becomes one new
\* unreferenced leaf that holds the pages of row.
Insert(t, k, m, row) ==
  LET s   == SplitAt(t, m)
      all == Cached(t) \cup Path(k)
  IN  IF m = k
      THEN s
      ELSE [s EXCEPT !.page  = [p \in all |-> IF p \in Cached(t) THEN t.page[p] ELSE row[Len(p)]],
                     !.ref   = [p \in all |-> IF p \in Cached(t) THEN t.ref[p] ELSE 0],
                     !.nodes = @ \cup {k},
                     !.evictable = @ + Len(k) - Len(m)]

IsLeaf(t, n) == \A q \in Cached(t) : ~IsStrictPrefix(n, q)

\* b is the parent of node n: the root, or the last node above n.
IsParent(t, b, n) ==
  /\ b = <<>> \/ b \in t.nodes
  /\ IsStrictPrefix(b, n)
  /\ \A m \in t.nodes : IsStrictPrefix(m, n) => IsPrefix(m, b)

IsVictimLocked(t, n) == n \in t.nodes /\ IsLeaf(t, n)  \* mutant: any leaf

\* What evict may pop: an unreferenced leaf.
IsVictim(t, n) == n \in t.nodes /\ t.ref[n] = 0 /\ IsLeaf(t, n)

\* evict: leaf n is deleted from its parent b.
RemoveLeaf(t, n, b) ==
  LET left == Cached(t) \ (Path(n) \ Path(b))
  IN  [t EXCEPT !.page  = [p \in left |-> t.page[p]],
                !.ref   = [p \in left |-> t.ref[p]],
                !.nodes = @ \ {n},
                !.evictable = @ - (Len(n) - Len(b))]

\* The value tensor of node n below b: its pages, in key order.
NodePages(t, n, b) ==
  [i \in 1..(Len(n) - Len(b)) |-> t.page[SubSeq(n, 1, Len(b) + i)]]

\* RadixCacheHandle.get_matched_indices: the pages from the root down to h.
MatchedPages(t, h) == [i \in 1..Len(h) |-> t.page[SubSeq(h, 1, i)]]

-----------------------------------------------------------------------------
(* What makes the record a tree.                                           *)

PrefixClosed(t) == \A p \in Cached(t) : Path(p) \subseteq Cached(t)

RootNotCached(t) == <<>> \notin Cached(t)

NodesCached(t) == t.nodes \subseteq Cached(t)

\* Every cached block lies in some node.
EveryBlockInNode(t) == \A p \in Cached(t) : \E n \in t.nodes : IsPrefix(p, n)

\* Two keys that part after a common block part at a node: otherwise a node
\* would have two continuations in the middle of its key.
BranchesAtNodes(t) ==
  \A p, q \in Cached(t), n \in t.nodes :
     (/\ IsPrefix(p, n) /\ IsPrefix(p, q)
      /\ ~IsPrefix(n, q) /\ ~IsPrefix(q, n))
     => \E m \in t.nodes : IsPrefix(p, m) /\ IsPrefix(m, q) /\ IsStrictPrefix(m, n)

WellFormed(t) ==
  /\ PrefixClosed(t)
  /\ RootNotCached(t)
  /\ NodesCached(t)
  /\ EveryBlockInNode(t)
  /\ BranchesAtNodes(t)
=============================================================================

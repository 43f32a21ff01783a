---------------------------- MODULE MemoryProofs ----------------------------
(***************************************************************************)
(* Pages, locks and slots, for every number of them and every set of       *)
(* requests and keys.                                                      *)
(*                                                                         *)
(* Part one is about CacheManager, the contract.  First the locks: the     *)
(* tree stays a tree, and its reference counts are exact.  On top of that  *)
(* the pages: each has exactly one owner, none is lost, and the two size   *)
(* counters are exact.                                                     *)
(*                                                                         *)
(* Part two is about Scheduler, which keeps to the contract: every step of *)
(* the loop that touches a page, a lock or a slot is an operation of       *)
(* CacheManager called as CMSpec demands, so that what part one shows      *)
(* holds of the scheduler.  The inductive invariant, LoopInv, is of the    *)
(* queues and the lengths that make a call legal.  One lemma per action    *)
(* shows that the action keeps LoopInv and maps to an operation or to a    *)
(* stutter.  They rest on what the sections before them show of sums, of   *)
(* sequences and of the pages that token sequences fill.                   *)
(***************************************************************************)
EXTENDS Scheduler, FiniteSetTheorems, NaturalsInduction, WellFoundedInduction, TLAPS

-----------------------------------------------------------------------------
(* Prefixes of sequences.                                                  *)

\* IsPrefix, letter by letter.
LEMMA PrefixPointwise ==
  ASSUME NEW S, NEW p \in Seq(S), NEW q \in Seq(S)
  PROVE  IsPrefix(p, q) <=> Len(p) <= Len(q) /\ \A i \in 1..Len(p) : p[i] = q[i]
  BY DEF IsPrefix

\* The members of Prefixes(k) are the sequences that are a prefix of k.
LEMMA PrefixesMember ==
  ASSUME NEW S, NEW k \in Seq(S), NEW p
  PROVE  p \in Prefixes(k) <=> p \in Seq(S) /\ IsPrefix(p, k)
  BY DEF Prefixes, IsPrefix

\* IsPrefix is a partial order in which the prefixes of one sequence form a chain.
LEMMA PrefixReflexive ==
  ASSUME NEW S, NEW p \in Seq(S)
  PROVE  IsPrefix(p, p)
  BY PrefixPointwise

LEMMA PrefixTransitive ==
  ASSUME NEW S, NEW p \in Seq(S), NEW q \in Seq(S), NEW k \in Seq(S),
         IsPrefix(p, q), IsPrefix(q, k)
  PROVE  IsPrefix(p, k)
  BY PrefixPointwise

LEMMA PrefixAntisymmetric ==
  ASSUME NEW S, NEW p \in Seq(S), NEW q \in Seq(S), IsPrefix(p, q), Len(q) <= Len(p)
  PROVE  p = q
  BY PrefixPointwise

LEMMA PrefixComparable ==
  ASSUME NEW S, NEW p \in Seq(S), NEW q \in Seq(S), NEW k \in Seq(S),
         IsPrefix(p, k), IsPrefix(q, k), Len(p) <= Len(q)
  PROVE  IsPrefix(p, q)
  BY PrefixPointwise

-----------------------------------------------------------------------------
(* The fields of the trees the operators build.                            *)

LEMMA SplitFields ==
  ASSUME NEW t, TreeType(t), NEW m, m = <<>> \/ m \in Cached(t)
  PROVE  LET s == SplitAt(t, m) IN
         /\ TreeType(s)
         /\ s.page = t.page /\ s.ref = t.ref
         /\ s.nodes = t.nodes \cup ({m} \ {<<>>})
         /\ s.evictable = t.evictable /\ s.protected = t.protected
  BY DEF SplitAt, TreeType, Cached

LEMMA PathFinite ==
  ASSUME NEW h \in Seq(Block)
  PROVE  IsFiniteSet(Path(h))
  <1> DEFINE f == [l \in 0..Len(h) |-> SubSeq(h, 1, l)]
  <1>1. f \in Surjection(0..Len(h), Prefixes(h))
    BY DEF Surjection, Prefixes
  <1>2. IsFiniteSet(Prefixes(h))
    BY <1>1, FS_Surjection, FS_Interval
  <1> QED
    BY <1>2, FS_Subset DEF Path

LEMMA OnPathCounted ==
  ASSUME NEW t, NEW h \in Seq(Block), NEW c
  PROVE  Cardinality(OnPath(t, h, c)) \in Nat
  <1>1. OnPath(t, h, c) \in SUBSET Path(h)
    BY DEF OnPath
  <1> QED
    BY <1>1, PathFinite, FS_Subset, FS_CardinalityType

LEMMA LockFields ==
  ASSUME NEW t, TreeType(t), NEW h \in Seq(Block)
  PROVE  LET s == Lock(t, h) IN
         /\ TreeType(s)
         /\ s.page = t.page /\ s.nodes = t.nodes
         /\ \A p \in Cached(t) : s.ref[p] = IF p \in Path(h) THEN t.ref[p] + 1 ELSE t.ref[p]
  <1> DEFINE s == Lock(t, h)
             r == [p \in Cached(t) |-> IF p \in Path(h) THEN t.ref[p] + 1 ELSE t.ref[p]]
             c == Cardinality(OnPath(t, h, 0))
  <1>1. c \in Nat
    BY OnPathCounted
  <1>2. r \in [Cached(t) -> Int]
    BY DEF TreeType
  <1>3. s = [t EXCEPT !.ref = r, !.evictable = @ - c, !.protected = @ + c]
    BY DEF Lock
  <1> HIDE DEF s, r, c
  <1>4. s = [page |-> t.page, ref |-> r, nodes |-> t.nodes,
             evictable |-> t.evictable - c, protected |-> t.protected + c]
    BY <1>3 DEF TreeType
  <1>5. TreeType(s) /\ s.page = t.page /\ s.nodes = t.nodes /\ s.ref = r
    BY <1>1, <1>2, <1>4 DEF TreeType, Cached
  <1> QED
    BY <1>5 DEF s, r

LEMMA UnlockFields ==
  ASSUME NEW t, TreeType(t), NEW h \in Seq(Block)
  PROVE  LET s == Unlock(t, h) IN
         /\ TreeType(s)
         /\ s.page = t.page /\ s.nodes = t.nodes
         /\ \A p \in Cached(t) : s.ref[p] = IF p \in Path(h) THEN t.ref[p] - 1 ELSE t.ref[p]
  <1> DEFINE s == Unlock(t, h)
             r == [p \in Cached(t) |-> IF p \in Path(h) THEN t.ref[p] - 1 ELSE t.ref[p]]
             c == Cardinality(OnPath(t, h, 1))
  <1>1. c \in Nat
    BY OnPathCounted
  <1>2. r \in [Cached(t) -> Int]
    BY DEF TreeType
  <1>3. s = [t EXCEPT !.ref = r, !.evictable = @ + c, !.protected = @ - c]
    BY DEF Unlock
  <1> HIDE DEF s, r, c
  <1>4. s = [page |-> t.page, ref |-> r, nodes |-> t.nodes,
             evictable |-> t.evictable + c, protected |-> t.protected - c]
    BY <1>3 DEF TreeType
  <1>5. TreeType(s) /\ s.page = t.page /\ s.nodes = t.nodes /\ s.ref = r
    BY <1>1, <1>2, <1>4 DEF TreeType, Cached
  <1> QED
    BY <1>5 DEF s, r

\* The path to a key: its prefixes but the root.
LEMMA PathMember ==
  ASSUME NEW k \in Seq(Block), NEW p
  PROVE  p \in Path(k) <=> p \in Seq(Block) /\ p # <<>> /\ IsPrefix(p, k)
  BY PrefixesMember DEF Path

LEMMA InsertFields ==
  ASSUME NEW t, TreeType(t), NEW k \in Seq(Block), NEW m, StopsAt(t, k, m),
         NEW row \in Seq(Page), Len(k) <= Len(row)
  PROVE  LET s == Insert(t, k, m, row) IN
         /\ TreeType(s)
         /\ m # k => /\ Cached(s) = Cached(t) \cup Path(k)
                     /\ s.nodes = (t.nodes \cup ({m} \ {<<>>})) \cup {k}
         /\ m # k => \A p \in Cached(t) : s.page[p] = t.page[p] /\ s.ref[p] = t.ref[p]
         /\ m # k => \A p \in Path(k) \ Cached(t) : s.page[p] = row[Len(p)] /\ s.ref[p] = 0
         /\ m = k => s = SplitAt(t, m)
  <1> DEFINE u == SplitAt(t, m)
  <1>1. /\ m \in Seq(Block) /\ IsPrefix(m, k) /\ Len(m) \in Nat /\ Len(k) \in Nat
        /\ m = <<>> \/ m \in Cached(t)
    BY PrefixesMember DEF StopsAt
  <1>2. /\ TreeType(u) /\ u.page = t.page /\ u.ref = t.ref
        /\ u.nodes = t.nodes \cup ({m} \ {<<>>})
        /\ u.evictable = t.evictable /\ u.protected = t.protected
    BY <1>1, SplitFields
  <1>3. CASE m = k
    BY <1>2, <1>3 DEF Insert
  <1>4. CASE m # k
    <2>1. k \in Path(k)
      <3>1. k # <<>>
        BY <1>1, <1>4, PrefixPointwise
      <3> QED
        BY <3>1, PathMember, PrefixReflexive
    <2>2. \A p \in Path(k) : p \in Seq(Block) /\ Len(p) \in 1..Len(k)
      BY PathMember, PrefixPointwise
    <2>3. \A p \in Path(k) : row[Len(p)] \in Page
      BY <2>2
    <2> DEFINE all == Cached(t) \cup Path(k)
               s == Insert(t, k, m, row)
    <2>4. s = [u EXCEPT !.page  = [p \in all |-> IF p \in Cached(t) THEN t.page[p] ELSE row[Len(p)]],
                        !.ref   = [p \in all |-> IF p \in Cached(t) THEN t.ref[p] ELSE 0],
                        !.nodes = @ \cup {k},
                        !.evictable = @ + Len(k) - Len(m)]
      BY <1>4 DEF Insert
    <2> HIDE DEF s, u
    <2>5. /\ s.page = [p \in all |-> IF p \in Cached(t) THEN t.page[p] ELSE row[Len(p)]]
          /\ s.ref = [p \in all |-> IF p \in Cached(t) THEN t.ref[p] ELSE 0]
          /\ s.nodes = u.nodes \cup {k}
          /\ s.evictable = u.evictable + Len(k) - Len(m)
          /\ s.protected = u.protected
          /\ s = [page |-> s.page, ref |-> s.ref, nodes |-> s.nodes,
                  evictable |-> s.evictable, protected |-> s.protected]
      BY <2>4, <1>2 DEF TreeType
    <2>6. Cached(s) = all
      BY <2>5 DEF Cached
    <2>7. TreeType(s)
      BY <2>1, <2>2, <2>3, <2>5, <2>6, <1>1, <1>2 DEF TreeType
    <2> QED
      BY <2>5, <2>6, <2>7, <1>2, <1>4 DEF s
  <1> QED
    BY <1>3, <1>4

LEMMA RemoveFields ==
  ASSUME NEW t, TreeType(t), NEW n \in t.nodes, NEW b, IsParent(t, b, n)
  PROVE  LET s == RemoveLeaf(t, n, b)
             left == Cached(t) \ (Path(n) \ Path(b)) IN
         /\ TreeType(s)
         /\ Cached(s) = left
         /\ \A p \in left : s.page[p] = t.page[p] /\ s.ref[p] = t.ref[p]
         /\ s.nodes = t.nodes \ {n}
  <1> DEFINE s == RemoveLeaf(t, n, b)
             left == Cached(t) \ (Path(n) \ Path(b))
             e == t.evictable - (Len(n) - Len(b))
  <1>1. /\ n \in Seq(Block) /\ b \in Seq(Block)
        /\ t.nodes \subseteq Seq(Block)
    <2>1. t.nodes \subseteq Seq(Block)
      BY DEF TreeType
    <2>2. <<>> \in Seq(Block)
      OBVIOUS
    <2> QED
      BY <2>1, <2>2 DEF IsParent
  <1>2. \A m \in t.nodes \ {n} : m \in left
    <2> SUFFICES ASSUME NEW m \in t.nodes \ {n}, m \in Path(n)
                 PROVE  m \in Path(b)
      BY DEF TreeType
    <2>1. m \in Seq(Block) /\ m # <<>> /\ IsPrefix(m, n)
      BY <1>1, PathMember
    <2>2. IsPrefix(m, b)
      BY <2>1 DEF IsParent, IsStrictPrefix
    <2> QED
      BY <1>1, <2>1, <2>2, PathMember
  <1>3. e \in Int
    BY <1>1 DEF TreeType
  <1>4. s = [t EXCEPT !.page = [p \in left |-> t.page[p]], !.ref = [p \in left |-> t.ref[p]],
                      !.nodes = @ \ {n}, !.evictable = e]
    BY DEF RemoveLeaf
  <1> HIDE DEF s, e
  <1>5. s = [page |-> [p \in left |-> t.page[p]], ref |-> [p \in left |-> t.ref[p]],
             nodes |-> t.nodes \ {n}, evictable |-> e, protected |-> t.protected]
    BY <1>4 DEF TreeType
  <1>6. TreeType(s) /\ Cached(s) = left
    BY <1>2, <1>3, <1>5 DEF TreeType, Cached
  <1> QED
    BY <1>5, <1>6 DEF s

-----------------------------------------------------------------------------
(* Every operator turns a tree into a tree.                                *)

\* Everything cached on the way to k lies on the way to m, where the walk stops.
LEMMA WalkIsLongest ==
  ASSUME NEW t, TreeType(t), NEW k \in Seq(Block), NEW m, StopsAt(t, k, m),
         NEW q \in Cached(t), IsPrefix(q, k), q # <<>>
  PROVE  m \in Cached(t) /\ m # <<>> /\ IsPrefix(q, m)
  <1>1. q \in Seq(Block) /\ q \in Path(k)
    BY PathMember DEF TreeType
  <1>2. m \in Seq(Block) /\ IsPrefix(m, k)
    BY PrefixesMember DEF StopsAt
  <1>3. Len(q) <= Len(m)
    BY <1>1 DEF StopsAt
  <1>4. IsPrefix(q, m)
    BY <1>1, <1>2, <1>3, PrefixComparable
  <1>5. m # <<>>
    BY <1>1, <1>2, <1>3
  <1> QED
    BY <1>4, <1>5 DEF StopsAt

\* A split only adds a node boundary inside a node.
LEMMA SplitWellFormed ==
  ASSUME NEW t, TreeType(t), WellFormed(t), NEW m, m = <<>> \/ m \in Cached(t)
  PROVE  WellFormed(SplitAt(t, m))
  <1> DEFINE s == SplitAt(t, m)
  <1>1. CASE m = <<>>
    BY <1>1 DEF SplitAt
  <1>2. CASE m # <<>>
    <2>1. /\ Cached(s) = Cached(t)
          /\ s.nodes = t.nodes \cup {m}
          /\ m \in Cached(t)
      BY <1>2, SplitFields DEF Cached
    <2> HIDE DEF s
    <2>2. Cached(t) \subseteq Seq(Block) /\ t.nodes \subseteq Cached(t)
      BY DEF TreeType
    <2>3. PrefixClosed(s) /\ RootNotCached(s) /\ NodesCached(s) /\ EveryBlockInNode(s)
      BY <2>1 DEF WellFormed, PrefixClosed, RootNotCached, NodesCached, EveryBlockInNode
    <2>4. BranchesAtNodes(s)
      <3> SUFFICES ASSUME NEW p \in Cached(t), NEW q \in Cached(t), NEW n \in t.nodes \cup {m},
                          IsPrefix(p, n), IsPrefix(p, q), ~IsPrefix(n, q), ~IsPrefix(q, n)
                   PROVE  \E j \in t.nodes \cup {m} :
                             IsPrefix(p, j) /\ IsPrefix(j, q) /\ IsStrictPrefix(j, n)
        BY <2>1 DEF BranchesAtNodes
      <3>1. CASE n \in t.nodes
        BY <3>1 DEF WellFormed, BranchesAtNodes
      <3>2. CASE n = m
        <4>1. PICK l \in t.nodes : IsPrefix(m, l)
          BY <2>1 DEF WellFormed, EveryBlockInNode
        <4>2. IsPrefix(p, l) /\ ~IsPrefix(l, q)
          BY <2>1, <2>2, <3>2, <4>1, PrefixTransitive
        <4>3. ~IsPrefix(q, l)
          <5> SUFFICES ASSUME IsPrefix(q, l) PROVE FALSE
            OBVIOUS
          <5>1. CASE Len(q) <= Len(m)
            BY <2>1, <2>2, <3>2, <4>1, <5>1, PrefixComparable
          <5>2. CASE Len(m) <= Len(q)
            BY <2>1, <2>2, <3>2, <4>1, <5>2, PrefixComparable
          <5>3. Len(m) \in Nat /\ Len(q) \in Nat
            BY <2>1, <2>2
          <5> QED
            BY <5>1, <5>2, <5>3
        <4>4. PICK j \in t.nodes : IsPrefix(p, j) /\ IsPrefix(j, q) /\ IsStrictPrefix(j, l)
          BY <4>1, <4>2, <4>3 DEF WellFormed, BranchesAtNodes
        <4>5. ~IsPrefix(m, j)
          BY <2>1, <2>2, <3>2, <4>4, PrefixTransitive
        <4>6. IsPrefix(j, m)
          <5>1. CASE Len(j) <= Len(m)
            BY <2>1, <2>2, <4>1, <4>4, <5>1, PrefixComparable DEF IsStrictPrefix
          <5>2. CASE Len(m) <= Len(j)
            BY <2>1, <2>2, <4>1, <4>4, <4>5, <5>2, PrefixComparable DEF IsStrictPrefix
          <5>3. Len(m) \in Nat /\ Len(j) \in Nat
            BY <2>1, <2>2
          <5> QED
            BY <5>1, <5>2, <5>3
        <4>7. j # m
          BY <2>1, <2>2, <4>5, PrefixReflexive
        <4> QED
          BY <3>2, <4>4, <4>6, <4>7 DEF IsStrictPrefix
      <3> QED
        BY <3>1, <3>2
    <2> QED
      BY <2>3, <2>4 DEF s, WellFormed
  <1> QED
    BY <1>1, <1>2

\* Two prefixes of one key are comparable.
LEMMA PrefixesChain ==
  ASSUME NEW S, NEW p \in Seq(S), NEW q \in Seq(S), NEW k \in Seq(S),
         IsPrefix(p, k), IsPrefix(q, k)
  PROVE  IsPrefix(p, q) \/ IsPrefix(q, p)
  <1>1. Len(p) \in Nat /\ Len(q) \in Nat
    OBVIOUS
  <1>2. CASE Len(p) <= Len(q)
    BY <1>2, PrefixComparable
  <1>3. CASE Len(q) <= Len(p)
    BY <1>3, PrefixComparable
  <1> QED
    BY <1>1, <1>2, <1>3

\* The new leaf hangs below the node where the walk stopped.
LEMMA InsertWellFormed ==
  ASSUME NEW t, TreeType(t), WellFormed(t), NEW k \in Seq(Block), NEW m, StopsAt(t, k, m),
         NEW row \in Seq(Page), Len(k) <= Len(row)
  PROVE  WellFormed(Insert(t, k, m, row))
  <1> DEFINE u == SplitAt(t, m)
             s == Insert(t, k, m, row)
  <1>1. m = <<>> \/ m \in Cached(t)
    BY DEF StopsAt
  <1>2. WellFormed(u) /\ TreeType(u) /\ Cached(u) = Cached(t) /\ u.nodes = t.nodes \cup ({m} \ {<<>>})
    BY <1>1, SplitWellFormed, SplitFields DEF Cached
  <1>0. /\ m # k => /\ Cached(s) = Cached(t) \cup Path(k)
                    /\ s.nodes = (t.nodes \cup ({m} \ {<<>>})) \cup {k}
        /\ m = k => s = u
    BY InsertFields
  <1> HIDE DEF s, u
  <1> SUFFICES WellFormed(s)
    BY DEF s
  <1>3. CASE m = k
    BY <1>0, <1>2, <1>3
  <1>4. CASE m # k
    <2>1. Cached(s) = Cached(u) \cup Path(k) /\ s.nodes = u.nodes \cup {k}
      BY <1>0, <1>2, <1>4
    <2>2. m \in Seq(Block) /\ IsPrefix(m, k)
      BY PrefixesMember DEF StopsAt
    <2>3. k \in Path(k) /\ IsStrictPrefix(m, k)
      BY <1>4, <2>2, PathMember, PrefixReflexive, PrefixPointwise DEF IsStrictPrefix
    <2>4. /\ Cached(u) \subseteq Seq(Block) /\ u.nodes \subseteq Cached(u)
          /\ Path(k) \subseteq Seq(Block)
      BY <1>2, PathMember DEF TreeType
    <2>5. \A q \in Cached(u) : q # <<>> /\ IsPrefix(q, k) => m \in u.nodes /\ IsPrefix(q, m)
      BY <1>2, WalkIsLongest
    <2>6. PrefixClosed(s)
      <3>1. \A p \in Cached(u) : Path(p) \subseteq Cached(s)
        BY <1>2, <2>1 DEF WellFormed, PrefixClosed
      <3>2. \A p \in Path(k) : Path(p) \subseteq Path(k)
        BY PathMember, PrefixTransitive
      <3> QED
        BY <2>1, <3>1, <3>2 DEF PrefixClosed
    <2>7. NodesCached(s)
      BY <2>1, <2>3, <2>4 DEF NodesCached
    <2>8. EveryBlockInNode(s)
      BY <1>2, <2>1, PathMember DEF WellFormed, EveryBlockInNode
    <2>9. RootNotCached(s)
      BY <1>2, <2>1, PathMember DEF WellFormed, RootNotCached
    <2>10. BranchesAtNodes(s)
      <3> SUFFICES ASSUME NEW p \in Cached(s), NEW q \in Cached(s), NEW n \in s.nodes,
                          IsPrefix(p, n), IsPrefix(p, q), ~IsPrefix(n, q), ~IsPrefix(q, n)
                   PROVE  \E j \in s.nodes :
                             IsPrefix(p, j) /\ IsPrefix(j, q) /\ IsStrictPrefix(j, n)
        BY DEF BranchesAtNodes
      <3>1. p \in Seq(Block) /\ q \in Seq(Block) /\ n \in Seq(Block) /\ p # <<>>
        BY <2>1, <2>3, <2>4, <2>9 DEF RootNotCached
      \* Wherever p is cached and lies on the way to k, the walk stopped at m below it.
      <3>2. CASE n \in u.nodes /\ q \in Cached(u)
        <4>1. p \in Cached(u)
          BY <1>2, <2>4, <3>1, <3>2, PathMember DEF WellFormed, PrefixClosed
        <4> QED
          BY <1>2, <2>1, <3>2, <4>1 DEF WellFormed, BranchesAtNodes
      <3>3. CASE n \in u.nodes /\ q \notin Cached(u)
        <4>1. p \in Cached(u)
          BY <1>2, <2>4, <3>1, <3>3, PathMember DEF WellFormed, PrefixClosed
        <4>2. q \in Path(k) /\ IsPrefix(q, k)
          BY <2>1, <3>3, PathMember
        <4>3. IsPrefix(p, k) /\ m \in u.nodes /\ IsPrefix(p, m)
          BY <2>5, <3>1, <4>1, <4>2, PrefixTransitive
        <4>4. IsPrefix(m, q)
          <5>1. CASE IsPrefix(q, m)
            <6>1. q \in Path(m) /\ m \in Cached(u)
              BY <2>2, <2>4, <4>2, <4>3, <5>1, PathMember
            <6> QED
              BY <1>2, <3>3, <6>1 DEF WellFormed, PrefixClosed
          <5> QED
            BY <2>2, <3>1, <4>2, <5>1, PrefixesChain
        <4>5. CASE IsPrefix(m, n)
          BY <2>1, <3>1, <4>3, <4>4, <4>5 DEF IsStrictPrefix
        <4>6. CASE ~IsPrefix(m, n)
          <5>1. ~IsPrefix(n, m)
            BY <2>2, <3>1, <4>4, PrefixTransitive
          <5>2. PICK j \in u.nodes : IsPrefix(p, j) /\ IsPrefix(j, m) /\ IsStrictPrefix(j, n)
            BY <1>2, <2>4, <3>3, <4>1, <4>3, <4>6, <5>1 DEF WellFormed, BranchesAtNodes
          <5>3. IsPrefix(j, q)
            BY <2>2, <2>4, <3>1, <4>4, <5>2, PrefixTransitive
          <5> QED
            BY <2>1, <5>2, <5>3
        <4> QED
          BY <4>5, <4>6
      <3>4. CASE n = k
        <4>1. q \in Cached(u)
          BY <2>1, <3>4, PathMember
        <4>2. p \in Cached(u)
          BY <1>2, <3>1, <4>1, PathMember DEF WellFormed, PrefixClosed
        <4>3. m \in u.nodes /\ IsPrefix(p, m)
          BY <2>5, <3>1, <3>4, <4>2
        <4>4. ~IsPrefix(q, m)
          BY <2>2, <3>1, <3>4, PrefixTransitive
        <4>5. CASE IsPrefix(m, q)
          BY <2>1, <2>3, <3>4, <4>3, <4>5
        <4>6. CASE ~IsPrefix(m, q)
          <5>1. PICK j \in u.nodes : IsPrefix(p, j) /\ IsPrefix(j, q) /\ IsStrictPrefix(j, m)
            BY <1>2, <4>1, <4>2, <4>3, <4>4, <4>6 DEF WellFormed, BranchesAtNodes
          <5>2. IsPrefix(j, k)
            BY <2>2, <2>4, <5>1, PrefixTransitive DEF IsStrictPrefix
          <5>3. j # k
            BY <3>4, <5>1
          <5> QED
            BY <2>1, <3>4, <5>1, <5>2, <5>3 DEF IsStrictPrefix
        <4> QED
          BY <4>5, <4>6
      <3> QED
        BY <2>1, <3>2, <3>3, <3>4
    <2> QED
      BY <2>6, <2>7, <2>8, <2>9, <2>10 DEF WellFormed
  <1> QED
    BY <1>3, <1>4

\* Removing a leaf below its parent leaves a tree.
LEMMA RemoveWellFormed ==
  ASSUME NEW t, TreeType(t), WellFormed(t), NEW n \in t.nodes, NEW b,
         IsLeaf(t, n), IsParent(t, b, n)
  PROVE  WellFormed(RemoveLeaf(t, n, b))
  <1> DEFINE s == RemoveLeaf(t, n, b)
             gone == Path(n) \ Path(b)
  <1>0. TreeType(s) /\ Cached(s) = Cached(t) \ gone /\ s.nodes = t.nodes \ {n}
    BY RemoveFields
  <1> HIDE DEF s, gone
  <1>1. Cached(s) = Cached(t) \ gone /\ s.nodes = t.nodes \ {n} /\ s.nodes \subseteq Cached(s)
    BY <1>0 DEF TreeType
  <1>2. /\ Cached(t) \subseteq Seq(Block) /\ t.nodes \subseteq Cached(t)
        /\ n \in Seq(Block) /\ n # <<>>
    BY DEF TreeType, WellFormed, RootNotCached
  <1>3. b \in Seq(Block) /\ IsPrefix(b, n) /\ b # n
    <2>1. <<>> \in Seq(Block)
      OBVIOUS
    <2> QED
      BY <1>2, <2>1 DEF IsParent, IsStrictPrefix
  <1>4. \A p \in Cached(t) : p \in gone <=> IsPrefix(p, n) /\ ~IsPrefix(p, b)
    BY <1>2, <1>3, PathMember DEF gone, WellFormed, RootNotCached
  <1>5. n \in gone
    <2>1. ~IsPrefix(n, b)
      BY <1>2, <1>3, PrefixPointwise
    <2> QED
      BY <1>2, <1>4, <2>1, PrefixReflexive
  <1>6. \A q \in Cached(s) : ~IsPrefix(n, q)
    BY <1>1, <1>5 DEF IsLeaf, IsStrictPrefix
  <1>7. PrefixClosed(s)
    <2> SUFFICES ASSUME NEW p \in Cached(s), NEW x \in Path(p), x \in gone
                 PROVE  FALSE
      BY <1>1 DEF WellFormed, PrefixClosed
    <2>1. x \in Cached(t) /\ x \in Seq(Block) /\ IsPrefix(x, p) /\ IsPrefix(x, n) /\ ~IsPrefix(x, b)
      BY <1>1, <1>2, <1>4, PathMember DEF WellFormed, PrefixClosed
    <2>2. CASE IsPrefix(p, n)
      BY <1>1, <1>2, <1>3, <1>4, <2>1, <2>2, PrefixTransitive
    <2>3. CASE ~IsPrefix(p, n)
      <3>1. PICK j \in t.nodes : IsPrefix(x, j) /\ IsStrictPrefix(j, n)
        BY <1>1, <1>6, <2>1, <2>3 DEF WellFormed, BranchesAtNodes
      <3>2. IsPrefix(j, b)
        BY <3>1 DEF IsParent
      <3> QED
        BY <1>2, <1>3, <2>1, <3>1, <3>2, PrefixTransitive
    <2> QED
      BY <2>2, <2>3
  <1>8. RootNotCached(s) /\ NodesCached(s)
    BY <1>1 DEF WellFormed, RootNotCached, NodesCached
  <1>9. EveryBlockInNode(s)
    <2> SUFFICES ASSUME NEW p \in Cached(s)
                 PROVE  \E l \in s.nodes : IsPrefix(p, l)
      BY DEF EveryBlockInNode
    <2>1. PICK l \in t.nodes : IsPrefix(p, l)
      BY <1>1 DEF WellFormed, EveryBlockInNode
    <2>2. CASE l = n
      <3>1. IsPrefix(p, b)
        BY <1>1, <1>4, <2>1, <2>2
      <3>2. p \in Seq(Block) /\ p # <<>>
        BY <1>1, <1>2, <1>8 DEF RootNotCached
      <3>3. b # <<>>
        BY <1>3, <3>1, <3>2, PrefixPointwise
      <3> QED
        BY <1>1, <1>3, <3>1, <3>3 DEF IsParent
    <2> QED
      BY <1>1, <2>1, <2>2
  <1>10. BranchesAtNodes(s)
    <2> SUFFICES ASSUME NEW p \in Cached(s), NEW q \in Cached(s), NEW l \in s.nodes,
                        IsPrefix(p, l), IsPrefix(p, q), ~IsPrefix(l, q), ~IsPrefix(q, l)
                 PROVE  \E j \in s.nodes : IsPrefix(p, j) /\ IsPrefix(j, q) /\ IsStrictPrefix(j, l)
      BY DEF BranchesAtNodes
    <2>1. PICK j \in t.nodes : IsPrefix(p, j) /\ IsPrefix(j, q) /\ IsStrictPrefix(j, l)
      BY <1>1 DEF WellFormed, BranchesAtNodes
    <2> QED
      BY <1>1, <1>6, <2>1
  <1> QED
    BY <1>7, <1>8, <1>9, <1>10 DEF s, WellFormed

\* Whether a tree is well formed is a matter of its keys and nodes.
LEMMA SameShapeWellFormed ==
  ASSUME NEW t, WellFormed(t), NEW s, Cached(s) = Cached(t), s.nodes = t.nodes
  PROVE  WellFormed(s)
  BY DEF WellFormed, PrefixClosed, RootNotCached, NodesCached, EveryBlockInNode, BranchesAtNodes

-----------------------------------------------------------------------------
(* The lock invariant: types, the tree, the locks and the slots.           *)

LockInv ==
  /\ CMTypeOK
  /\ LockedHandlesStay
  /\ RefCountsExact
  /\ OneUserPerSlot

\* The requests whose handle lies at or below p.
Holders(p) == {r \in held : IsPrefix(p, handle[r])}

LEMMA HeldFinite ==
  ASSUME held \subseteq Req, NEW S \in SUBSET held
  PROVE  IsFiniteSet(S)
  BY ReqAssumption, FS_Subset

LEMMA HandlesCached ==
  ASSUME LockInv, NEW r \in held
  PROVE  /\ handle[r] \in Seq(Block)
         /\ handle[r] = <<>> \/ handle[r] \in Cached(tree)
         /\ Path(handle[r]) \subseteq Cached(tree)
         /\ slot[r] \in Slot /\ Row(r) \in Seq(Page) /\ Len(handle[r]) <= Len(Row(r))
  <1>1. handle[r] \in Seq(Block) /\ r \in Req
    BY DEF LockInv, CMTypeOK
  <1>2. handle[r] = <<>> \/ handle[r] \in Cached(tree)
    BY DEF LockInv, LockedHandlesStay, CMTypeOK, TreeType
  <1>3. Path(handle[r]) \subseteq Cached(tree)
    <2>1. CASE handle[r] = <<>>
      <3>1. \A p \in Path(<<>>) : FALSE
        BY DEF Path, Prefixes
      <3> QED
        BY <2>1, <3>1
    <2> QED
      BY <1>2, <2>1 DEF LockInv, LockedHandlesStay, WellFormed, PrefixClosed
  <1> QED
    BY <1>1, <1>2, <1>3 DEF LockInv, OneUserPerSlot, CMTypeOK, Row

\* Nobody holds what is not cached.
LEMMA UncachedUnheld ==
  ASSUME LockInv, NEW p \in Seq(Block), p # <<>>, p \notin Cached(tree)
  PROVE  Holders(p) = {}
  BY HandlesCached, PathMember DEF Holders

LEMMA InitLockInv == CMInit => LockInv
  <1> SUFFICES ASSUME CMInit PROVE LockInv
    OBVIOUS
  <1>1. Cached(tree) = {} /\ tree.nodes = {}
    BY DEF CMInit, EmptyTree, Cached
  <1>2. TreeType(tree)
    BY <1>1 DEF CMInit, EmptyTree, TreeType, Cached
  <1>3. freeSlots \in Seq(Page)
    BY NumPagesAssumption DEF CMInit, Page
  <1>4. tableFree \in Seq(Slot) /\ IsInjective(tableFree)
    BY MaxRunningAssumption DEF CMInit, Slot, IsInjective
  <1>5. /\ pageTable \in [Slot -> Seq(Page)] /\ held = {}
        /\ handle \in [Req -> Seq(Block)] /\ slot \in [Req -> Slot \cup {NoSlot}]
    BY DEF CMInit
  <1>6. WellFormed(tree)
    BY <1>1 DEF WellFormed, PrefixClosed, RootNotCached, NodesCached, EveryBlockInNode, BranchesAtNodes
  <1> QED
    BY <1>1, <1>2, <1>3, <1>4, <1>5, <1>6
    DEF LockInv, CMTypeOK, LockedHandlesStay, RefCountsExact, OneUserPerSlot

\* What the tree looks like after the walk for k has stopped at m.
LEMMA SplitInTree ==
  ASSUME LockInv, NEW k \in Seq(Block), NEW m, StopsAt(tree, k, m)
  PROVE  LET s == SplitAt(tree, m) IN
         /\ TreeType(s) /\ WellFormed(s)
         /\ Cached(s) = Cached(tree) /\ s.page = tree.page /\ s.ref = tree.ref
         /\ tree.nodes \subseteq s.nodes
         /\ m \in Seq(Block) /\ (m = <<>> \/ m \in s.nodes)
  <1>1. TreeType(tree) /\ WellFormed(tree)
    BY DEF LockInv, CMTypeOK, LockedHandlesStay
  <1>2. m \in Seq(Block) /\ (m = <<>> \/ m \in Cached(tree))
    BY PrefixesMember DEF StopsAt
  <1>3. WellFormed(SplitAt(tree, m))
    BY <1>1, <1>2, SplitWellFormed
  <1> QED
    BY <1>1, <1>2, <1>3, SplitFields DEF Cached

LEMMA MatchOnlyLockInv ==
  ASSUME LockInv, NEW k \in Seq(Block), MatchOnly(k)
  PROVE  LockInv'
  <1>1. PICK m : StopsAt(tree, k, m) /\ tree' = SplitAt(tree, m)
    BY DEF MatchOnly
  <1>2. UNCHANGED <<freeSlots, tableFree, pageTable, held, handle, slot>>
    BY DEF MatchOnly
  <1>3. /\ TreeType(tree') /\ WellFormed(tree')
        /\ Cached(tree') = Cached(tree) /\ tree'.ref = tree.ref
        /\ tree.nodes \subseteq tree'.nodes
    BY <1>1, SplitInTree
  <1>4. CMTypeOK'
    BY <1>2, <1>3 DEF LockInv, CMTypeOK, TreeType, Cached, Page, Slot
  <1>5. LockedHandlesStay'
    BY <1>2, <1>3 DEF LockInv, LockedHandlesStay, WellFormed, PrefixClosed, RootNotCached, NodesCached, EveryBlockInNode, BranchesAtNodes, Cached
  <1>6. RefCountsExact'
    BY <1>2, <1>3 DEF LockInv, RefCountsExact, Cached
  <1>7. OneUserPerSlot'
    BY <1>2 DEF LockInv, OneUserPerSlot, Row, Slot
  <1> QED
    BY <1>4, <1>5, <1>6, <1>7 DEF LockInv

-----------------------------------------------------------------------------
(* Admission.                                                              *)

\* The prefixes of k by length.
LEMMA PrefixOfLength ==
  ASSUME NEW S, NEW k \in Seq(S), NEW i \in 1..Len(k)
  PROVE  LET p == SubSeq(k, 1, i) IN p \in Seq(S) /\ p # <<>> /\ Len(p) = i /\ IsPrefix(p, k)
  <1> DEFINE p == SubSeq(k, 1, i)
  <1>1. p \in Seq(S) /\ Len(p) = i /\ \A j \in 1..i : p[j] = k[j]
    OBVIOUS
  <1> HIDE DEF p
  <1>2. p # <<>> /\ IsPrefix(p, k)
    BY <1>1, PrefixPointwise
  <1> QED
    BY <1>1, <1>2 DEF p

\* The pages of a cached key.
LEMMA MatchedPagesType ==
  ASSUME NEW t, TreeType(t), NEW h \in Seq(Block), Path(h) \subseteq Cached(t)
  PROVE  MatchedPages(t, h) \in Seq(Page) /\ Len(MatchedPages(t, h)) = Len(h)
  <1>1. \A i \in 1..Len(h) : t.page[SubSeq(h, 1, i)] \in Page
    <2> SUFFICES ASSUME NEW i \in 1..Len(h)
                 PROVE  t.page[SubSeq(h, 1, i)] \in Page
      OBVIOUS
    <2>1. SubSeq(h, 1, i) \in Path(h)
      BY PrefixOfLength, PathMember
    <2> QED
      BY <2>1 DEF TreeType
  <1> QED
    BY <1>1 DEF MatchedPages

\* The path to the end of a walk is cached.
LEMMA WalkCached ==
  ASSUME NEW t, TreeType(t), WellFormed(t), NEW k \in Seq(Block), NEW m, StopsAt(t, k, m)
  PROVE  /\ m \in Seq(Block) /\ IsPrefix(m, k)
         /\ m = <<>> \/ m \in Cached(t)
         /\ Path(m) \subseteq Cached(t)
  <1>1. m \in Seq(Block) /\ IsPrefix(m, k) /\ (m = <<>> \/ m \in Cached(t))
    BY PrefixesMember DEF StopsAt
  <1>2. CASE m = <<>>
    <2>1. \A p \in Path(<<>>) : FALSE
      BY DEF Path, Prefixes
    <2> QED
      BY <1>1, <1>2, <2>1
  <1>3. CASE m \in Cached(t)
    BY <1>1, <1>3 DEF WellFormed, PrefixClosed
  <1> QED
    BY <1>1, <1>2, <1>3

\* The last free slot and the others.
LEMMA SlotTaken ==
  ASSUME tableFree \in Seq(Slot), IsInjective(tableFree), Len(tableFree) > 0, TakeSlot
  PROVE  /\ Last(tableFree) \in Slot \cap ToSet(tableFree)
         /\ tableFree' \in Seq(Slot) /\ IsInjective(tableFree')
         /\ ToSet(tableFree') = ToSet(tableFree) \ {Last(tableFree)}
  <1> DEFINE n == Len(tableFree)
  <1>1. /\ n \in Nat \ {0} /\ Last(tableFree) = tableFree[n]
        /\ DOMAIN tableFree = 1..n
    BY DEF Last
  <1>2. /\ tableFree' \in Seq(Slot) /\ DOMAIN tableFree' = 1..(n - 1)
        /\ \A i \in 1..(n - 1) : tableFree'[i] = tableFree[i]
    BY <1>1 DEF TakeSlot, Front
  <1>3. IsInjective(tableFree')
    BY <1>1, <1>2 DEF IsInjective
  <1>4. ToSet(tableFree') = ToSet(tableFree) \ {Last(tableFree)}
    BY <1>1, <1>2 DEF IsInjective, ToSet
  <1>5. Last(tableFree) \in Slot \cap ToSet(tableFree)
    BY <1>1 DEF ToSet
  <1> QED
    BY <1>2, <1>3, <1>4, <1>5

LEMMA AdmitLockInv ==
  ASSUME LockInv, NEW r \in Req, NEW k \in Seq(Block), NEW m,
         r \notin held, Len(tableFree) > 0, AdmitTo(r, k, m)
  PROVE  LockInv'
  <1> DEFINE x == Last(tableFree)
             u == SplitAt(tree, m)
  <1>1. /\ StopsAt(tree, k, m) /\ tree' = Lock(u, m) /\ TakeSlot
        /\ pageTable' = [pageTable EXCEPT ![x] = MatchedPages(tree, m)]
        /\ slot' = [slot EXCEPT ![r] = x] /\ handle' = [handle EXCEPT ![r] = m]
        /\ held' = held \cup {r} /\ freeSlots' = freeSlots
    BY DEF AdmitTo
  <1>2. TreeType(tree) /\ WellFormed(tree)
    BY DEF LockInv, CMTypeOK, LockedHandlesStay
  <1>3. /\ m \in Seq(Block) /\ Path(m) \subseteq Cached(tree)
        /\ TreeType(u) /\ WellFormed(u) /\ Cached(u) = Cached(tree) /\ u.ref = tree.ref
        /\ u.page = tree.page /\ tree.nodes \subseteq u.nodes /\ (m = <<>> \/ m \in u.nodes)
    BY <1>1, <1>2, WalkCached, SplitInTree
  <1> HIDE DEF u
  <1>4. /\ TreeType(tree') /\ tree'.page = tree.page /\ tree'.nodes = u.nodes
        /\ Cached(tree') = Cached(tree)
        /\ \A p \in Cached(tree) :
              tree'.ref[p] = IF p \in Path(m) THEN tree.ref[p] + 1 ELSE tree.ref[p]
    <2>1. LET s == Lock(u, m) IN
          /\ TreeType(s) /\ s.page = u.page /\ s.nodes = u.nodes
          /\ \A p \in Cached(u) : s.ref[p] = IF p \in Path(m) THEN u.ref[p] + 1 ELSE u.ref[p]
      BY <1>3, LockFields
    <2> QED
      BY <1>1, <1>3, <2>1 DEF Cached
  <1>5. WellFormed(tree')
    BY <1>3, <1>4, SameShapeWellFormed
  <1>6. /\ x \in Slot \cap ToSet(tableFree)
        /\ tableFree' \in Seq(Slot) /\ IsInjective(tableFree')
        /\ ToSet(tableFree') = ToSet(tableFree) \ {x}
    BY <1>1, SlotTaken DEF LockInv, CMTypeOK, OneUserPerSlot
  <1>7. MatchedPages(tree, m) \in Seq(Page) /\ Len(MatchedPages(tree, m)) = Len(m)
    BY <1>2, <1>3, MatchedPagesType
  <1> HIDE DEF x
  <1>8. /\ slot \in [Req -> Slot \cup {NoSlot}] /\ handle \in [Req -> Seq(Block)]
        /\ held \subseteq Req /\ pageTable \in [Slot -> Seq(Page)] /\ freeSlots \in Seq(Page)
    BY DEF LockInv, CMTypeOK
  <1>9. /\ slot'[r] = x /\ handle'[r] = m /\ pageTable'[x] = MatchedPages(tree, m)
        /\ \A q \in held : slot'[q] = slot[q] /\ handle'[q] = handle[q]
        /\ \A z \in Slot : z # x => pageTable'[z] = pageTable[z]
    BY <1>1, <1>6, <1>8
  <1>10. CMTypeOK'
    <2>1. /\ slot' \in [Req -> Slot \cup {NoSlot}] /\ handle' \in [Req -> Seq(Block)]
          /\ held' \subseteq Req /\ pageTable' \in [Slot -> Seq(Page)]
      BY <1>1, <1>3, <1>6, <1>7, <1>8
    <2> QED
      BY <1>1, <1>4, <1>6, <1>8, <2>1 DEF CMTypeOK, TreeType, Cached, Page, Slot
  <1>11. LockedHandlesStay'
    <2>1. \A q \in held' : handle'[q] = <<>> \/ handle'[q] \in tree'.nodes
      BY <1>1, <1>3, <1>4, <1>9 DEF LockInv, LockedHandlesStay
    <2> QED
      BY <1>5, <2>1 DEF LockedHandlesStay, WellFormed, PrefixClosed, RootNotCached, NodesCached, EveryBlockInNode, BranchesAtNodes, Cached
  <1>12. RefCountsExact'
    <2> SUFFICES ASSUME NEW p \in Cached(tree)
                 PROVE  tree'.ref[p] = Cardinality({q \in held' : IsPrefix(p, handle'[q])})
      BY <1>4 DEF RefCountsExact, Cached
    <2> DEFINE A == {q \in held : IsPrefix(p, handle[q])}
               B == {q \in held' : IsPrefix(p, handle'[q])}
    <2>1. tree.ref[p] = Cardinality(A)
      BY DEF LockInv, RefCountsExact
    <2>2. p \in Seq(Block) /\ p # <<>>
      BY <1>2 DEF TreeType, WellFormed, RootNotCached
    <2>3. CASE p \in Path(m)
      <3>1. IsPrefix(p, m)
        BY <1>3, <2>3, PathMember
      <3>2. B = A \cup {r} /\ r \notin A
        BY <1>1, <1>9, <3>1
      <3>3. IsFiniteSet(A)
        BY <1>8, HeldFinite
      <3>4. Cardinality(B) = Cardinality(A) + 1
        BY <3>2, <3>3, FS_AddElement
      <3> QED
        BY <1>4, <2>1, <2>3, <3>4
    <2>4. CASE p \notin Path(m)
      <3>1. ~IsPrefix(p, m)
        BY <1>3, <2>2, <2>4, PathMember
      <3>2. B = A
        BY <1>1, <1>9, <3>1
      <3> QED
        BY <1>4, <2>1, <2>4, <3>2
    <2> QED
      BY <2>3, <2>4
  <1>13. OneUserPerSlot'
    <2>1. \A q \in held : slot[q] \in Slot /\ slot[q] # x
      BY <1>6 DEF LockInv, OneUserPerSlot
    <2>2. \A q \in held : Len(handle[q]) <= Len(pageTable[slot[q]])
      BY DEF LockInv, OneUserPerSlot, Row
    <2>3. \A q \in held' : /\ slot'[q] \in Slot
                           /\ slot'[q] \notin ToSet(tableFree')
                           /\ Len(handle'[q]) <= Len(pageTable'[slot'[q]])
      BY <1>1, <1>6, <1>7, <1>9, <2>1, <2>2 DEF LockInv, OneUserPerSlot
    <2>4. \A p, q \in held' : slot'[q] = slot'[p] => q = p
      BY <1>1, <1>9, <2>1 DEF LockInv, OneUserPerSlot
    <2> QED
      BY <1>6, <2>3, <2>4 DEF OneUserPerSlot, Row, Slot
  <1> QED
    BY <1>10, <1>11, <1>12, <1>13 DEF LockInv

-----------------------------------------------------------------------------
(* Growth and eviction.                                                    *)

\* The free list gives its first n pages away.
LEMMA PagesTaken ==
  ASSUME NEW S, NEW f \in Seq(S), NEW n \in 0..Len(f)
  PROVE  LET a == SubSeq(f, 1, n)
             b == SubSeq(f, n + 1, Len(f)) IN
         /\ a \in Seq(S) /\ Len(a) = n /\ \A i \in 1..n : a[i] = f[i]
         /\ b \in Seq(S) /\ Len(b) = Len(f) - n /\ \A i \in 1..Len(b) : b[i] = f[n + i]
  OBVIOUS

LEMMA GrowLockInv ==
  ASSUME LockInv, NEW r \in Req, NEW n \in Nat, Grow(r, n)
  PROVE  LockInv'
  <1> DEFINE a == SubSeq(freeSlots, 1, n)
  <1>1. /\ r \in held /\ n <= Len(freeSlots)
        /\ pageTable' = [pageTable EXCEPT ![slot[r]] = @ \o a]
        /\ freeSlots' = SubSeq(freeSlots, n + 1, Len(freeSlots))
        /\ UNCHANGED <<tree, tableFree, held, handle, slot>>
    BY DEF Grow, TakePages
  <1>2. /\ freeSlots \in Seq(Page) /\ pageTable \in [Slot -> Seq(Page)] /\ slot[r] \in Slot
    BY <1>1 DEF LockInv, CMTypeOK, OneUserPerSlot
  <1>3. a \in Seq(Page) /\ freeSlots' \in Seq(Page)
    BY <1>1, <1>2, PagesTaken
  <1> HIDE DEF a
  <1>4. /\ pageTable' \in [Slot -> Seq(Page)]
        /\ pageTable'[slot[r]] = pageTable[slot[r]] \o a
        /\ \A z \in Slot : z # slot[r] => pageTable'[z] = pageTable[z]
    BY <1>1, <1>2, <1>3
  <1>5. CMTypeOK'
    BY <1>1, <1>3, <1>4 DEF LockInv, CMTypeOK, TreeType, Cached, Page, Slot
  <1>6. LockedHandlesStay'
    BY <1>1 DEF LockInv, LockedHandlesStay, WellFormed, PrefixClosed, RootNotCached, NodesCached, EveryBlockInNode, BranchesAtNodes, Cached
  <1>7. RefCountsExact'
    BY <1>1 DEF LockInv, RefCountsExact, Cached
  <1>8. OneUserPerSlot'
    <2>1. ASSUME NEW z \in Slot
          PROVE  Len(pageTable[z]) <= Len(pageTable'[z])
      <3>1. pageTable[z] \in Seq(Page) /\ Len(pageTable[z]) \in Nat /\ Len(a) \in Nat
        BY <1>2, <1>3
      <3>2. CASE z = slot[r]
        <4>1. Len(pageTable[z] \o a) = Len(pageTable[z]) + Len(a)
          BY <1>3, <3>1
        <4> QED
          BY <1>4, <3>1, <3>2, <4>1
      <3> QED
        BY <1>4, <3>1, <3>2
    <2>2. \A q \in held : Len(handle[q]) \in Nat /\ Len(handle[q]) <= Len(pageTable[slot[q]]) /\ slot[q] \in Slot
      BY DEF LockInv, OneUserPerSlot, Row, CMTypeOK
    <2>3. \A q \in held : Len(handle[q]) <= Len(pageTable'[slot[q]])
      BY <1>2, <1>4, <2>1, <2>2
    <2> QED
      BY <1>1, <2>3 DEF LockInv, OneUserPerSlot, Row, Slot
  <1> QED
    BY <1>5, <1>6, <1>7, <1>8 DEF LockInv

\* The pages of a node.
LEMMA NodePagesType ==
  ASSUME NEW t, TreeType(t), WellFormed(t), NEW n \in t.nodes, NEW b, IsParent(t, b, n)
  PROVE  /\ n \in Seq(Block) /\ b \in Seq(Block) /\ Len(b) < Len(n) /\ IsPrefix(b, n)
         /\ Path(n) \subseteq Cached(t)
         /\ NodePages(t, n, b) \in Seq(Page)
         /\ Len(NodePages(t, n, b)) = Len(n) - Len(b)
  <1>1. n \in Seq(Block) /\ Path(n) \subseteq Cached(t)
    BY DEF TreeType, WellFormed, PrefixClosed
  <1>2. b \in Seq(Block)
    <2>1. <<>> \in Seq(Block)
      OBVIOUS
    <2> QED
      BY <2>1 DEF IsParent, TreeType
  <1>3. Len(b) < Len(n) /\ IsPrefix(b, n)
    BY <1>1, <1>2, PrefixPointwise, PrefixAntisymmetric DEF IsParent, IsStrictPrefix
  <1>4. \A i \in 1..(Len(n) - Len(b)) : t.page[SubSeq(n, 1, Len(b) + i)] \in Page
    <2> SUFFICES ASSUME NEW i \in 1..(Len(n) - Len(b))
                 PROVE  t.page[SubSeq(n, 1, Len(b) + i)] \in Page
      OBVIOUS
    <2>1. Len(b) + i \in 1..Len(n)
      BY <1>1, <1>2
    <2>2. SubSeq(n, 1, Len(b) + i) \in Path(n)
      BY <1>1, <2>1, PrefixOfLength, PathMember
    <2> QED
      BY <1>1, <2>2 DEF TreeType
  <1>5. Len(n) - Len(b) \in Nat
    BY <1>1, <1>2, <1>3
  <1>6. NodePages(t, n, b) \in Seq(Page) /\ Len(NodePages(t, n, b)) = Len(n) - Len(b)
    BY <1>4, <1>5 DEF NodePages
  <1> QED
    BY <1>1, <1>2, <1>3, <1>6

LEMMA EvictLockInv ==
  ASSUME LockInv, EvictLeaf
  PROVE  LockInv'
  <1>0. PICK n \in tree.nodes : \E b \in Prefixes(n) :
          /\ IsVictim(tree, n) /\ IsParent(tree, b, n)
          /\ tree' = RemoveLeaf(tree, n, b)
          /\ freeSlots' = freeSlots \o NodePages(tree, n, b)
    BY DEF EvictLeaf
  <1>1. PICK b \in Prefixes(n) :
          /\ IsVictim(tree, n) /\ IsParent(tree, b, n)
          /\ tree' = RemoveLeaf(tree, n, b)
          /\ freeSlots' = freeSlots \o NodePages(tree, n, b)
    BY <1>0
  <1>2. UNCHANGED <<tableFree, pageTable, held, handle, slot>>
    BY DEF EvictLeaf
  <1>3. TreeType(tree) /\ WellFormed(tree)
    BY DEF LockInv, CMTypeOK, LockedHandlesStay
  <1>4. /\ TreeType(tree') /\ tree'.nodes = tree.nodes \ {n}
        /\ Cached(tree') \subseteq Cached(tree)
        /\ \A p \in Cached(tree') : tree'.ref[p] = tree.ref[p]
    BY <1>1, <1>3, RemoveFields
  <1>5. WellFormed(tree')
    BY <1>1, <1>3, RemoveWellFormed DEF IsVictim
  <1>6. n \in Cached(tree) /\ n \in Seq(Block)
    BY <1>3 DEF TreeType
  <1>7. \A q \in held : handle[q] # n
    <2>1. Cardinality(Holders(n)) = 0
      BY <1>1, <1>6 DEF IsVictim, LockInv, RefCountsExact, Holders
    <2>2. IsFiniteSet(Holders(n))
      BY HeldFinite DEF LockInv, CMTypeOK, Holders
    <2>3. Holders(n) = {}
      BY <2>1, <2>2, FS_EmptySet
    <2> QED
      BY <1>6, <2>3, PrefixReflexive DEF Holders
  <1>8. CMTypeOK'
    <2>1. freeSlots' \in Seq(Page)
      BY <1>1, <1>3, NodePagesType DEF LockInv, CMTypeOK
    <2> QED
      BY <1>2, <1>4, <2>1 DEF LockInv, CMTypeOK, TreeType, Cached, Page, Slot
  <1>9. LockedHandlesStay'
    <2>1. \A q \in held : handle[q] = <<>> \/ handle[q] \in tree'.nodes
      BY <1>4, <1>7 DEF LockInv, LockedHandlesStay
    <2> QED
      BY <1>2, <1>5, <2>1 DEF LockedHandlesStay, WellFormed, PrefixClosed, RootNotCached, NodesCached, EveryBlockInNode, BranchesAtNodes, Cached
  <1>10. RefCountsExact'
    BY <1>2, <1>4 DEF LockInv, RefCountsExact, Cached
  <1>11. OneUserPerSlot'
    BY <1>2 DEF LockInv, OneUserPerSlot, Row, Slot
  <1> QED
    BY <1>8, <1>9, <1>10, <1>11 DEF LockInv

-----------------------------------------------------------------------------
(* cache_req: the tree between the unlock of the old handle and, for an    *)
(* unfinished request, the lock of the new one.                            *)

LEMMA InsertedFacts ==
  ASSUME LockInv, NEW r \in Req, NEW k \in Seq(Block), NEW m,
         Cacheable(r, k), StopsAt(tree, k, m)
  PROVE  LET s == Inserted(r, k, m) IN
         /\ TreeType(s) /\ WellFormed(s)
         /\ Cached(s) = Cached(tree) \cup Path(k)
         /\ tree.nodes \subseteq s.nodes /\ (k = <<>> \/ k \in s.nodes)
         /\ \A p \in Cached(tree) : s.page[p] = tree.page[p]
         /\ \A p \in Path(k) \ Cached(tree) : s.page[p] = Row(r)[Len(p)]
         /\ \A p \in Cached(s) : s.ref[p] = Cardinality(Holders(p) \ {r})
  <1> DEFINE h == handle[r]
             i == Insert(tree, k, m, Row(r))
             s == Inserted(r, k, m)
  <1>1. TreeType(tree) /\ WellFormed(tree)
    BY DEF LockInv, CMTypeOK, LockedHandlesStay
  <1>2. /\ r \in held /\ Len(k) <= Len(Row(r)) /\ Row(r) \in Seq(Page)
        /\ h \in Seq(Block) /\ Path(h) \subseteq Cached(tree)
    BY HandlesCached DEF Cacheable
  <1>3. m \in Seq(Block) /\ (m = <<>> \/ m \in Cached(tree)) /\ Path(m) \subseteq Cached(tree)
    BY <1>1, WalkCached
  <1>4. /\ TreeType(i) /\ WellFormed(i)
        /\ Cached(i) = Cached(tree) \cup Path(k)
        /\ tree.nodes \subseteq i.nodes /\ (k = <<>> \/ k \in i.nodes)
        /\ \A p \in Cached(tree) : i.page[p] = tree.page[p] /\ i.ref[p] = tree.ref[p]
        /\ \A p \in Path(k) \ Cached(tree) : i.page[p] = Row(r)[Len(p)] /\ i.ref[p] = 0
    <2>1. WellFormed(i) /\ TreeType(i)
      BY <1>1, <1>2, InsertWellFormed, InsertFields
    <2>2. CASE m = k
      <3>1. i = SplitAt(tree, m)
        BY <1>1, <1>2, <2>2, InsertFields
      <3>2. LET u == SplitAt(tree, m) IN
            /\ u.page = tree.page /\ u.ref = tree.ref
            /\ u.nodes = tree.nodes \cup ({m} \ {<<>>})
        BY <1>1, <1>3, SplitFields
      <3> HIDE DEF i
      <3> QED
        BY <1>3, <2>1, <2>2, <3>1, <3>2 DEF Cached
    <2>3. CASE m # k
      <3>1. /\ Cached(i) = Cached(tree) \cup Path(k)
            /\ i.nodes = (tree.nodes \cup ({m} \ {<<>>})) \cup {k}
            /\ \A p \in Cached(tree) : i.page[p] = tree.page[p] /\ i.ref[p] = tree.ref[p]
            /\ \A p \in Path(k) \ Cached(tree) : i.page[p] = Row(r)[Len(p)] /\ i.ref[p] = 0
        BY <1>1, <1>2, <2>3, InsertFields
      <3> HIDE DEF i
      <3> QED
        BY <2>1, <3>1
    <2> QED
      BY <2>2, <2>3
  <1>5. /\ TreeType(s) /\ s.page = i.page /\ s.nodes = i.nodes
        /\ \A p \in Cached(i) : s.ref[p] = IF p \in Path(h) THEN i.ref[p] - 1 ELSE i.ref[p]
    <2>1. s = Unlock(i, h)
      BY DEF Inserted
    <2>2. LET v == Unlock(i, h) IN
          /\ TreeType(v) /\ v.page = i.page /\ v.nodes = i.nodes
          /\ \A p \in Cached(i) : v.ref[p] = IF p \in Path(h) THEN i.ref[p] - 1 ELSE i.ref[p]
      BY <1>2, <1>4, UnlockFields
    <2> HIDE DEF s, i, h
    <2> QED
      BY <2>1, <2>2
  <1> HIDE DEF s, i, h
  <1>6. Cached(s) = Cached(i) /\ WellFormed(s)
    <2>1. Cached(s) = Cached(i)
      BY <1>5 DEF Cached
    <2> QED
      BY <1>4, <1>5, <2>1, SameShapeWellFormed
  <1>7. ASSUME NEW p \in Cached(i)
        PROVE  s.ref[p] = Cardinality(Holders(p) \ {r})
    <2>1. p \in Seq(Block) /\ p # <<>>
      BY <1>4 DEF TreeType, WellFormed, RootNotCached
    <2>2. IsFiniteSet(Holders(p))
      BY HeldFinite DEF LockInv, CMTypeOK, Holders
    <2>3. i.ref[p] = Cardinality(Holders(p))
      <3>1. CASE p \in Cached(tree)
        BY <1>4, <3>1 DEF LockInv, RefCountsExact, Holders
      <3>2. CASE p \notin Cached(tree)
        BY <1>4, <2>1, <3>2, UncachedUnheld, FS_EmptySet
      <3> QED
        BY <3>1, <3>2
    <2>4. p \in Path(h) <=> r \in Holders(p)
      BY <1>2, <2>1, PathMember DEF Holders, h
    <2>5. CASE r \in Holders(p)
      BY <1>5, <2>2, <2>3, <2>4, <2>5, FS_RemoveElement
    <2>6. CASE r \notin Holders(p)
      <3>1. Holders(p) \ {r} = Holders(p)
        BY <2>6
      <3> QED
        BY <1>5, <2>3, <2>4, <2>6, <3>1
    <2> QED
      BY <2>5, <2>6
  <1> QED
    BY <1>4, <1>5, <1>6, <1>7 DEF s

LEMMA ExtendLockInv ==
  ASSUME LockInv, NEW r \in Req, NEW k \in Seq(Block), Extend(r, k)
  PROVE  LockInv'
  <1>1. PICK m \in Prefixes(k) :
          /\ StopsAt(tree, k, m)
          /\ tree' = Lock(Inserted(r, k, m), k)
          /\ freeSlots' = freeSlots \o Duplicates(r, m)
    BY DEF Extend, CacheUnfinished
  <1>2. /\ handle' = [handle EXCEPT ![r] = k] /\ Cacheable(r, k)
        /\ UNCHANGED <<tableFree, pageTable, held, slot>>
    BY DEF Extend, CacheUnfinished
  <1> DEFINE s == Inserted(r, k, m)
  <1>3. /\ TreeType(s) /\ WellFormed(s)
        /\ tree.nodes \subseteq s.nodes /\ (k = <<>> \/ k \in s.nodes)
        /\ Cached(s) = Cached(tree) \cup Path(k)
        /\ \A p \in Cached(s) : s.ref[p] = Cardinality(Holders(p) \ {r})
    <2>1. LockInv /\ Cacheable(r, k) /\ StopsAt(tree, k, m)
      BY <1>1, <1>2
    <2> HIDE DEF s
    <2> QED
      BY <2>1, InsertedFacts DEF s
  <1> HIDE DEF s
  <1>4. LET u == Lock(s, k) IN
        /\ TreeType(u) /\ u.page = s.page /\ u.nodes = s.nodes
        /\ \A p \in Cached(s) : u.ref[p] = IF p \in Path(k) THEN s.ref[p] + 1 ELSE s.ref[p]
    BY <1>3, LockFields
  <1>5. /\ TreeType(tree') /\ tree'.nodes = s.nodes /\ Cached(tree') = Cached(s)
        /\ \A p \in Cached(s) : tree'.ref[p] = IF p \in Path(k) THEN s.ref[p] + 1 ELSE s.ref[p]
    BY <1>1, <1>4 DEF Cached, s
  <1>6. WellFormed(tree')
    BY <1>3, <1>5, SameShapeWellFormed
  <1>7. /\ handle \in [Req -> Seq(Block)] /\ held \subseteq Req /\ r \in held
        /\ freeSlots \in Seq(Page) /\ Row(r) \in Seq(Page) /\ Len(k) <= Len(Row(r))
    BY <1>2, HandlesCached DEF LockInv, CMTypeOK, Cacheable
  <1>8. handle' \in [Req -> Seq(Block)] /\ handle'[r] = k /\ \A q \in Req \ {r} : handle'[q] = handle[q]
    BY <1>2, <1>7
  <1>9. CMTypeOK'
    <2>1. Len(handle[r]) \in Nat /\ Len(m) \in Nat /\ Len(m) <= Len(k)
      BY <1>1, <1>7, PrefixesMember, PrefixPointwise
    <2>2. Duplicates(r, m) \in Seq(Page)
      BY <1>7, <2>1 DEF Duplicates
    <2>3. freeSlots' \in Seq(Page)
      BY <1>1, <1>7, <2>2
    <2> QED
      BY <1>2, <1>5, <1>8, <2>3 DEF LockInv, CMTypeOK, TreeType, Cached, Page, Slot
  <1>10. LockedHandlesStay'
    <2>1. \A q \in held' : handle'[q] = <<>> \/ handle'[q] \in tree'.nodes
      BY <1>2, <1>3, <1>5, <1>7, <1>8 DEF LockInv, LockedHandlesStay
    <2> QED
      BY <1>6, <2>1 DEF LockedHandlesStay, WellFormed, PrefixClosed, RootNotCached, NodesCached, EveryBlockInNode, BranchesAtNodes, Cached
  <1>11. RefCountsExact'
    <2> SUFFICES ASSUME NEW p \in Cached(s)
                 PROVE  tree'.ref[p] = Cardinality({q \in held : IsPrefix(p, handle'[q])})
      BY <1>2, <1>5 DEF RefCountsExact, Cached
    <2> DEFINE A == Holders(p) \ {r}
               B == {q \in held : IsPrefix(p, handle'[q])}
    <2>1. p \in Seq(Block) /\ p # <<>>
      BY <1>3 DEF TreeType, WellFormed, RootNotCached
    <2>2. IsFiniteSet(A)
      BY <1>7, HeldFinite DEF Holders
    <2>3. CASE p \in Path(k)
      <3>1. B = A \cup {r} /\ r \notin A
        BY <1>7, <1>8, <2>3, PathMember DEF Holders
      <3>2. Cardinality(B) = Cardinality(A) + 1
        BY <2>2, <3>1, FS_AddElement
      <3> QED
        BY <1>3, <1>5, <2>3, <3>2
    <2>4. CASE p \notin Path(k)
      <3>1. B = A
        BY <1>7, <1>8, <2>1, <2>4, PathMember DEF Holders
      <3> QED
        BY <1>3, <1>5, <2>4, <3>1
    <2> QED
      BY <2>3, <2>4
  <1>12. OneUserPerSlot'
    BY <1>2, <1>7, <1>8 DEF LockInv, OneUserPerSlot, Row, Slot
  <1> QED
    BY <1>9, <1>10, <1>11, <1>12 DEF LockInv

LEMMA SlotFreed ==
  ASSUME NEW x \in Slot, tableFree \in Seq(Slot), IsInjective(tableFree),
         x \notin ToSet(tableFree), FreeSlot(x)
  PROVE  /\ tableFree' \in Seq(Slot) /\ IsInjective(tableFree')
         /\ ToSet(tableFree') = ToSet(tableFree) \cup {x}
  <1> DEFINE n == Len(tableFree)
  <1>1. /\ n \in Nat /\ DOMAIN tableFree = 1..n
        /\ \A i \in 1..n : tableFree[i] # x
    BY DEF ToSet
  <1>2. /\ tableFree' \in Seq(Slot) /\ DOMAIN tableFree' = 1..(n + 1)
        /\ tableFree'[n + 1] = x
        /\ \A i \in 1..n : tableFree'[i] = tableFree[i]
    BY DEF FreeSlot
  <1>3. IsInjective(tableFree')
    BY <1>1, <1>2 DEF IsInjective
  <1>4. ToSet(tableFree') = ToSet(tableFree) \cup {x}
    <2>1. \A y : y \in ToSet(tableFree') => y \in ToSet(tableFree) \cup {x}
      BY <1>1, <1>2 DEF ToSet
    <2>2. \A y \in ToSet(tableFree) : y \in ToSet(tableFree')
      BY <1>1, <1>2 DEF ToSet
    <2>3. x \in ToSet(tableFree')
      BY <1>1, <1>2 DEF ToSet
    <2> QED
      BY <2>1, <2>2, <2>3
  <1> QED
    BY <1>2, <1>3, <1>4

LEMMA ReleaseLockInv ==
  ASSUME LockInv, NEW r \in Req, NEW k \in Seq(Block), Release(r, k)
  PROVE  LockInv'
  <1>1. PICK m \in Prefixes(k) :
          /\ StopsAt(tree, k, m)
          /\ tree' = Inserted(r, k, m)
          /\ freeSlots' = freeSlots \o Duplicates(r, m) \o Leftover(r, k)
    BY DEF Release, FreeResources
  <1>2. /\ Cacheable(r, k) /\ FreeSlot(slot[r]) /\ held' = held \ {r}
        /\ UNCHANGED <<pageTable, handle, slot>>
    BY DEF Release, FreeResources
  <1>3. /\ TreeType(tree') /\ WellFormed(tree')
        /\ Cached(tree') = Cached(tree) \cup Path(k)
        /\ tree.nodes \subseteq tree'.nodes
        /\ \A p \in Cached(tree') : tree'.ref[p] = Cardinality(Holders(p) \ {r})
    <2>1. LockInv /\ Cacheable(r, k) /\ StopsAt(tree, k, m)
      BY <1>1, <1>2
    <2> DEFINE s == Inserted(r, k, m)
    <2>2. /\ TreeType(s) /\ WellFormed(s)
          /\ Cached(s) = Cached(tree) \cup Path(k)
          /\ tree.nodes \subseteq s.nodes
          /\ \A p \in Cached(s) : s.ref[p] = Cardinality(Holders(p) \ {r})
      <3> HIDE DEF s
      <3> QED
        BY <2>1, InsertedFacts DEF s
    <2> HIDE DEF s
    <2> QED
      BY <1>1, <2>2 DEF s
  <1>4. /\ held \subseteq Req /\ r \in held
        /\ freeSlots \in Seq(Page) /\ Row(r) \in Seq(Page) /\ Len(k) <= Len(Row(r))
        /\ handle[r] \in Seq(Block)
    BY <1>2, HandlesCached DEF LockInv, CMTypeOK, Cacheable
  <1>5. /\ tableFree' \in Seq(Slot) /\ IsInjective(tableFree')
        /\ ToSet(tableFree') = ToSet(tableFree) \cup {slot[r]}
    BY <1>2, <1>4, SlotFreed DEF LockInv, CMTypeOK, OneUserPerSlot
  <1>6. CMTypeOK'
    <2>1. Len(handle[r]) \in Nat /\ Len(m) \in Nat /\ Len(m) <= Len(k) /\ Len(k) \in Nat
      BY <1>1, <1>4, PrefixesMember, PrefixPointwise
    <2>2. Duplicates(r, m) \in Seq(Page)
      BY <1>4, <2>1 DEF Duplicates
    <2>3. Leftover(r, k) \in Seq(Page)
      BY <1>4, <2>1 DEF Leftover
    <2>4. freeSlots' \in Seq(Page)
      BY <1>1, <1>4, <2>2, <2>3
    <2> QED
      BY <1>2, <1>3, <1>5, <2>4 DEF LockInv, CMTypeOK, TreeType, Cached, Page, Slot
  <1>7. LockedHandlesStay'
    <2>1. \A q \in held' : handle'[q] = <<>> \/ handle'[q] \in tree'.nodes
      BY <1>2, <1>3 DEF LockInv, LockedHandlesStay
    <2> QED
      BY <1>3, <2>1 DEF LockedHandlesStay, WellFormed, PrefixClosed, RootNotCached, NodesCached, EveryBlockInNode, BranchesAtNodes, Cached
  <1>8. RefCountsExact'
    <2>1. \A p : Holders(p) \ {r} = {q \in held' : IsPrefix(p, handle'[q])}
      BY <1>2 DEF Holders
    <2> QED
      BY <1>3, <2>1 DEF RefCountsExact, Cached
  <1>9. OneUserPerSlot'
    <2>1. \A q \in held' : /\ slot[q] \in Slot /\ slot[q] \notin ToSet(tableFree')
                           /\ Len(handle[q]) <= Len(pageTable[slot[q]])
      BY <1>2, <1>4, <1>5 DEF LockInv, OneUserPerSlot, Row
    <2>2. \A p, q \in held' : slot[q] = slot[p] => q = p
      BY <1>2 DEF LockInv, OneUserPerSlot
    <2> QED
      BY <1>2, <1>5, <2>1, <2>2 DEF OneUserPerSlot, Row, Slot
  <1> QED
    BY <1>6, <1>7, <1>8, <1>9 DEF LockInv

-----------------------------------------------------------------------------
(* The invariant.                                                          *)

LEMMA StepLockInv == LockInv /\ [CMNext]_cmVars => LockInv'
  <1> SUFFICES ASSUME LockInv, [CMNext]_cmVars PROVE LockInv'
    OBVIOUS
  <1>1. CASE EvictLeaf
    BY <1>1, EvictLockInv
  <1>2. ASSUME NEW k \in Key, Refuse(k) PROVE LockInv'
    BY <1>2, MatchOnlyLockInv, KeyAssumption DEF Refuse
  <1>3. ASSUME NEW r \in Req, NEW k \in Key, Admit(r, k) PROVE LockInv'
    <2>1. PICK m \in Prefixes(k) : AdmitTo(r, k, m)
      BY <1>3 DEF Admit
    <2> QED
      BY <1>3, <2>1, AdmitLockInv, KeyAssumption DEF Admit
  <1>4. ASSUME NEW r \in Req, NEW n \in 1..MaxRow, Grow(r, n) PROVE LockInv'
    BY <1>4, GrowLockInv, MaxRowAssumption
  <1>5. ASSUME NEW r \in Req, NEW k \in Key, Extend(r, k) PROVE LockInv'
    BY <1>5, ExtendLockInv, KeyAssumption
  <1>6. ASSUME NEW r \in Req, NEW k \in Key, Release(r, k) PROVE LockInv'
    BY <1>6, ReleaseLockInv, KeyAssumption
  <1>7. CASE UNCHANGED cmVars
    <2>1. UNCHANGED <<tree, freeSlots, tableFree, pageTable, held, handle, slot>>
      BY <1>7 DEF cmVars
    <2>2. CMTypeOK'
      BY <2>1 DEF LockInv, CMTypeOK, TreeType, Cached, Page, Slot
    <2>3. LockedHandlesStay'
      BY <2>1 DEF LockInv, LockedHandlesStay, WellFormed, PrefixClosed, RootNotCached, NodesCached, EveryBlockInNode, BranchesAtNodes, Cached
    <2>4. RefCountsExact' /\ OneUserPerSlot'
      BY <2>1 DEF LockInv, RefCountsExact, OneUserPerSlot, Row, Slot, Cached
    <2> QED
      BY <2>2, <2>3, <2>4 DEF LockInv
  <1> QED
    BY <1>1, <1>2, <1>3, <1>4, <1>5, <1>6, <1>7 DEF CMNext

\* The strengthening of the lock properties that is inductive on its own.
LEMMA LockInvariant == CMSpec => []LockInv
  BY InitLockInv, StepLockInv, PTL DEF CMSpec

\* Whatever its callers do within the contract, every variable keeps its type.
THEOREM TypeCorrect == CMSpec => []CMTypeOK
  BY LockInvariant, PTL DEF LockInv

\* The tree stays a tree and eviction never removes a node a request has locked.
THEOREM LocksHold == CMSpec => []LockedHandlesStay
  BY LockInvariant, PTL DEF LockInv

\* The reference count of every cached block is the number of its users, also
\* after nodes were split, extended and removed around it.
THEOREM CountsAreUsers == CMSpec => []RefCountsExact
  BY LockInvariant, PTL DEF LockInv

\* No slot of the page table ever has two users, or is free while it has one.
THEOREM SlotsApart == CMSpec => []OneUserPerSlot
  BY LockInvariant, PTL DEF LockInv

-----------------------------------------------------------------------------
(* Pages in sequences.                                                     *)

LEMMA InSequence ==
  ASSUME NEW S, NEW f \in Seq(S)
  PROVE  \A x : x \in ToSet(f) <=> \E i \in 1..Len(f) : f[i] = x
  BY DEF ToSet

LEMMA InjectiveSequence ==
  ASSUME NEW S, NEW f \in Seq(S)
  PROVE  IsInjective(f) <=> \A i, j \in 1..Len(f) : f[i] = f[j] => i = j
  BY DEF IsInjective

LEMMA ConcatFields ==
  ASSUME NEW S, NEW f \in Seq(S), NEW g \in Seq(S)
  PROVE  LET c == f \o g IN
         /\ c \in Seq(S) /\ Len(c) = Len(f) + Len(g)
         /\ \A i \in 1..Len(f) : c[i] = f[i]
         /\ \A i \in 1..Len(g) : c[Len(f) + i] = g[i]
  OBVIOUS

\* Two lists without a common page, put one behind the other.
LEMMA ConcatPages ==
  ASSUME NEW S, NEW f \in Seq(S), NEW g \in Seq(S)
  PROVE  /\ f \o g \in Seq(S)
         /\ ToSet(f \o g) = ToSet(f) \cup ToSet(g)
         /\ IsInjective(f) /\ IsInjective(g) /\ ToSet(f) \cap ToSet(g) = {} => IsInjective(f \o g)
  <1> DEFINE c == f \o g
  <1>1. /\ c \in Seq(S) /\ Len(c) = Len(f) + Len(g)
        /\ \A i \in 1..Len(f) : c[i] = f[i]
        /\ \A i \in 1..Len(g) : c[Len(f) + i] = g[i]
        /\ Len(f) \in Nat /\ Len(g) \in Nat
    BY ConcatFields
  <1> HIDE DEF c
  <1>2. \A i \in 1..Len(c) : \/ i \in 1..Len(f) /\ c[i] = f[i]
                             \/ i - Len(f) \in 1..Len(g) /\ c[i] = g[i - Len(f)]
    <2> SUFFICES ASSUME NEW i \in 1..Len(c), i \notin 1..Len(f)
                 PROVE  i - Len(f) \in 1..Len(g) /\ c[i] = g[i - Len(f)]
      BY <1>1
    <2>1. i - Len(f) \in 1..Len(g) /\ Len(f) + (i - Len(f)) = i
      BY <1>1
    <2> QED
      BY <1>1, <2>1
  <1>3. ToSet(c) = ToSet(f) \cup ToSet(g)
    <2>1. \A x \in ToSet(c) : x \in ToSet(f) \cup ToSet(g)
      BY <1>1, <1>2, InSequence
    <2>2. \A x \in ToSet(f) : x \in ToSet(c)
      BY <1>1, InSequence
    <2>3. ASSUME NEW x \in ToSet(g) PROVE x \in ToSet(c)
      <3>1. PICK i \in 1..Len(g) : g[i] = x
        BY InSequence
      <3>2. Len(f) + i \in 1..Len(c) /\ c[Len(f) + i] = x
        BY <1>1, <3>1
      <3> QED
        BY <1>1, <3>2, InSequence
    <2> QED
      BY <2>1, <2>2, <2>3
  <1>4. ASSUME IsInjective(f), IsInjective(g), ToSet(f) \cap ToSet(g) = {}
        PROVE  IsInjective(c)
    <2> SUFFICES ASSUME NEW i \in 1..Len(c), NEW j \in 1..Len(c), c[i] = c[j]
                 PROVE  i = j
      BY <1>1, InjectiveSequence
    <2>1. CASE i \in 1..Len(f) /\ j \in 1..Len(f)
      BY <1>1, <1>4, <2>1, InjectiveSequence
    <2>2. CASE i \notin 1..Len(f) /\ j \notin 1..Len(f)
      <3>1. /\ i - Len(f) \in 1..Len(g) /\ j - Len(f) \in 1..Len(g)
            /\ g[i - Len(f)] = g[j - Len(f)]
        BY <1>2, <2>2
      <3>2. i - Len(f) = j - Len(f)
        BY <1>4, <3>1, InjectiveSequence
      <3> QED
        BY <1>1, <3>2
    <2>3. ASSUME NEW x \in 1..Len(c)
          PROVE  IF x \in 1..Len(f) THEN c[x] \in ToSet(f) ELSE c[x] \in ToSet(g)
      <3>1. CASE x \in 1..Len(f)
        <4>1. c[x] = f[x]
          BY <1>1, <3>1
        <4>2. f[x] \in ToSet(f)
          BY <3>1, InSequence
        <4> QED
          BY <3>1, <4>1, <4>2
      <3>2. CASE x \notin 1..Len(f)
        <4>1. x - Len(f) \in 1..Len(g) /\ c[x] = g[x - Len(f)]
          BY <1>2, <3>2
        <4>2. g[x - Len(f)] \in ToSet(g)
          BY <4>1, InSequence
        <4> QED
          BY <3>2, <4>1, <4>2
      <3> QED
        BY <3>1, <3>2
    <2>4. i \in 1..Len(f) <=> j \in 1..Len(f)
      BY <1>4, <2>3
    <2> QED
      BY <2>1, <2>2, <2>4
  <1> QED
    BY <1>1, <1>3, <1>4 DEF c

\* The pages of positions i to j of a list.
PagesAt(f, i, j) == {f[x] : x \in i..j}

LEMMA PiecePages ==
  ASSUME NEW S, NEW f \in Seq(S), NEW i \in Nat \ {0}, NEW j \in 0..Len(f)
  PROVE  LET a == SubSeq(f, i, j) IN
         /\ a \in Seq(S)
         /\ ToSet(a) = PagesAt(f, i, j)
         /\ (\A x, y \in i..j : f[x] = f[y] => x = y) => IsInjective(a)
  <1> DEFINE a == SubSeq(f, i, j)
             n == IF i <= j THEN j - i + 1 ELSE 0
  <1>1. /\ a \in Seq(S) /\ Len(a) = n /\ n \in Nat
        /\ \A x \in 1..n : a[x] = f[i + x - 1]
    OBVIOUS
  <1>2. /\ \A x \in 1..n : i + x - 1 \in i..j
        /\ \A x \in i..j : x - i + 1 \in 1..n /\ i + (x - i + 1) - 1 = x
    OBVIOUS
  <1> HIDE DEF a, n
  <1>3. ToSet(a) = PagesAt(f, i, j)
    <2>1. ASSUME NEW y \in ToSet(a) PROVE y \in PagesAt(f, i, j)
      <3>1. PICK x \in 1..n : a[x] = y
        BY <1>1, InSequence
      <3> QED
        BY <1>1, <1>2, <3>1 DEF PagesAt
    <2>2. ASSUME NEW x \in i..j PROVE f[x] \in ToSet(a)
      <3>1. a[x - i + 1] = f[x]
        BY <1>1, <1>2
      <3> QED
        BY <1>1, <1>2, <3>1, InSequence
    <2> QED
      BY <2>1, <2>2 DEF PagesAt
  <1>4. ASSUME \A x, y \in i..j : f[x] = f[y] => x = y
        PROVE  IsInjective(a)
    <2> SUFFICES ASSUME NEW x \in 1..n, NEW y \in 1..n, a[x] = a[y]
                 PROVE  x = y
      BY <1>1, InjectiveSequence
    <2>1. /\ i + x - 1 \in i..j /\ i + y - 1 \in i..j
          /\ f[i + x - 1] = f[i + y - 1]
      BY <1>1, <1>2
    <2>2. i + x - 1 = i + y - 1
      BY <1>4, <2>1
    <2>3. x \in Int /\ y \in Int
      BY <1>1
    <2> QED
      BY <2>2, <2>3
  <1> QED
    BY <1>1, <1>3, <1>4 DEF a

-----------------------------------------------------------------------------
(* Steps that move no page.                                                *)

LEMMA InCache ==
  ASSUME NEW t
  PROVE  \A x : x \in Range(t.page) <=> \E p \in Cached(t) : t.page[p] = x
  BY DEF Range, Cached

LEMMA SamePages ==
  ASSUME OneOwnerPerPage, NoPageLost,
         freeSlots' = freeSlots, tree'.page = tree.page, held \subseteq held',
         \A q \in held : Row(q)' = Row(q) /\ handle'[q] = handle[q],
         \A q \in held' \ held : Private(q)' = {}
  PROVE  OneOwnerPerPage' /\ NoPageLost'
  <1>1. \A q \in held : Private(q)' = Private(q)
    BY DEF Private
  <1>2. NoPageTwiceFree' /\ NoPageTwiceCached' /\ FreeNotCached'
    BY DEF OneOwnerPerPage, NoPageTwiceFree, NoPageTwiceCached, FreeNotCached
  <1>3. PrivatePagesApart'
    <2> SUFFICES ASSUME NEW r \in held', NEW i \in Private(r)'
                 PROVE  /\ Row(r)'[i] \notin ToSet(freeSlots')
                        /\ Row(r)'[i] \notin Range(tree'.page)
                        /\ \A q \in held' : \A j \in Private(q)' :
                              Row(q)'[j] = Row(r)'[i] => q = r /\ j = i
      BY DEF PrivatePagesApart
    <2>1. r \in held /\ i \in Private(r)
      BY <1>1
    <2>2. /\ Row(r)[i] \notin ToSet(freeSlots) /\ Row(r)[i] \notin Range(tree.page)
          /\ \A q \in held : \A j \in Private(q) : Row(q)[j] = Row(r)[i] => q = r /\ j = i
      BY <2>1 DEF OneOwnerPerPage, PrivatePagesApart
    <2> QED
      BY <1>1, <2>1, <2>2
  <1>4. NoPageLost'
    <2> SUFFICES ASSUME NEW p \in Page
                 PROVE  \/ p \in ToSet(freeSlots')
                        \/ p \in Range(tree'.page)
                        \/ \E r \in held' : \E i \in Private(r)' : Row(r)'[i] = p
      BY DEF NoPageLost, Page
    <2>1. CASE p \in ToSet(freeSlots) \/ p \in Range(tree.page)
      BY <2>1
    <2>2. CASE \E r \in held : \E i \in Private(r) : Row(r)[i] = p
      BY <1>1, <2>2
    <2> QED
      BY <2>1, <2>2 DEF NoPageLost
  <1> QED
    BY <1>2, <1>3, <1>4 DEF OneOwnerPerPage

PageInv == LockInv /\ OneOwnerPerPage /\ NoPageLost

LEMMA InitPages == CMInit => OneOwnerPerPage /\ NoPageLost
  <1> SUFFICES ASSUME CMInit PROVE OneOwnerPerPage /\ NoPageLost
    OBVIOUS
  <1>1. Cached(tree) = {} /\ tree.page = <<>> /\ held = {}
    BY DEF CMInit, EmptyTree, Cached
  <1>2. /\ freeSlots \in Seq(Page) /\ Len(freeSlots) = NumPages
        /\ \A i \in 1..NumPages : freeSlots[i] = i - 1
    BY NumPagesAssumption DEF CMInit, Page
  <1>3. NoPageTwiceFree
    BY <1>2, InjectiveSequence, NumPagesAssumption DEF NoPageTwiceFree
  <1>4. NoPageTwiceCached
    BY <1>1 DEF NoPageTwiceCached, IsInjective
  <1>5. FreeNotCached
    BY <1>1 DEF FreeNotCached, Range
  <1>6. PrivatePagesApart
    BY <1>1 DEF PrivatePagesApart
  <1>7. NoPageLost
    <2> SUFFICES ASSUME NEW p \in Page PROVE p \in ToSet(freeSlots)
      BY DEF NoPageLost
    <2>1. p + 1 \in 1..NumPages /\ freeSlots[p + 1] = p
      BY <1>2, NumPagesAssumption DEF Page
    <2> QED
      BY <1>2, <2>1, InSequence
  <1> QED
    BY <1>3, <1>4, <1>5, <1>6, <1>7 DEF OneOwnerPerPage

LEMMA RefusePages ==
  ASSUME PageInv, NEW k \in Seq(Block), MatchOnly(k)
  PROVE  OneOwnerPerPage' /\ NoPageLost'
  <1>1. PICK m \in Prefixes(k) : StopsAt(tree, k, m) /\ tree' = SplitAt(tree, m)
    BY DEF MatchOnly
  <1>2. tree'.page = tree.page
    BY <1>1, SplitInTree DEF PageInv
  <1>3. UNCHANGED <<freeSlots, pageTable, held, handle, slot>>
    BY DEF MatchOnly
  <1>4. \A q \in held : Row(q)' = Row(q) /\ handle'[q] = handle[q]
    BY <1>3 DEF Row
  <1> QED
    BY <1>2, <1>3, <1>4, SamePages DEF PageInv

LEMMA AdmitPages ==
  ASSUME PageInv, NEW r \in Req, NEW k \in Seq(Block), NEW m,
         r \notin held, Len(tableFree) > 0, AdmitTo(r, k, m)
  PROVE  OneOwnerPerPage' /\ NoPageLost'
  <1> DEFINE x == Last(tableFree)
             u == SplitAt(tree, m)
  <1>1. /\ StopsAt(tree, k, m) /\ tree' = Lock(u, m) /\ TakeSlot
        /\ pageTable' = [pageTable EXCEPT ![x] = MatchedPages(tree, m)]
        /\ slot' = [slot EXCEPT ![r] = x] /\ handle' = [handle EXCEPT ![r] = m]
        /\ held' = held \cup {r} /\ freeSlots' = freeSlots
    BY DEF AdmitTo
  <1>2. LockInv /\ TreeType(tree) /\ WellFormed(tree)
    BY DEF PageInv, LockInv, CMTypeOK, LockedHandlesStay
  <1>3. m \in Seq(Block) /\ Path(m) \subseteq Cached(tree) /\ TreeType(u) /\ u.page = tree.page
    BY <1>1, <1>2, WalkCached, SplitInTree
  <1> HIDE DEF u
  <1>4. tree'.page = tree.page
    BY <1>1, <1>3, LockFields
  <1>5. x \in Slot \cap ToSet(tableFree)
    BY <1>1, <1>2, SlotTaken DEF LockInv, CMTypeOK, OneUserPerSlot
  <1> HIDE DEF x
  <1>6. /\ slot \in [Req -> Slot \cup {NoSlot}] /\ handle \in [Req -> Seq(Block)]
        /\ held \subseteq Req /\ pageTable \in [Slot -> Seq(Page)]
        /\ \A q \in held : slot[q] \in Slot /\ slot[q] # x
    BY <1>2, <1>5 DEF LockInv, CMTypeOK, OneUserPerSlot
  <1>7. \A q \in held : Row(q)' = Row(q) /\ handle'[q] = handle[q]
    BY <1>1, <1>6 DEF Row
  <1>8. Row(r)' = MatchedPages(tree, m) /\ handle'[r] = m
    BY <1>1, <1>5, <1>6 DEF Row
  <1>9. Private(r)' = {}
    BY <1>2, <1>3, <1>8, MatchedPagesType DEF Private
  <1> QED
    BY <1>1, <1>2, <1>4, <1>7, <1>9, SamePages DEF PageInv

-----------------------------------------------------------------------------
(* Growth: free pages become private ones.                                 *)

LEMMA GrowPages ==
  ASSUME PageInv, NEW r \in Req, NEW n \in Nat, Grow(r, n)
  PROVE  OneOwnerPerPage' /\ NoPageLost'
  <1> DEFINE a == SubSeq(freeSlots, 1, n)
             l == Len(Row(r))
             row == Row(r) \o a
  <1>1. /\ r \in held /\ n <= Len(freeSlots)
        /\ pageTable' = [pageTable EXCEPT ![slot[r]] = @ \o a]
        /\ freeSlots' = SubSeq(freeSlots, n + 1, Len(freeSlots))
        /\ UNCHANGED <<tree, tableFree, held, handle, slot>>
    BY DEF Grow, TakePages
  <1>2. /\ freeSlots \in Seq(Page) /\ pageTable \in [Slot -> Seq(Page)] /\ Row(r) \in Seq(Page)
        /\ l \in Nat /\ handle[r] \in Seq(Block) /\ Len(handle[r]) <= l
        /\ \A q \in held : slot[q] \in Slot /\ (q # r => slot[q] # slot[r])
    BY <1>1, HandlesCached DEF PageInv, LockInv, CMTypeOK, OneUserPerSlot
  <1>3. /\ a \in Seq(Page) /\ Len(a) = n /\ \A i \in 1..n : a[i] = freeSlots[i]
        /\ freeSlots' \in Seq(Page) /\ Len(freeSlots') = Len(freeSlots) - n
        /\ \A i \in 1..Len(freeSlots') : freeSlots'[i] = freeSlots[n + i]
    <2>1. freeSlots \in Seq(Page) /\ n <= Len(freeSlots) /\ n \in Nat
      BY <1>1, <1>2
    <2>2. freeSlots' = SubSeq(freeSlots, n + 1, Len(freeSlots))
      BY <1>1
    <2> QED
      BY ONLY <2>1, <2>2, PagesTaken
  <1> HIDE DEF a
  <1>4. /\ row \in Seq(Page) /\ Len(row) = l + n
        /\ \A i \in 1..l : row[i] = Row(r)[i]
        /\ \A i \in 1..n : row[l + i] = freeSlots[i]
    <2>0. Row(r) \in Seq(Page) /\ a \in Seq(Page)
      BY <1>2, <1>3
    <2>1. LET c == Row(r) \o a IN
          /\ c \in Seq(Page) /\ Len(c) = Len(Row(r)) + Len(a)
          /\ \A i \in 1..Len(Row(r)) : c[i] = Row(r)[i]
          /\ \A i \in 1..Len(a) : c[Len(Row(r)) + i] = a[i]
      BY <2>0, ConcatFields
    <2> QED
      BY <1>3, <2>1
  <1>5. Row(r)' = row /\ \A q \in held : q # r => Row(q)' = Row(q)
    BY <1>1, <1>2 DEF Row
  <1> HIDE DEF row, l
  <1>6. /\ \A q \in held : q # r => Private(q)' = Private(q)
        /\ Private(r)' = Private(r) \cup (l + 1)..(l + n)
        /\ Private(r) \subseteq 1..l
    BY <1>1, <1>2, <1>4, <1>5 DEF Private, l
  <1>7. ASSUME NEW q \in held, NEW i \in Private(q)'
        PROVE  \/ /\ i \in Private(q) /\ Row(q)'[i] = Row(q)[i] /\ ~(q = r /\ i \in (l + 1)..(l + n))
               \/ /\ q = r /\ i - l \in 1..n /\ Row(q)'[i] = freeSlots[i - l]
    <2>1. CASE i \in Private(q)
      BY <1>2, <1>4, <1>5, <1>6, <2>1
    <2>2. CASE i \notin Private(q)
      <3>1. q = r /\ i \in (l + 1)..(l + n)
        BY <1>6, <2>2
      <3>2. i - l \in 1..n /\ l + (i - l) = i
        BY <1>2, <3>1
      <3> QED
        BY <1>4, <1>5, <3>1, <3>2
    <2> QED
      BY <2>1, <2>2
  <1>8. /\ \A i, j \in 1..Len(freeSlots) : freeSlots[i] = freeSlots[j] => i = j
        /\ \A i \in 1..Len(freeSlots) : freeSlots[i] \notin Range(tree.page)
        /\ \A q \in held : \A i \in Private(q) : \A j \in 1..Len(freeSlots) : Row(q)[i] # freeSlots[j]
    <2>1. \A i \in 1..Len(freeSlots) : freeSlots[i] \in ToSet(freeSlots)
      BY <1>2, InSequence
    <2>2. \A i, j \in 1..Len(freeSlots) : freeSlots[i] = freeSlots[j] => i = j
      BY <1>2, InjectiveSequence DEF PageInv, OneOwnerPerPage, NoPageTwiceFree
    <2> QED
      BY <2>1, <2>2 DEF PageInv, OneOwnerPerPage, FreeNotCached, PrivatePagesApart
  <1>9. ASSUME NEW x
        PROVE  x \in ToSet(freeSlots') <=> \E i \in (n + 1)..Len(freeSlots) : freeSlots[i] = x
    <2>1. x \in ToSet(freeSlots') <=> \E i \in 1..Len(freeSlots') : freeSlots'[i] = x
      BY <1>3, InSequence
    <2>2. \A i \in 1..Len(freeSlots') : n + i \in (n + 1)..Len(freeSlots) /\ freeSlots'[i] = freeSlots[n + i]
      BY <1>2, <1>3
    <2>3. \A i \in (n + 1)..Len(freeSlots) : i - n \in 1..Len(freeSlots') /\ freeSlots'[i - n] = freeSlots[i]
      <3> SUFFICES ASSUME NEW i \in (n + 1)..Len(freeSlots)
                   PROVE  i - n \in 1..Len(freeSlots') /\ freeSlots'[i - n] = freeSlots[i]
        OBVIOUS
      <3>1. i - n \in 1..Len(freeSlots') /\ n + (i - n) = i
        BY <1>2, <1>3
      <3> QED
        BY <1>3, <3>1
    <2> QED
      BY <2>1, <2>2, <2>3
  <1>10. NoPageTwiceFree'
    <2> SUFFICES ASSUME NEW i \in 1..Len(freeSlots'), NEW j \in 1..Len(freeSlots'),
                        freeSlots'[i] = freeSlots'[j]
                 PROVE  i = j
      BY <1>3, InjectiveSequence DEF NoPageTwiceFree
    <2>1. n + i \in 1..Len(freeSlots) /\ n + j \in 1..Len(freeSlots)
      BY <1>2, <1>3
    <2>2. n + i = n + j
      BY <1>3, <1>8, <2>1
    <2> QED
      BY <2>2
  <1>11. NoPageTwiceCached'
    BY <1>1 DEF PageInv, OneOwnerPerPage, NoPageTwiceCached
  <1>12. FreeNotCached'
    BY <1>1, <1>8, <1>9 DEF FreeNotCached
  <1>13. PrivatePagesApart'
    <2> SUFFICES ASSUME NEW p \in held, NEW i \in Private(p)'
                 PROVE  /\ Row(p)'[i] \notin ToSet(freeSlots')
                        /\ Row(p)'[i] \notin Range(tree.page)
                        /\ \A q \in held : \A j \in Private(q)' :
                              Row(q)'[j] = Row(p)'[i] => q = p /\ j = i
      BY <1>1 DEF PrivatePagesApart
    <2>1. CASE i \in Private(p) /\ Row(p)'[i] = Row(p)[i]
      <3>1. /\ Row(p)[i] \notin Range(tree.page)
            /\ \A q \in held : \A j \in Private(q) : Row(q)[j] = Row(p)[i] => q = p /\ j = i
        BY <2>1 DEF PageInv, OneOwnerPerPage, PrivatePagesApart
      <3>2. \A j \in 1..Len(freeSlots) : Row(p)[i] # freeSlots[j]
        BY <1>8, <2>1
      <3>3. Row(p)'[i] \notin ToSet(freeSlots')
        BY <1>9, <2>1, <3>2
      <3>4. ASSUME NEW q \in held, NEW j \in Private(q)', Row(q)'[j] = Row(p)'[i]
            PROVE  q = p /\ j = i
        <4>1. ~(j - l \in 1..n /\ Row(q)'[j] = freeSlots[j - l])
          BY <1>1, <2>1, <3>2, <3>4
        <4>2. j \in Private(q) /\ Row(q)'[j] = Row(q)[j]
          BY <1>7, <4>1
        <4> QED
          BY <2>1, <3>1, <3>4, <4>2
      <3> QED
        BY <2>1, <3>1, <3>3, <3>4
    <2>2. CASE p = r /\ i - l \in 1..n /\ Row(p)'[i] = freeSlots[i - l]
      <3>1. i - l \in 1..Len(freeSlots)
        BY <1>1, <1>2, <2>2
      <3>2. Row(p)'[i] \notin ToSet(freeSlots')
        BY <1>8, <1>9, <2>2, <3>1
      <3>3. ASSUME NEW q \in held, NEW j \in Private(q)', Row(q)'[j] = Row(p)'[i]
            PROVE  q = p /\ j = i
        <4>1. ~(j \in Private(q) /\ Row(q)'[j] = Row(q)[j])
          BY <1>8, <2>2, <3>1, <3>3
        <4>2. q = r /\ j - l \in 1..n /\ Row(q)'[j] = freeSlots[j - l]
          BY <1>7, <4>1
        <4>3. j - l = i - l
          BY <1>1, <1>2, <1>8, <2>2, <3>1, <3>3, <4>2
        <4>4. i \in Int /\ j \in Int /\ l \in Int
          BY <1>2, <1>6, <2>2, <4>2
        <4> QED
          BY <2>2, <4>2, <4>3, <4>4
      <3> QED
        BY <1>8, <2>2, <3>1, <3>2, <3>3
    <2> QED
      BY <1>7, <2>1, <2>2
  <1>14. NoPageLost'
    <2> SUFFICES ASSUME NEW p \in Page
                 PROVE  \/ p \in ToSet(freeSlots')
                        \/ p \in Range(tree.page)
                        \/ \E q \in held : \E i \in Private(q)' : Row(q)'[i] = p
      BY <1>1 DEF NoPageLost, Page
    <2>1. CASE p \in Range(tree.page)
      BY <2>1
    <2>2. CASE p \in ToSet(freeSlots)
      <3>1. PICK j \in 1..Len(freeSlots) : freeSlots[j] = p
        BY <1>2, <2>2, InSequence
      <3>2. CASE j > n
        BY <1>2, <1>9, <3>1, <3>2
      <3>3. CASE j <= n
        <4>1. l + j \in Private(r)' /\ Row(r)'[l + j] = p
          BY <1>2, <1>4, <1>5, <1>6, <3>1, <3>3
        <4> QED
          BY <1>1, <4>1
      <3> QED
        BY <3>2, <3>3
    <2>3. ASSUME NEW q \in held, NEW i \in Private(q), Row(q)[i] = p
          PROVE  \E j \in Private(q)' : Row(q)'[j] = p
      <3>1. CASE q = r
        BY <1>4, <1>5, <1>6, <2>3, <3>1
      <3>2. CASE q # r
        BY <1>5, <1>6, <2>3, <3>2
      <3> QED
        BY <3>1, <3>2
    <2> QED
      BY <2>1, <2>2, <2>3 DEF PageInv, NoPageLost
  <1> QED
    BY <1>10, <1>11, <1>12, <1>13, <1>14 DEF OneOwnerPerPage

-----------------------------------------------------------------------------
(* Eviction: the pages of a leaf become free ones.                         *)

\* The blocks of node n below b, by their position in it.
LEMMA NodeBlocks ==
  ASSUME NEW n \in Seq(Block), NEW b \in Seq(Block), IsPrefix(b, n), Len(b) < Len(n)
  PROVE  LET block(i) == SubSeq(n, 1, Len(b) + i) IN
         /\ \A i \in 1..(Len(n) - Len(b)) : block(i) \in Path(n) \ Path(b) /\ Len(block(i)) = Len(b) + i
         /\ \A p \in Path(n) \ Path(b) : Len(p) - Len(b) \in 1..(Len(n) - Len(b)) /\ block(Len(p) - Len(b)) = p
  <1> DEFINE block(i) == SubSeq(n, 1, Len(b) + i)
  <1>1. Len(n) \in Nat /\ Len(b) \in Nat
    OBVIOUS
  <1>2. ASSUME NEW i \in 1..(Len(n) - Len(b))
        PROVE  block(i) \in Path(n) \ Path(b) /\ Len(block(i)) = Len(b) + i
    <2>1. Len(b) + i \in 1..Len(n)
      BY <1>1
    <2> DEFINE p == block(i)
    <2>2. p \in Seq(Block) /\ p # <<>> /\ Len(p) = Len(b) + i /\ IsPrefix(p, n)
      BY <2>1, PrefixOfLength
    <2> HIDE DEF p
    <2>3. ~IsPrefix(p, b)
      BY <1>1, <2>2, PrefixPointwise
    <2>4. p \in Path(n) \ Path(b)
      BY <2>2, <2>3, PathMember
    <2> QED
      BY <2>2, <2>4 DEF p
  <1>3. ASSUME NEW p \in Path(n) \ Path(b)
        PROVE  Len(p) - Len(b) \in 1..(Len(n) - Len(b)) /\ block(Len(p) - Len(b)) = p
    <2>1. p \in Seq(Block) /\ p # <<>> /\ IsPrefix(p, n) /\ ~IsPrefix(p, b)
      BY PathMember
    <2>2. Len(p) \in Nat /\ Len(p) <= Len(n) /\ Len(p) > Len(b)
      <3>1. Len(p) \in Nat /\ Len(p) <= Len(n)
        BY <2>1, PrefixPointwise
      <3>2. CASE Len(p) <= Len(b)
        BY <2>1, <3>2, PrefixComparable
      <3> QED
        BY <1>1, <3>1, <3>2
    <2>3. Len(b) + (Len(p) - Len(b)) = Len(p)
      BY <1>1, <2>2
    <2>4. block(Len(p) - Len(b)) = SubSeq(n, 1, Len(p))
      BY <2>3
    <2>5. SubSeq(n, 1, Len(p)) = p
      BY <2>1 DEF IsPrefix
    <2> QED
      BY <1>1, <2>2, <2>4, <2>5
  <1> QED
    BY <1>2, <1>3

LEMMA EvictPages ==
  ASSUME PageInv, EvictLeaf
  PROVE  OneOwnerPerPage' /\ NoPageLost'
  <1>0. PICK n \in tree.nodes : \E b \in Prefixes(n) :
          /\ IsVictim(tree, n) /\ IsParent(tree, b, n)
          /\ tree' = RemoveLeaf(tree, n, b)
          /\ freeSlots' = freeSlots \o NodePages(tree, n, b)
    BY DEF EvictLeaf
  <1>1. PICK b \in Prefixes(n) :
          /\ IsVictim(tree, n) /\ IsParent(tree, b, n)
          /\ tree' = RemoveLeaf(tree, n, b)
          /\ freeSlots' = freeSlots \o NodePages(tree, n, b)
    BY <1>0
  <1> DEFINE g == NodePages(tree, n, b)
             d == Len(n) - Len(b)
             gone == Path(n) \ Path(b)
             block(i) == SubSeq(n, 1, Len(b) + i)
  <1>2. UNCHANGED <<pageTable, held, handle, slot>>
    BY DEF EvictLeaf
  <1>3. TreeType(tree) /\ WellFormed(tree) /\ freeSlots \in Seq(Page)
    BY DEF PageInv, LockInv, CMTypeOK, LockedHandlesStay
  <1>4. /\ n \in Seq(Block) /\ b \in Seq(Block) /\ Len(b) < Len(n) /\ IsPrefix(b, n)
        /\ Path(n) \subseteq Cached(tree) /\ g \in Seq(Page) /\ Len(g) = d
    BY <1>1, <1>3, NodePagesType
  <1>5. /\ Cached(tree') = Cached(tree) \ gone
        /\ \A p \in Cached(tree') : tree'.page[p] = tree.page[p]
    BY <1>1, <1>3, RemoveFields
  <1>6. \A i \in 1..d : g[i] = tree.page[block(i)]
    BY DEF NodePages
  <1>7. /\ \A i \in 1..d : block(i) \in gone /\ Len(block(i)) = Len(b) + i
        /\ \A p \in gone : Len(p) - Len(b) \in 1..d /\ block(Len(p) - Len(b)) = p
    BY <1>4, NodeBlocks
  <1>8. \A x : x \in ToSet(g) <=> \E p \in gone : tree.page[p] = x
    <2> SUFFICES ASSUME NEW x PROVE x \in ToSet(g) <=> \E p \in gone : tree.page[p] = x
      OBVIOUS
    <2>1. x \in ToSet(g) <=> \E i \in 1..d : g[i] = x
      BY <1>4, InSequence
    <2> HIDE DEF g, d, gone, block
    <2> QED
      BY <1>6, <1>7, <2>1
  <1>9. \A p, q \in Cached(tree) : tree.page[p] = tree.page[q] => p = q
    BY DEF PageInv, OneOwnerPerPage, NoPageTwiceCached, IsInjective, Cached
  <1>10. IsInjective(g)
    <2> SUFFICES ASSUME NEW i \in 1..d, NEW j \in 1..d, g[i] = g[j]
                 PROVE  i = j
      BY <1>4, InjectiveSequence
    <2>1. block(i) = block(j)
      BY <1>4, <1>6, <1>7, <1>9
    <2>2. Len(b) + i = Len(b) + j /\ Len(b) \in Nat
      BY <1>4, <1>7, <2>1
    <2> QED
      BY <2>2
  <1> HIDE DEF g, d, gone, block
  <1>11. gone \subseteq Cached(tree)
    BY <1>4 DEF gone
  <1>12. \A x \in ToSet(g) : x \in Range(tree.page)
    BY <1>8, <1>11, InCache
  <1>13. ToSet(g) \cap ToSet(freeSlots) = {}
    BY <1>12 DEF PageInv, OneOwnerPerPage, FreeNotCached
  <1>14. \A x : x \in Range(tree'.page) <=> x \in Range(tree.page) /\ x \notin ToSet(g)
    <2> SUFFICES ASSUME NEW x
                 PROVE  x \in Range(tree'.page) <=> x \in Range(tree.page) /\ x \notin ToSet(g)
      OBVIOUS
    <2>1. x \in Range(tree'.page) <=> \E p \in Cached(tree) \ gone : tree.page[p] = x
      BY <1>5, InCache
    <2>2. x \in Range(tree.page) <=> \E p \in Cached(tree) : tree.page[p] = x
      BY InCache
    <2> QED
      BY <1>8, <1>9, <1>11, <2>1, <2>2
  <1>15. ToSet(freeSlots') = ToSet(freeSlots) \cup ToSet(g) /\ IsInjective(freeSlots')
    <2>1. freeSlots' = freeSlots \o g
      BY <1>1 DEF g
    <2> QED
      BY <1>3, <1>4, <1>10, <1>13, <2>1, ConcatPages DEF PageInv, OneOwnerPerPage, NoPageTwiceFree
  <1>16. NoPageTwiceFree' /\ NoPageTwiceCached' /\ FreeNotCached'
    <2>1. NoPageTwiceCached'
      <3>1. \A p, q \in Cached(tree') : tree'.page[p] = tree'.page[q] => p = q
        BY <1>5, <1>9
      <3> QED
        BY <3>1 DEF NoPageTwiceCached, IsInjective, Cached
    <2>2. FreeNotCached'
      BY <1>14, <1>15 DEF PageInv, OneOwnerPerPage, FreeNotCached
    <2> QED
      BY <1>15, <2>1, <2>2 DEF NoPageTwiceFree
  <1>17. \A q \in held : Row(q)' = Row(q) /\ Private(q)' = Private(q)
    BY <1>2 DEF Row, Private
  <1>18. PrivatePagesApart'
    <2> SUFFICES ASSUME NEW r \in held, NEW i \in Private(r)
                 PROVE  /\ Row(r)[i] \notin ToSet(freeSlots')
                        /\ Row(r)[i] \notin Range(tree'.page)
                        /\ \A q \in held : \A j \in Private(q) :
                              Row(q)[j] = Row(r)[i] => q = r /\ j = i
      BY <1>2, <1>17 DEF PrivatePagesApart
    <2>1. /\ Row(r)[i] \notin ToSet(freeSlots) /\ Row(r)[i] \notin Range(tree.page)
          /\ \A q \in held : \A j \in Private(q) : Row(q)[j] = Row(r)[i] => q = r /\ j = i
      BY DEF PageInv, OneOwnerPerPage, PrivatePagesApart
    <2> QED
      BY <1>12, <1>14, <1>15, <2>1
  <1>19. NoPageLost'
    <2> SUFFICES ASSUME NEW p \in Page
                 PROVE  \/ p \in ToSet(freeSlots')
                        \/ p \in Range(tree'.page)
                        \/ \E q \in held : \E i \in Private(q) : Row(q)[i] = p
      BY <1>2, <1>17 DEF NoPageLost, Page
    <2> QED
      BY <1>14, <1>15 DEF PageInv, NoPageLost
  <1> QED
    BY <1>16, <1>18, <1>19 DEF OneOwnerPerPage

-----------------------------------------------------------------------------
(* cache_req: of the private pages of a request some are returned to the   *)
(* free list, some go to the cache and the rest stays private.             *)

LEMMA SplitPrivate ==
  ASSUME PageInv, NEW r \in held, NEW G, NEW C, NEW P,
         Private(r) = G \cup C \cup P, G \cap C = {}, G \cap P = {}, C \cap P = {},
         IsInjective(freeSlots'),
         \A x : x \in ToSet(freeSlots') <=> x \in ToSet(freeSlots) \/ \E i \in G : Row(r)[i] = x,
         NoPageTwiceCached',
         \A x : x \in Range(tree'.page) <=> x \in Range(tree.page) \/ \E i \in C : Row(r)[i] = x,
         held' \subseteq held, held \ {r} \subseteq held',
         \A q \in held' : Row(q)' = Row(q),
         \A q \in held \ {r} : Private(q)' = Private(q),
         IF r \in held' THEN Private(r)' = P ELSE P = {}
  PROVE  OneOwnerPerPage' /\ NoPageLost'
  <1>1. ASSUME NEW p \in held, NEW i \in Private(p)
        PROVE  /\ Row(p)[i] \notin ToSet(freeSlots)
               /\ Row(p)[i] \notin Range(tree.page)
               /\ \A q \in held : \A j \in Private(q) : Row(q)[j] = Row(p)[i] => q = p /\ j = i
    BY DEF PageInv, OneOwnerPerPage, PrivatePagesApart
  <1>2. ASSUME NEW q \in held'
        PROVE  q \in held /\ Private(q)' \subseteq Private(q) /\ (q = r => Private(q)' = P)
    OBVIOUS
  <1>3. FreeNotCached'
    <2> SUFFICES ASSUME NEW x, x \in ToSet(freeSlots'), x \in Range(tree'.page)
                 PROVE  FALSE
      BY DEF FreeNotCached
    <2>1. CASE x \in ToSet(freeSlots) /\ x \in Range(tree.page)
      BY <2>1 DEF PageInv, OneOwnerPerPage, FreeNotCached
    <2>2. CASE x \in ToSet(freeSlots) /\ \E i \in C : Row(r)[i] = x
      BY <1>1, <2>2
    <2>3. CASE x \in Range(tree.page) /\ \E i \in G : Row(r)[i] = x
      BY <1>1, <2>3
    <2>4. CASE (\E i \in G : Row(r)[i] = x) /\ (\E i \in C : Row(r)[i] = x)
      BY <1>1, <2>4
    <2> QED
      BY <2>1, <2>2, <2>3, <2>4
  <1>4. PrivatePagesApart'
    <2> SUFFICES ASSUME NEW p \in held', NEW i \in Private(p)'
                 PROVE  /\ Row(p)'[i] \notin ToSet(freeSlots')
                        /\ Row(p)'[i] \notin Range(tree'.page)
                        /\ \A q \in held' : \A j \in Private(q)' :
                              Row(q)'[j] = Row(p)'[i] => q = p /\ j = i
      BY DEF PrivatePagesApart
    <2>1. p \in held /\ i \in Private(p) /\ Row(p)' = Row(p)
      BY <1>2
    <2>2. /\ Row(p)[i] \notin ToSet(freeSlots)
          /\ Row(p)[i] \notin Range(tree.page)
          /\ \A q \in held : \A j \in Private(q) : Row(q)[j] = Row(p)[i] => q = p /\ j = i
      BY <1>1, <2>1
    <2>3. \A j \in G \cup C : Row(r)[j] # Row(p)[i]
      <3> SUFFICES ASSUME NEW j \in G \cup C, Row(r)[j] = Row(p)[i] PROVE FALSE
        OBVIOUS
      <3>1. r = p /\ j = i
        BY <2>2
      <3>2. i \in P
        BY <1>2, <3>1
      <3> QED
        BY <3>1, <3>2
    <2>4. \A q \in held' : \A j \in Private(q)' : Row(q)'[j] = Row(p)'[i] => q = p /\ j = i
      BY <1>2, <2>1, <2>2
    <2> QED
      BY <2>1, <2>2, <2>3, <2>4
  <1>5. NoPageLost'
    <2> SUFFICES ASSUME NEW p \in Page
                 PROVE  \/ p \in ToSet(freeSlots')
                        \/ p \in Range(tree'.page)
                        \/ \E q \in held' : \E i \in Private(q)' : Row(q)'[i] = p
      BY DEF NoPageLost, Page
    <2>1. CASE p \in ToSet(freeSlots) \/ p \in Range(tree.page)
      BY <2>1
    <2>2. ASSUME NEW q \in held, NEW i \in Private(q), Row(q)[i] = p, q # r
          PROVE  \E j \in held' : \E x \in Private(j)' : Row(j)'[x] = p
      BY <2>2
    <2>3. ASSUME NEW i \in Private(r), Row(r)[i] = p
          PROVE  \/ p \in ToSet(freeSlots')
                 \/ p \in Range(tree'.page)
                 \/ \E q \in held' : \E x \in Private(q)' : Row(q)'[x] = p
      <3>1. CASE i \in G \cup C
        BY <2>3, <3>1
      <3>2. CASE i \in P
        BY <2>3, <3>2
      <3> QED
        BY <3>1, <3>2
    <2> QED
      BY <2>1, <2>2, <2>3 DEF PageInv, NoPageLost
  <1> QED
    BY <1>3, <1>4, <1>5 DEF OneOwnerPerPage, NoPageTwiceFree

\* What the insertion caches are pages m+1 to k of the request.
LEMMA InsertedPages ==
  ASSUME PageInv, NEW r \in Req, NEW k \in Seq(Block), NEW m,
         Cacheable(r, k), StopsAt(tree, k, m)
  PROVE  LET s == Inserted(r, k, m) IN
         /\ Len(handle[r]) \in Nat /\ Len(m) \in Nat /\ Len(k) \in Nat
         /\ Len(handle[r]) <= Len(m) /\ Len(m) <= Len(k) /\ Len(k) <= Len(Row(r))
         /\ IsInjective(s.page)
         /\ \A x : x \in Range(s.page)
                     <=> x \in Range(tree.page) \/ \E i \in (Len(m) + 1)..Len(k) : Row(r)[i] = x
  <1> DEFINE s == Inserted(r, k, m)
             h == handle[r]
             fresh == Path(k) \ Cached(tree)
             new == (Len(m) + 1)..Len(k)
  <1>1. LockInv /\ TreeType(tree) /\ WellFormed(tree)
    BY DEF PageInv, LockInv, CMTypeOK, LockedHandlesStay
  <1>2. /\ Cached(s) = Cached(tree) \cup Path(k)
        /\ \A p \in Cached(tree) : s.page[p] = tree.page[p]
        /\ \A p \in fresh : s.page[p] = Row(r)[Len(p)]
    <2> HIDE DEF s
    <2> QED
      BY <1>1, InsertedFacts DEF s
  <1> HIDE DEF s
  <1>3. /\ m \in Seq(Block) /\ IsPrefix(m, k) /\ Path(m) \subseteq Cached(tree)
        /\ r \in held /\ h \in Seq(Block) /\ IsPrefix(h, k) /\ (h = <<>> \/ h \in Cached(tree))
        /\ Row(r) \in Seq(Page) /\ Len(k) <= Len(Row(r))
    BY <1>1, WalkCached, HandlesCached DEF Cacheable
  <1>4. Len(m) \in Nat /\ Len(k) \in Nat /\ Len(h) \in Nat /\ Len(m) <= Len(k) /\ Len(h) <= Len(m)
    <2>1. Len(m) \in Nat /\ Len(k) \in Nat /\ Len(h) \in Nat /\ Len(m) <= Len(k)
      BY <1>3, PrefixPointwise
    <2>2. CASE h = <<>>
      BY <2>1, <2>2
    <2>3. CASE h # <<>>
      <3>1. IsPrefix(h, m)
        BY <1>1, <1>3, <2>3, WalkIsLongest
      <3> QED
        BY <1>3, <2>1, <3>1, PrefixPointwise
    <2> QED
      BY <2>1, <2>2, <2>3
  <1>5. fresh = Path(k) \ Path(m)
    <2>1. \A p \in Path(k) \cap Cached(tree) : p \in Path(m)
      BY <1>1, <1>3, WalkIsLongest, PathMember
    <2> QED
      BY <1>3, <2>1
  <1>6. \A p \in fresh : Len(p) \in new
    <2> SUFFICES ASSUME NEW p \in fresh PROVE Len(p) \in new
      OBVIOUS
    <2>1. p \in Seq(Block) /\ p # <<>> /\ IsPrefix(p, k) /\ ~IsPrefix(p, m)
      BY <1>3, <1>5, PathMember
    <2>2. Len(p) \in Nat /\ Len(p) <= Len(k) /\ Len(p) > Len(m)
      <3>1. Len(p) \in Nat /\ Len(p) <= Len(k)
        BY <2>1, PrefixPointwise
      <3>2. CASE Len(p) <= Len(m)
        BY <1>3, <2>1, <3>2, PrefixComparable
      <3> QED
        BY <1>4, <3>1, <3>2
    <2> QED
      BY <1>4, <2>2
  <1>7. \A i \in new : \E p \in fresh : Len(p) = i
    <2> SUFFICES ASSUME NEW i \in new PROVE \E p \in fresh : Len(p) = i
      OBVIOUS
    <2> DEFINE p == SubSeq(k, 1, i)
    <2>1. p \in Seq(Block) /\ p # <<>> /\ Len(p) = i /\ IsPrefix(p, k)
      BY <1>4, PrefixOfLength
    <2> HIDE DEF p
    <2>2. ~IsPrefix(p, m)
      BY <1>3, <1>4, <2>1, PrefixPointwise
    <2> QED
      BY <1>3, <1>5, <2>1, <2>2, PathMember
  <1>8. \A p, q \in fresh : Len(p) = Len(q) => p = q
    <2> SUFFICES ASSUME NEW p \in fresh, NEW q \in fresh, Len(p) = Len(q)
                 PROVE  p = q
      OBVIOUS
    <2>1. p \in Seq(Block) /\ q \in Seq(Block) /\ IsPrefix(p, k) /\ IsPrefix(q, k)
      BY PathMember
    <2>2. Len(p) \in Nat /\ Len(q) \in Nat /\ IsPrefix(p, q)
      BY <2>1, PrefixComparable
    <2> QED
      BY <2>1, <2>2, PrefixAntisymmetric
  <1>9. new \subseteq Private(r)
    BY <1>3, <1>4 DEF Private
  <1>10. /\ \A i \in new : Row(r)[i] \notin Range(tree.page)
         /\ \A i, j \in new : Row(r)[i] = Row(r)[j] => i = j
    BY <1>3, <1>9 DEF PageInv, OneOwnerPerPage, PrivatePagesApart
  <1>11. \A p, q \in Cached(tree) : tree.page[p] = tree.page[q] => p = q
    BY DEF PageInv, OneOwnerPerPage, NoPageTwiceCached, IsInjective, Cached
  <1>12. Cached(s) = Cached(tree) \cup fresh
    BY <1>2
  <1> HIDE DEF h, fresh, new
  <1>13. IsInjective(s.page)
    <2>1. \A p \in Cached(tree) : s.page[p] \in Range(tree.page)
      BY <1>2, InCache
    <2>2. \A p \in fresh : s.page[p] \notin Range(tree.page)
      BY <1>2, <1>6, <1>10
    <2>3. ASSUME NEW p \in Cached(s), NEW q \in Cached(s), s.page[p] = s.page[q]
          PROVE  p = q
      <3>1. CASE p \in Cached(tree) /\ q \in Cached(tree)
        BY <1>2, <1>11, <2>3, <3>1
      <3>2. CASE p \in fresh /\ q \in fresh
        <4>1. Row(r)[Len(p)] = Row(r)[Len(q)]
          BY <1>2, <2>3, <3>2
        <4> QED
          BY <1>6, <1>8, <1>10, <3>2, <4>1
      <3> QED
        BY <1>12, <2>1, <2>2, <2>3, <3>1, <3>2
    <2> QED
      BY <2>3 DEF IsInjective, Cached
  <1>14. \A x : x \in Range(s.page) <=> x \in Range(tree.page) \/ \E i \in new : Row(r)[i] = x
    <2> SUFFICES ASSUME NEW x
                 PROVE  x \in Range(s.page)
                          <=> x \in Range(tree.page) \/ \E i \in new : Row(r)[i] = x
      OBVIOUS
    <2>1. x \in Range(s.page) <=> \E p \in Cached(tree) \cup fresh : s.page[p] = x
      BY <1>12, InCache
    <2>2. x \in Range(tree.page) <=> \E p \in Cached(tree) : s.page[p] = x
      <3>1. x \in Range(tree.page) <=> \E p \in Cached(tree) : tree.page[p] = x
        BY InCache
      <3> QED
        BY <1>2, <3>1
    <2>3. (\E i \in new : Row(r)[i] = x) <=> \E p \in fresh : s.page[p] = x
      BY <1>2, <1>6, <1>7
    <2> QED
      BY <2>1, <2>2, <2>3
  <1> QED
    BY <1>3, <1>4, <1>13, <1>14 DEF s, h, new

LEMMA ExtendPages ==
  ASSUME PageInv, NEW r \in Req, NEW k \in Seq(Block), Extend(r, k)
  PROVE  OneOwnerPerPage' /\ NoPageLost'
  <1>1. PICK m \in Prefixes(k) :
          /\ StopsAt(tree, k, m)
          /\ tree' = Lock(Inserted(r, k, m), k)
          /\ freeSlots' = freeSlots \o Duplicates(r, m)
    BY DEF Extend, CacheUnfinished
  <1>2. /\ handle' = [handle EXCEPT ![r] = k] /\ Cacheable(r, k)
        /\ UNCHANGED <<tableFree, pageTable, held, slot>>
    BY DEF Extend, CacheUnfinished
  <1> DEFINE s == Inserted(r, k, m)
             row == Row(r)
             h == handle[r]
             G == (Len(h) + 1)..Len(m)
             C == (Len(m) + 1)..Len(k)
             P == (Len(k) + 1)..Len(row)
  <1>3. /\ Len(h) \in Nat /\ Len(m) \in Nat /\ Len(k) \in Nat
        /\ Len(h) <= Len(m) /\ Len(m) <= Len(k) /\ Len(k) <= Len(row)
        /\ IsInjective(s.page)
        /\ \A x : x \in Range(s.page) <=> x \in Range(tree.page) \/ \E i \in C : row[i] = x
    <2>1. StopsAt(tree, k, m) /\ Cacheable(r, k)
      BY <1>1, <1>2
    <2> HIDE DEF s
    <2> QED
      BY <2>1, InsertedPages DEF s
  <1>4. /\ LockInv /\ row \in Seq(Page) /\ freeSlots \in Seq(Page) /\ r \in held /\ held \subseteq Req
        /\ handle \in [Req -> Seq(Block)]
    BY <1>2, HandlesCached DEF PageInv, LockInv, CMTypeOK, Cacheable
  <1>5. tree'.page = s.page
    <2>1. TreeType(s)
      <3>1. LockInv /\ StopsAt(tree, k, m) /\ Cacheable(r, k)
        BY <1>1, <1>2, <1>4
      <3> HIDE DEF s
      <3> QED
        BY <3>1, InsertedFacts DEF s
    <2> HIDE DEF s
    <2>2. tree' = Lock(s, k)
      BY <1>1 DEF s
    <2> QED
      BY <2>1, <2>2, LockFields
  <1> HIDE DEF s
  <1>6. /\ Private(r) = G \cup C \cup P /\ G \cap C = {} /\ G \cap P = {} /\ C \cap P = {}
    BY <1>3, <1>4 DEF Private
  <1>7. /\ \A i, j \in Private(r) : row[i] = row[j] => i = j
        /\ \A i \in Private(r) : row[i] \notin ToSet(freeSlots)
    BY <1>4 DEF PageInv, OneOwnerPerPage, PrivatePagesApart
  <1>8. /\ Duplicates(r, m) \in Seq(Page) /\ IsInjective(Duplicates(r, m))
        /\ ToSet(Duplicates(r, m)) = PagesAt(row, Len(h) + 1, Len(m))
    <2>1. Len(h) + 1 \in Nat \ {0} /\ Len(m) \in 0..Len(row)
      BY <1>3, <1>4
    <2>2. \A i, j \in G : row[i] = row[j] => i = j
      BY <1>6, <1>7
    <2> QED
      BY <1>4, <2>1, <2>2, PiecePages DEF Duplicates
  <1>9. /\ IsInjective(freeSlots')
        /\ \A x : x \in ToSet(freeSlots') <=> x \in ToSet(freeSlots) \/ \E i \in G : row[i] = x
    <2>1. ToSet(freeSlots) \cap ToSet(Duplicates(r, m)) = {}
      BY <1>6, <1>7, <1>8 DEF PagesAt
    <2>2. IsInjective(freeSlots)
      BY DEF PageInv, OneOwnerPerPage, NoPageTwiceFree
    <2>3. ToSet(freeSlots') = ToSet(freeSlots) \cup ToSet(Duplicates(r, m)) /\ IsInjective(freeSlots')
      BY <1>1, <1>4, <1>8, <2>1, <2>2, ConcatPages
    <2> QED
      BY <1>8, <2>3 DEF PagesAt
  <1>10. /\ held' = held /\ \A q \in held : Row(q)' = Row(q)
         /\ \A q \in held \ {r} : Private(q)' = Private(q)
         /\ Private(r)' = P
    BY <1>2, <1>4 DEF Row, Private
  <1>11. NoPageTwiceCached'
    BY <1>3, <1>5 DEF NoPageTwiceCached
  <1>12. \A x : x \in Range(tree'.page) <=> x \in Range(tree.page) \/ \E i \in C : row[i] = x
    BY <1>3, <1>5
  <1> HIDE DEF G, C, P
  <1> QED
    BY <1>4, <1>6, <1>9, <1>10, <1>11, <1>12, SplitPrivate

LEMMA ReleasePages ==
  ASSUME PageInv, NEW r \in Req, NEW k \in Seq(Block), Release(r, k)
  PROVE  OneOwnerPerPage' /\ NoPageLost'
  <1>1. PICK m \in Prefixes(k) :
          /\ StopsAt(tree, k, m)
          /\ tree' = Inserted(r, k, m)
          /\ freeSlots' = freeSlots \o Duplicates(r, m) \o Leftover(r, k)
    BY DEF Release, FreeResources
  <1>2. /\ Cacheable(r, k) /\ held' = held \ {r}
        /\ UNCHANGED <<pageTable, handle, slot>>
    BY DEF Release, FreeResources
  <1> DEFINE s == Inserted(r, k, m)
             row == Row(r)
             h == handle[r]
             D == (Len(h) + 1)..Len(m)
             C == (Len(m) + 1)..Len(k)
             L == (Len(k) + 1)..Len(row)
             G == D \cup L
  <1>3. /\ Len(h) \in Nat /\ Len(m) \in Nat /\ Len(k) \in Nat
        /\ Len(h) <= Len(m) /\ Len(m) <= Len(k) /\ Len(k) <= Len(row)
        /\ IsInjective(s.page)
        /\ \A x : x \in Range(s.page) <=> x \in Range(tree.page) \/ \E i \in C : row[i] = x
    <2>1. StopsAt(tree, k, m) /\ Cacheable(r, k)
      BY <1>1, <1>2
    <2> HIDE DEF s
    <2> QED
      BY <2>1, InsertedPages DEF s
  <1>4. /\ LockInv /\ row \in Seq(Page) /\ freeSlots \in Seq(Page) /\ r \in held
    BY <1>2, HandlesCached DEF PageInv, LockInv, CMTypeOK, Cacheable
  <1>5. tree'.page = s.page
    BY <1>1
  <1> HIDE DEF s
  <1>6. /\ Private(r) = G \cup C /\ G \cap C = {} /\ D \cap L = {}
    BY <1>3, <1>4 DEF Private
  <1>7. /\ \A i, j \in Private(r) : row[i] = row[j] => i = j
        /\ \A i \in Private(r) : row[i] \notin ToSet(freeSlots)
    BY <1>4 DEF PageInv, OneOwnerPerPage, PrivatePagesApart
  <1>8. /\ Duplicates(r, m) \in Seq(Page) /\ IsInjective(Duplicates(r, m))
        /\ ToSet(Duplicates(r, m)) = PagesAt(row, Len(h) + 1, Len(m))
    <2>1. Len(h) + 1 \in Nat \ {0} /\ Len(m) \in 0..Len(row)
      BY <1>3, <1>4
    <2>2. \A i, j \in D : row[i] = row[j] => i = j
      BY <1>6, <1>7
    <2> QED
      BY <1>4, <2>1, <2>2, PiecePages DEF Duplicates
  <1>9. /\ Leftover(r, k) \in Seq(Page) /\ IsInjective(Leftover(r, k))
        /\ ToSet(Leftover(r, k)) = PagesAt(row, Len(k) + 1, Len(row))
    <2>1. Len(k) + 1 \in Nat \ {0} /\ Len(row) \in 0..Len(row)
      BY <1>3, <1>4
    <2>2. \A i, j \in L : row[i] = row[j] => i = j
      BY <1>6, <1>7
    <2> QED
      BY <1>4, <2>1, <2>2, PiecePages DEF Leftover
  <1>10. /\ IsInjective(freeSlots')
         /\ \A x : x \in ToSet(freeSlots') <=> x \in ToSet(freeSlots) \/ \E i \in G : row[i] = x
    <2> DEFINE f == freeSlots \o Duplicates(r, m)
    <2>1. ToSet(freeSlots) \cap ToSet(Duplicates(r, m)) = {}
      BY <1>6, <1>7, <1>8 DEF PagesAt
    <2>2. IsInjective(freeSlots)
      BY DEF PageInv, OneOwnerPerPage, NoPageTwiceFree
    <2>3. f \in Seq(Page) /\ IsInjective(f) /\ ToSet(f) = ToSet(freeSlots) \cup ToSet(Duplicates(r, m))
      BY <1>4, <1>8, <2>1, <2>2, ConcatPages
    <2>4. ToSet(f) \cap ToSet(Leftover(r, k)) = {}
      <3> SUFFICES ASSUME NEW i \in L, row[i] \in ToSet(f) PROVE FALSE
        BY <1>9 DEF PagesAt
      <3>1. PICK j \in D : row[j] = row[i]
        BY <1>6, <1>7, <1>8, <2>3 DEF PagesAt
      <3> QED
        BY <1>6, <1>7, <3>1
    <2>5. freeSlots' = f \o Leftover(r, k)
      BY <1>1
    <2> HIDE DEF f
    <2>6. ToSet(freeSlots') = ToSet(f) \cup ToSet(Leftover(r, k)) /\ IsInjective(freeSlots')
      BY <1>9, <2>3, <2>4, <2>5, ConcatPages
    <2> QED
      BY <1>8, <1>9, <2>3, <2>6 DEF PagesAt
  <1>11. /\ \A q \in held : Row(q)' = Row(q) /\ Private(q)' = Private(q)
    BY <1>2 DEF Row, Private
  <1>12. NoPageTwiceCached'
    BY <1>3, <1>5 DEF NoPageTwiceCached
  <1>13. \A x : x \in Range(tree'.page) <=> x \in Range(tree.page) \/ \E i \in C : row[i] = x
    BY <1>3, <1>5
  <1> HIDE DEF G, C, D, L
  <1>14. Private(r) = G \cup C \cup {} /\ G \cap {} = {} /\ C \cap {} = {}
    BY <1>6
  <1>15. /\ held' \subseteq held /\ held \ {r} \subseteq held' /\ r \notin held'
    BY <1>2
  <1> QED
    BY <1>4, <1>6, <1>10, <1>11, <1>12, <1>13, <1>14, <1>15, SplitPrivate

-----------------------------------------------------------------------------
(* The invariant.                                                          *)

LEMMA StepPages == PageInv /\ [CMNext]_cmVars => PageInv'
  <1> SUFFICES ASSUME PageInv, [CMNext]_cmVars PROVE PageInv'
    OBVIOUS
  <1>1. LockInv'
    BY StepLockInv DEF PageInv
  <1>2. CASE EvictLeaf
    BY <1>1, <1>2, EvictPages DEF PageInv
  <1>3. ASSUME NEW k \in Key, Refuse(k) PROVE PageInv'
    BY <1>1, <1>3, RefusePages, KeyAssumption DEF Refuse, PageInv
  <1>4. ASSUME NEW r \in Req, NEW k \in Key, Admit(r, k) PROVE PageInv'
    <2>1. PICK m \in Prefixes(k) : AdmitTo(r, k, m)
      BY <1>4 DEF Admit
    <2> QED
      BY <1>1, <1>4, <2>1, AdmitPages, KeyAssumption DEF Admit, PageInv
  <1>5. ASSUME NEW r \in Req, NEW n \in 1..MaxRow, Grow(r, n) PROVE PageInv'
    BY <1>1, <1>5, GrowPages, MaxRowAssumption DEF PageInv
  <1>6. ASSUME NEW r \in Req, NEW k \in Key, Extend(r, k) PROVE PageInv'
    BY <1>1, <1>6, ExtendPages, KeyAssumption DEF PageInv
  <1>7. ASSUME NEW r \in Req, NEW k \in Key, Release(r, k) PROVE PageInv'
    BY <1>1, <1>7, ReleasePages, KeyAssumption DEF PageInv
  <1>8. CASE UNCHANGED cmVars
    <2>1. UNCHANGED <<tree, freeSlots, pageTable, held, handle, slot>>
      BY <1>8 DEF cmVars
    <2>2. \A q \in held : Row(q)' = Row(q) /\ handle'[q] = handle[q]
      BY <2>1 DEF Row
    <2> QED
      BY <1>1, <2>1, <2>2, SamePages DEF PageInv
  <1> QED
    BY <1>2, <1>3, <1>4, <1>5, <1>6, <1>7, <1>8 DEF CMNext

LEMMA PageInvariant == CMSpec => []PageInv
  <1>1. CMInit => PageInv
    BY InitLockInv, InitPages DEF PageInv
  <1> QED
    BY <1>1, StepPages, PTL DEF CMSpec

\* No page is ever free twice, cached under two keys, in a request's hands twice,
\* or in two of these places at once.
THEOREM PagesOwnedOnce == CMSpec => []OneOwnerPerPage
  BY PageInvariant, PTL DEF PageInv

\* No page is ever lost: the pool has as many pages after any number of requests.
THEOREM PagesNeverLost == CMSpec => []NoPageLost
  BY PageInvariant, PTL DEF PageInv

-----------------------------------------------------------------------------
(* The size counters.                                                      *)

Free(t) == {p \in Cached(t) : t.ref[p] = 0}
Used(t) == {p \in Cached(t) : t.ref[p] # 0}

\* evictable_size and protected_size are the numbers of blocks they stand for.
Counted(t) ==
  /\ IsFiniteSet(Cached(t))
  /\ t.evictable = Cardinality(Free(t))
  /\ t.protected = Cardinality(Used(t))

\* A set and what is added to it.
LEMMA AddDisjoint ==
  ASSUME NEW S, IsFiniteSet(S), NEW N, IsFiniteSet(N), S \cap N = {}
  PROVE  /\ IsFiniteSet(S \cup N)
         /\ Cardinality(S) \in Nat /\ Cardinality(N) \in Nat
         /\ Cardinality(S \cup N) = Cardinality(S) + Cardinality(N)
  <1>1. Cardinality(S \cap N) = 0
    BY FS_EmptySet
  <1>2. Cardinality(S) \in Nat /\ Cardinality(N) \in Nat
    BY FS_CardinalityType
  <1>3. /\ IsFiniteSet(S \cup N)
        /\ Cardinality(S \cup N) = Cardinality(S) + Cardinality(N) - Cardinality(S \cap N)
    BY FS_Union
  <1> QED
    BY <1>1, <1>2, <1>3

\* The path from b down to h has one block for each length between them.
LEMMA PathCounted ==
  ASSUME NEW h \in Seq(Block), NEW b \in Seq(Block), IsPrefix(b, h)
  PROVE  /\ IsFiniteSet(Path(h) \ Path(b))
         /\ Cardinality(Path(h) \ Path(b)) = Len(h) - Len(b)
         /\ Len(b) \in Nat /\ Len(h) \in Nat /\ Len(b) <= Len(h)
  <1> DEFINE I == (Len(b) + 1)..Len(h)
             P == Path(h) \ Path(b)
             f == [i \in I |-> SubSeq(h, 1, i)]
  <1>1. Len(b) \in Nat /\ Len(h) \in Nat /\ Len(b) <= Len(h)
    BY PrefixPointwise
  <1>2. \A i \in I : /\ f[i] \in Seq(Block) /\ f[i] # <<>> /\ Len(f[i]) = i /\ IsPrefix(f[i], h)
    <2> SUFFICES ASSUME NEW i \in I
                 PROVE  f[i] \in Seq(Block) /\ f[i] # <<>> /\ Len(f[i]) = i /\ IsPrefix(f[i], h)
      OBVIOUS
    <2>1. i \in 1..Len(h)
      BY <1>1
    <2> QED
      BY <2>1, PrefixOfLength
  <1>3. \A i \in I : f[i] \in P
    <2> SUFFICES ASSUME NEW i \in I PROVE f[i] \in P
      OBVIOUS
    <2>1. f[i] \in Path(h)
      BY <1>2, PathMember
    <2>2. ASSUME f[i] \in Path(b) PROVE FALSE
      <3>1. f[i] \in Seq(Block) /\ IsPrefix(f[i], b)
        BY <2>2, PathMember
      <3>2. Len(f[i]) <= Len(b)
        BY <3>1, PrefixPointwise
      <3> QED
        BY <1>1, <1>2, <3>2
    <2> QED
      BY <2>1, <2>2
  <1>4. \A p \in P : \E i \in I : f[i] = p
    <2> SUFFICES ASSUME NEW p \in P PROVE \E i \in I : f[i] = p
      OBVIOUS
    <2>1. p \in Seq(Block) /\ p # <<>> /\ IsPrefix(p, h)
      BY PathMember
    <2>2. ~IsPrefix(p, b)
      BY <2>1, PathMember
    <2>3. Len(p) \in Nat /\ Len(p) <= Len(h) /\ \A j \in 1..Len(p) : p[j] = h[j]
      BY <2>1, PrefixPointwise
    <2>4. Len(p) > Len(b)
      <3>1. ASSUME Len(p) <= Len(b) PROVE FALSE
        BY <2>1, <2>2, <3>1, PrefixComparable
      <3> QED
        BY <1>1, <2>3, <3>1
    <2>5. Len(p) \in I
      BY <1>1, <2>3, <2>4
    <2>6. p = f[Len(p)]
      <3>1. PICK q : q = f[Len(p)]
        OBVIOUS
      <3>2. q \in Seq(Block) /\ Len(q) = Len(p) /\ IsPrefix(q, h)
        BY <1>2, <2>5, <3>1
      <3>3. Len(p) <= Len(q) /\ Len(q) <= Len(p)
        BY <2>3, <3>2
      <3>4. IsPrefix(p, q)
        BY <2>1, <3>2, <3>3, PrefixComparable
      <3>5. p = q
        BY <2>1, <3>2, <3>3, <3>4, PrefixAntisymmetric
      <3> QED
        BY <3>1, <3>5
    <2> QED
      BY <2>5, <2>6
  <1>5. \A i, j \in I : f[i] = f[j] => i = j
    BY <1>2
  <1>6. f \in Bijection(I, P)
    <2>1. f \in [I -> P]
      BY <1>3
    <2> HIDE DEF f, I, P
    <2> QED
      BY <1>4, <1>5, <2>1 DEF Bijection, Injection, Surjection, IsInjective
  <1>7. /\ IsFiniteSet(I) /\ Cardinality(I) = Len(h) - Len(b)
    <2>1. Len(b) + 1 \in Int /\ Len(h) \in Int
      BY <1>1
    <2>2. /\ IsFiniteSet(I)
          /\ Cardinality(I) = IF Len(b) + 1 > Len(h) THEN 0 ELSE Len(h) - (Len(b) + 1) + 1
      BY <2>1, FS_Interval
    <2> QED
      BY <1>1, <2>2
  <1>8. ExistsBijection(I, P)
    BY <1>6 DEF ExistsBijection
  <1> HIDE DEF I, P
  <1>9. IsFiniteSet(P) /\ Cardinality(P) = Cardinality(I)
    BY <1>7, <1>8, FS_Bijection
  <1> QED
    BY <1>1, <1>7, <1>9 DEF P

\* Splitting a node changes neither counter: both halves have the references of the whole.
LEMMA SplitCounted ==
  ASSUME NEW t, TreeType(t), Counted(t), NEW m, m = <<>> \/ m \in Cached(t)
  PROVE  Counted(SplitAt(t, m))
  <1> DEFINE s == SplitAt(t, m)
  <1>1. CASE m = <<>>
    BY <1>1 DEF SplitAt
  <1>2. CASE m # <<>>
    <2>1. s = [t EXCEPT !.nodes = @ \cup {m}]
      BY <1>2 DEF SplitAt
    <2> HIDE DEF s
    <2>2. s = [page |-> t.page, ref |-> t.ref, nodes |-> t.nodes \cup {m},
               evictable |-> t.evictable, protected |-> t.protected]
      BY <2>1 DEF TreeType
    <2>3. s.page = t.page /\ s.ref = t.ref /\ s.evictable = t.evictable /\ s.protected = t.protected
      BY <2>2
    <2>4. Counted(s)
      BY <2>3 DEF Counted, Cached, Free, Used
    <2> QED
      BY <2>4 DEF s
  <1> QED
    BY <1>1, <1>2

\* Locking a path moves its unreferenced blocks to the protected ones.
LEMMA LockCounted ==
  ASSUME NEW t, TreeType(t), Counted(t), \A p \in Cached(t) : t.ref[p] \in Nat,
         NEW h \in Seq(Block)
  PROVE  Counted(Lock(t, h))
  <1> DEFINE s == Lock(t, h)
             r == [p \in Cached(t) |-> IF p \in Path(h) THEN t.ref[p] + 1 ELSE t.ref[p]]
             O == OnPath(t, h, 0)
  <1>1. s = [t EXCEPT !.ref = r, !.evictable = @ - Cardinality(O), !.protected = @ + Cardinality(O)]
    BY DEF Lock
  <1>2. O \subseteq Free(t)
    BY DEF OnPath, Free
  <1>3. \A p \in Cached(t) : /\ r[p] = 0 <=> t.ref[p] = 0 /\ p \notin Path(h)
    BY DEF TreeType
  <1>4. \A p : p \in O <=> p \in Cached(t) /\ p \in Path(h) /\ t.ref[p] = 0
    BY DEF OnPath
  <1> HIDE DEF s, r, O
  <1>5. s = [page |-> t.page, ref |-> r, nodes |-> t.nodes,
             evictable |-> t.evictable - Cardinality(O), protected |-> t.protected + Cardinality(O)]
    BY <1>1 DEF TreeType
  <1>6. /\ Cached(s) = Cached(t) /\ s.ref = r
        /\ s.evictable = t.evictable - Cardinality(O)
        /\ s.protected = t.protected + Cardinality(O)
    BY <1>5 DEF Cached
  <1>7. Free(t) = Free(s) \cup O /\ Free(s) \cap O = {}
    BY <1>3, <1>4, <1>6 DEF Free
  <1>8. Used(s) = Used(t) \cup O /\ Used(t) \cap O = {}
    BY <1>3, <1>4, <1>6 DEF Used
  <1>9. IsFiniteSet(Free(s)) /\ IsFiniteSet(Used(t)) /\ IsFiniteSet(O)
    <2>1. Free(s) \in SUBSET Cached(t) /\ Used(t) \in SUBSET Cached(t) /\ O \in SUBSET Cached(t)
      BY <1>4, <1>6 DEF Free, Used
    <2> QED
      BY <2>1, FS_Subset DEF Counted
  <1>10. /\ Cardinality(Free(t)) = Cardinality(Free(s)) + Cardinality(O)
         /\ Cardinality(Used(s)) = Cardinality(Used(t)) + Cardinality(O)
         /\ Cardinality(O) \in Nat /\ Cardinality(Free(s)) \in Nat /\ Cardinality(Used(t)) \in Nat
    BY <1>7, <1>8, <1>9, AddDisjoint
  <1>11. Counted(s)
    BY <1>6, <1>10 DEF Counted
  <1> QED
    BY <1>11 DEF s

\* Unlocking a path gives its blocks with one user back to the unreferenced ones.
LEMMA UnlockCounted ==
  ASSUME NEW t, TreeType(t), Counted(t), NEW h \in Seq(Block),
         \A p \in Path(h) : p \in Cached(t) /\ t.ref[p] \in Nat \ {0}
  PROVE  Counted(Unlock(t, h))
  <1> DEFINE s == Unlock(t, h)
             r == [p \in Cached(t) |-> IF p \in Path(h) THEN t.ref[p] - 1 ELSE t.ref[p]]
             O == OnPath(t, h, 1)
  <1>1. s = [t EXCEPT !.ref = r, !.evictable = @ + Cardinality(O), !.protected = @ - Cardinality(O)]
    BY DEF Unlock
  <1>3. \A p \in Cached(t) : /\ r[p] = 0 <=> t.ref[p] = 0 \/ (t.ref[p] = 1 /\ p \in Path(h))
    BY DEF TreeType
  <1>4. \A p : p \in O <=> p \in Cached(t) /\ p \in Path(h) /\ t.ref[p] = 1
    BY DEF OnPath
  <1> HIDE DEF s, r, O
  <1>5. s = [page |-> t.page, ref |-> r, nodes |-> t.nodes,
             evictable |-> t.evictable + Cardinality(O), protected |-> t.protected - Cardinality(O)]
    BY <1>1 DEF TreeType
  <1>6. /\ Cached(s) = Cached(t) /\ s.ref = r
        /\ s.evictable = t.evictable + Cardinality(O)
        /\ s.protected = t.protected - Cardinality(O)
    BY <1>5 DEF Cached
  <1>7. Free(s) = Free(t) \cup O /\ Free(t) \cap O = {}
    BY <1>3, <1>4, <1>6 DEF Free
  <1>8. Used(t) = Used(s) \cup O /\ Used(s) \cap O = {}
    BY <1>3, <1>4, <1>6 DEF Used
  <1>9. IsFiniteSet(Free(t)) /\ IsFiniteSet(Used(s)) /\ IsFiniteSet(O)
    <2>1. Free(t) \in SUBSET Cached(t) /\ Used(s) \in SUBSET Cached(t) /\ O \in SUBSET Cached(t)
      BY <1>4, <1>6 DEF Free, Used
    <2> QED
      BY <2>1, FS_Subset DEF Counted
  <1>10. /\ Cardinality(Free(s)) = Cardinality(Free(t)) + Cardinality(O)
         /\ Cardinality(Used(t)) = Cardinality(Used(s)) + Cardinality(O)
         /\ Cardinality(O) \in Nat /\ Cardinality(Free(t)) \in Nat /\ Cardinality(Used(s)) \in Nat
    BY <1>7, <1>8, <1>9, AddDisjoint
  <1>11. Counted(s)
    BY <1>6, <1>10 DEF Counted
  <1> QED
    BY <1>11 DEF s

\* The new leaf is counted by the length of its key below the parent.
LEMMA InsertCounted ==
  ASSUME NEW t, TreeType(t), WellFormed(t), Counted(t), NEW k \in Seq(Block), NEW m,
         StopsAt(t, k, m), NEW row
  PROVE  Counted(Insert(t, k, m, row))
  <1> DEFINE s == Insert(t, k, m, row)
             N == Path(k) \ Path(m)
             all == Cached(t) \cup Path(k)
             pg == [p \in all |-> IF p \in Cached(t) THEN t.page[p] ELSE row[Len(p)]]
             rf == [p \in all |-> IF p \in Cached(t) THEN t.ref[p] ELSE 0]
             e == t.evictable + Len(k) - Len(m)
  <1>1. /\ m \in Seq(Block) /\ IsPrefix(m, k) /\ (m = <<>> \/ m \in Cached(t))
        /\ Path(m) \subseteq Cached(t)
    BY WalkCached
  <1>2. CASE m = k
    BY <1>1, <1>2, SplitCounted DEF Insert
  <1>3. CASE m # k
    <2>1. s = [SplitAt(t, m) EXCEPT !.page = pg, !.ref = rf, !.nodes = @ \cup {k},
                                    !.evictable = @ + Len(k) - Len(m)]
      BY <1>3 DEF Insert
    <2>2. N \cap Cached(t) = {} /\ all = Cached(t) \cup N
      <3>1. \A p \in N : p \notin Cached(t)
        <4> SUFFICES ASSUME NEW p \in N, p \in Cached(t) PROVE FALSE
          OBVIOUS
        <4>1. p \in Seq(Block) /\ p # <<>> /\ IsPrefix(p, k)
          BY PathMember
        <4>2. IsPrefix(p, m)
          BY <4>1, WalkIsLongest
        <4>3. p \in Path(m)
          BY <1>1, <4>1, <4>2, PathMember
        <4> QED
          BY <4>3
      <3> QED
        BY <1>1, <3>1
    <2>3. \E nd, ev, pr :
            /\ SplitAt(t, m) = [page |-> t.page, ref |-> t.ref, nodes |-> nd,
                                evictable |-> t.evictable, protected |-> t.protected]
      <3>1. CASE m = <<>>
        BY <3>1 DEF SplitAt, TreeType
      <3>2. CASE m # <<>>
        <4>1. SplitAt(t, m) = [t EXCEPT !.nodes = @ \cup {m}]
          BY <3>2 DEF SplitAt
        <4>2. SplitAt(t, m) = [page |-> t.page, ref |-> t.ref, nodes |-> t.nodes \cup {m},
                               evictable |-> t.evictable, protected |-> t.protected]
          BY <4>1 DEF TreeType
        <4> QED
          BY <4>2
      <3> QED
        BY <3>1, <3>2
    <2> HIDE DEF s, pg, rf
    <2>4. s.page = pg /\ s.ref = rf /\ s.evictable = e /\ s.protected = t.protected
      BY <2>1, <2>3
    <2> HIDE DEF e, all, N
    <2>5. /\ Cached(s) = Cached(t) \cup N
          /\ \A p \in Cached(t) : s.ref[p] = t.ref[p]
          /\ \A p \in N : s.ref[p] = 0
      BY <2>2, <2>4 DEF Cached, pg, rf
    <2>6. Free(s) = Free(t) \cup N /\ Free(t) \cap N = {} /\ Used(s) = Used(t)
      BY <2>2, <2>5 DEF Free, Used
    <2>7. /\ IsFiniteSet(N) /\ Cardinality(N) = Len(k) - Len(m)
          /\ Len(k) \in Nat /\ Len(m) \in Nat
      BY <1>1, PathCounted DEF N
    <2>8. IsFiniteSet(Free(t)) /\ IsFiniteSet(Cached(t))
      <3>1. Free(t) \in SUBSET Cached(t)
        BY DEF Free
      <3> QED
        BY <3>1, FS_Subset DEF Counted
    <2>9. /\ Cardinality(Free(s)) = Cardinality(Free(t)) + Cardinality(N)
          /\ Cardinality(Free(t)) \in Nat
      BY <2>6, <2>7, <2>8, AddDisjoint
    <2>10. IsFiniteSet(Cached(s))
      BY <2>2, <2>5, <2>7, <2>8, AddDisjoint
    <2>11. Counted(s)
      BY <2>4, <2>6, <2>7, <2>9, <2>10 DEF Counted, e
    <2> QED
      BY <2>11 DEF s
  <1> QED
    BY <1>2, <1>3

\* A victim takes as many unreferenced blocks with it as it is long.
LEMMA RemoveCounted ==
  ASSUME NEW t, TreeType(t), WellFormed(t), Counted(t), NEW n \in t.nodes, NEW b,
         IsParent(t, b, n), \A p \in Path(n) \ Path(b) : t.ref[p] = 0
  PROVE  Counted(RemoveLeaf(t, n, b))
  <1> DEFINE s == RemoveLeaf(t, n, b)
             N == Path(n) \ Path(b)
             left == Cached(t) \ N
             e == t.evictable - (Len(n) - Len(b))
  <1>1. /\ n \in Seq(Block) /\ b \in Seq(Block) /\ IsPrefix(b, n) /\ Path(n) \subseteq Cached(t)
    BY NodePagesType
  <1>2. s = [t EXCEPT !.page = [p \in left |-> t.page[p]], !.ref = [p \in left |-> t.ref[p]],
                      !.nodes = @ \ {n}, !.evictable = @ - (Len(n) - Len(b))]
    BY DEF RemoveLeaf
  <1>3. N \subseteq Cached(t) /\ \A p \in N : t.ref[p] = 0
    BY <1>1
  <1> HIDE DEF s, N
  <1>4. s = [page |-> [p \in left |-> t.page[p]], ref |-> [p \in left |-> t.ref[p]],
             nodes |-> t.nodes \ {n}, evictable |-> e, protected |-> t.protected]
    BY <1>2 DEF TreeType
  <1> HIDE DEF left, e
  <1>5. /\ Cached(s) = left /\ s.evictable = e /\ s.protected = t.protected
        /\ \A p \in left : s.ref[p] = t.ref[p]
    BY <1>4 DEF Cached
  <1>6. Free(t) = Free(s) \cup N /\ Free(s) \cap N = {} /\ Used(s) = Used(t)
    BY <1>3, <1>5 DEF Free, Used, left
  <1>7. /\ IsFiniteSet(N) /\ Cardinality(N) = Len(n) - Len(b)
        /\ Len(n) \in Nat /\ Len(b) \in Nat
    BY <1>1, PathCounted DEF N
  <1>8. IsFiniteSet(Free(s)) /\ IsFiniteSet(Cached(s))
    <2>1. Free(s) \in SUBSET Cached(t) /\ Cached(s) \in SUBSET Cached(t)
      BY <1>5 DEF Free, left
    <2> QED
      BY <2>1, FS_Subset DEF Counted
  <1>9. /\ Cardinality(Free(t)) = Cardinality(Free(s)) + Cardinality(N)
        /\ Cardinality(Free(s)) \in Nat
    BY <1>6, <1>7, <1>8, AddDisjoint
  <1>10. Counted(s)
    BY <1>5, <1>6, <1>7, <1>8, <1>9 DEF Counted, e
  <1> QED
    BY <1>10 DEF s

\* A reference count is a number, and is 0 exactly where no request holds the block.
LEMMA RefsNumbers ==
  ASSUME LockInv
  PROVE  \A p \in Cached(tree) :
           /\ tree.ref[p] \in Nat /\ p \in Seq(Block) /\ p # <<>>
           /\ tree.ref[p] = Cardinality(Holders(p)) /\ IsFiniteSet(Holders(p))
  <1> SUFFICES ASSUME NEW p \in Cached(tree)
               PROVE  /\ tree.ref[p] \in Nat /\ p \in Seq(Block) /\ p # <<>>
                      /\ tree.ref[p] = Cardinality(Holders(p)) /\ IsFiniteSet(Holders(p))
    OBVIOUS
  <1>1. IsFiniteSet(Holders(p))
    BY HeldFinite DEF LockInv, CMTypeOK, Holders
  <1>2. tree.ref[p] = Cardinality(Holders(p))
    BY DEF LockInv, RefCountsExact, Holders
  <1>3. p \in Seq(Block) /\ p # <<>>
    BY DEF LockInv, CMTypeOK, TreeType, LockedHandlesStay, WellFormed, RootNotCached
  <1> QED
    BY <1>1, <1>2, <1>3, FS_CardinalityType

\* The path a request has locked is referenced all along.
LEMMA LockedPathReferenced ==
  ASSUME LockInv, NEW r \in held
  PROVE  \A p \in Path(handle[r]) : p \in Cached(tree) /\ tree.ref[p] \in Nat \ {0}
  <1> SUFFICES ASSUME NEW p \in Path(handle[r])
               PROVE  p \in Cached(tree) /\ tree.ref[p] \in Nat \ {0}
    OBVIOUS
  <1>1. p \in Cached(tree) /\ handle[r] \in Seq(Block)
    BY HandlesCached
  <1>2. r \in Holders(p)
    BY <1>1, PathMember DEF Holders
  <1>3. tree.ref[p] \in Nat /\ tree.ref[p] = Cardinality(Holders(p)) /\ IsFiniteSet(Holders(p))
    BY <1>1, RefsNumbers
  <1>4. tree.ref[p] # 0
    BY <1>2, <1>3, FS_EmptySet
  <1> QED
    BY <1>1, <1>3, <1>4

\* No request uses a block of the node that eviction removes.
LEMMA VictimUnused ==
  ASSUME LockInv, NEW n \in tree.nodes, NEW b, IsVictim(tree, n), IsParent(tree, b, n)
  PROVE  \A p \in Path(n) \ Path(b) : tree.ref[p] = 0
  <1> SUFFICES ASSUME NEW p \in Path(n) \ Path(b), tree.ref[p] # 0 PROVE FALSE
    OBVIOUS
  <1>1. TreeType(tree) /\ WellFormed(tree)
    BY DEF LockInv, CMTypeOK, LockedHandlesStay
  <1>2. /\ n \in Seq(Block) /\ b \in Seq(Block) /\ IsPrefix(b, n) /\ Path(n) \subseteq Cached(tree)
        /\ n \in Cached(tree)
    BY <1>1, NodePagesType DEF TreeType
  <1>3. p \in Cached(tree) /\ p \in Seq(Block) /\ p # <<>> /\ IsPrefix(p, n) /\ ~IsPrefix(p, b)
    BY <1>2, PathMember
  <1>4. Holders(p) # {}
    BY <1>3, RefsNumbers, FS_EmptySet
  <1>5. PICK q \in held : IsPrefix(p, handle[q])
    BY <1>4 DEF Holders
  <1> DEFINE h == handle[q]
  <1>6. h \in Seq(Block) /\ (h = <<>> \/ h \in tree.nodes)
    BY <1>5, HandlesCached DEF LockInv, LockedHandlesStay
  <1>7. h \in tree.nodes /\ h \in Cached(tree)
    <2>1. h # <<>>
      <3>1. Len(p) \in Nat /\ Len(p) # 0 /\ Len(p) <= Len(h)
        BY <1>3, <1>5, <1>6, PrefixPointwise
      <3> QED
        BY <3>1
    <2> QED
      BY <1>1, <1>6, <2>1 DEF TreeType
  <1>8. ~IsPrefix(n, h)
    <2>1. Holders(n) = {}
      BY <1>2, RefsNumbers, FS_EmptySet DEF IsVictim
    <2> QED
      BY <1>5, <2>1 DEF Holders
  <1>9. \E m \in tree.nodes : IsPrefix(p, m) /\ IsStrictPrefix(m, n)
    <2>1. CASE IsPrefix(h, n)
      <3>1. h # n
        BY <1>2, <1>8, PrefixReflexive
      <3> QED
        BY <1>5, <1>7, <2>1, <3>1 DEF IsStrictPrefix
    <2>2. CASE ~IsPrefix(h, n)
      BY <1>1, <1>3, <1>5, <1>7, <1>8, <2>2 DEF WellFormed, BranchesAtNodes
    <2> QED
      BY <2>1, <2>2
  <1>10. PICK m \in tree.nodes : IsPrefix(p, m) /\ IsStrictPrefix(m, n)
    BY <1>9
  <1>11. IsPrefix(m, b) /\ m \in Seq(Block)
    BY <1>1, <1>10 DEF IsParent, TreeType
  <1>12. IsPrefix(p, b)
    BY <1>2, <1>3, <1>10, <1>11, PrefixTransitive
  <1> QED
    BY <1>3, <1>12

\* What cache_req inserts and unlocks.
LEMMA InsertedCounted ==
  ASSUME LockInv, Counted(tree), NEW r \in Req, NEW k \in Seq(Block), NEW m,
         Cacheable(r, k), StopsAt(tree, k, m)
  PROVE  Counted(Inserted(r, k, m))
  <1> DEFINE i == Insert(tree, k, m, Row(r))
             h == handle[r]
  <1>1. TreeType(tree) /\ WellFormed(tree)
    BY DEF LockInv, CMTypeOK, LockedHandlesStay
  <1>2. /\ r \in held /\ Len(k) <= Len(Row(r)) /\ Row(r) \in Seq(Page)
        /\ h \in Seq(Block) /\ Path(h) \subseteq Cached(tree)
    BY HandlesCached DEF Cacheable
  <1>3. TreeType(i) /\ Counted(i)
    BY <1>1, <1>2, InsertFields, InsertCounted
  <1>4. \A p \in Cached(tree) : p \in Cached(i) /\ i.ref[p] = tree.ref[p]
    <2>1. CASE m = k
      <3>1. i = SplitAt(tree, m)
        BY <2>1 DEF Insert
      <3>2. m = <<>> \/ m \in Cached(tree)
        BY DEF StopsAt
      <3>3. LET u == SplitAt(tree, m) IN u.page = tree.page /\ u.ref = tree.ref
        BY <1>1, <3>2, SplitFields
      <3> HIDE DEF i
      <3> QED
        BY <3>1, <3>3 DEF Cached
    <2>2. CASE m # k
      <3>1. /\ Cached(i) = Cached(tree) \cup Path(k)
            /\ \A p \in Cached(tree) : i.ref[p] = tree.ref[p]
        BY <1>1, <1>2, <2>2, InsertFields
      <3> HIDE DEF i
      <3> QED
        BY <3>1
    <2> QED
      BY <2>1, <2>2
  <1>5. \A p \in Path(h) : p \in Cached(i) /\ i.ref[p] \in Nat \ {0}
    BY <1>2, <1>4, LockedPathReferenced
  <1> HIDE DEF i, h
  <1>6. Counted(Unlock(i, h))
    BY <1>2, <1>3, <1>5, UnlockCounted
  <1> QED
    BY <1>6 DEF Inserted, i, h

\* The counters need the lock counts: a block leaves the unreferenced ones
\* exactly when the first request locks it.
CountInv == LockInv /\ Counted(tree)

\* Every step of the cache manager keeps the counters right.
LEMMA StepCounted == CountInv /\ [CMNext]_cmVars => Counted(tree)'
  <1> SUFFICES ASSUME CountInv, [CMNext]_cmVars PROVE Counted(tree')
    BY DEF Counted, Cached, Free, Used
  <1>1. LockInv /\ Counted(tree) /\ TreeType(tree) /\ WellFormed(tree)
    BY DEF CountInv, LockInv, CMTypeOK, LockedHandlesStay
  <1>2. CASE EvictLeaf
    <2>1. PICK n \in tree.nodes : \E b \in Prefixes(n) :
            IsVictim(tree, n) /\ IsParent(tree, b, n) /\ tree' = RemoveLeaf(tree, n, b)
      BY <1>2 DEF EvictLeaf
    <2>2. PICK b : IsVictim(tree, n) /\ IsParent(tree, b, n) /\ tree' = RemoveLeaf(tree, n, b)
      BY <2>1
    <2>3. \A p \in Path(n) \ Path(b) : tree.ref[p] = 0
      BY <1>1, <2>2, VictimUnused
    <2> QED
      BY <1>1, <2>2, <2>3, RemoveCounted
  <1>3. ASSUME NEW k \in Key, Refuse(k) PROVE Counted(tree')
    <2>1. PICK m : StopsAt(tree, k, m) /\ tree' = SplitAt(tree, m)
      BY <1>3 DEF Refuse, MatchOnly
    <2> QED
      BY <1>1, <2>1, SplitCounted DEF StopsAt
  <1>4. ASSUME NEW r \in Req, NEW k \in Key, Admit(r, k) PROVE Counted(tree')
    <2>1. PICK m : StopsAt(tree, k, m) /\ tree' = Lock(SplitAt(tree, m), m)
      BY <1>4 DEF Admit, AdmitTo
    <2> DEFINE u == SplitAt(tree, m)
    <2>2. m \in Seq(Block) /\ (m = <<>> \/ m \in Cached(tree))
      BY <1>1, <2>1, KeyAssumption, WalkCached
    <2>3. TreeType(u) /\ u.page = tree.page /\ u.ref = tree.ref /\ Counted(u)
      BY <1>1, <2>2, SplitFields, SplitCounted
    <2>4. tree' = Lock(u, m)
      BY <2>1
    <2> HIDE DEF u
    <2>5. \A p \in Cached(u) : u.ref[p] \in Nat
      BY <1>1, <2>3, RefsNumbers DEF Cached
    <2> QED
      BY <2>2, <2>3, <2>4, <2>5, LockCounted
  <1>5. ASSUME NEW r \in Req, NEW n \in 1..MaxRow, Grow(r, n) PROVE Counted(tree')
    <2>1. tree' = tree
      BY <1>5 DEF Grow, TakePages
    <2> QED
      BY <1>1, <2>1
  <1>6. ASSUME NEW r \in Req, NEW k \in Key, Extend(r, k) PROVE Counted(tree')
    <2>1. PICK m : StopsAt(tree, k, m) /\ tree' = Lock(Inserted(r, k, m), k)
      BY <1>6 DEF Extend, CacheUnfinished
    <2> DEFINE s == Inserted(r, k, m)
    <2>2. k \in Seq(Block) /\ Cacheable(r, k)
      BY <1>6, KeyAssumption DEF Extend
    <2>3. TreeType(s) /\ Counted(s)
      BY <1>1, <2>1, <2>2, InsertedFacts, InsertedCounted
    <2>4. \A p \in Cached(s) : s.ref[p] \in Nat
      <3>1. \A p \in Cached(s) : s.ref[p] = Cardinality(Holders(p) \ {r})
        BY <1>1, <2>1, <2>2, InsertedFacts
      <3>2. \A p : IsFiniteSet(Holders(p) \ {r})
        BY <1>1, HeldFinite DEF LockInv, CMTypeOK, Holders
      <3> HIDE DEF s
      <3> QED
        BY <3>1, <3>2, FS_CardinalityType
    <2>5. tree' = Lock(s, k)
      BY <2>1
    <2> HIDE DEF s
    <2> QED
      BY <2>2, <2>3, <2>4, <2>5, LockCounted
  <1>7. ASSUME NEW r \in Req, NEW k \in Key, Release(r, k) PROVE Counted(tree')
    <2>1. PICK m : StopsAt(tree, k, m) /\ tree' = Inserted(r, k, m)
      BY <1>7 DEF Release, FreeResources
    <2>2. k \in Seq(Block) /\ Cacheable(r, k)
      BY <1>7, KeyAssumption DEF Release
    <2> QED
      BY <1>1, <2>1, <2>2, InsertedCounted
  <1>8. CASE UNCHANGED cmVars
    BY <1>1, <1>8 DEF cmVars
  <1> QED
    BY <1>2, <1>3, <1>4, <1>5, <1>6, <1>7, <1>8 DEF CMNext

LEMMA CountInvariant == CMSpec => []CountInv
  <1>1. CMInit => CountInv
    <2> SUFFICES ASSUME CMInit PROVE Counted(tree)
      BY InitLockInv DEF CountInv
    <2>1. Cached(tree) = {} /\ tree.evictable = 0 /\ tree.protected = 0
      BY DEF CMInit, EmptyTree, Cached
    <2>2. Free(tree) = {} /\ Used(tree) = {}
      BY <2>1 DEF Free, Used
    <2> QED
      BY <2>1, <2>2, FS_EmptySet DEF Counted
  <1>2. CountInv /\ [CMNext]_cmVars => CountInv'
    BY StepLockInv, StepCounted DEF CountInv
  <1> QED
    BY <1>1, <1>2, PTL DEF CMSpec

\* evictable_size and protected_size, which admission and check_integrity rely on,
\* always are the numbers of unreferenced and of referenced blocks in the cache.
THEOREM CountersCorrect == CMSpec => []CountersExact
  <1>1. CountInv => CountersExact
    BY DEF CountInv, Counted, CountersExact, Free, Used
  <1> QED
    BY <1>1, CountInvariant, PTL

-----------------------------------------------------------------------------
(* What is left when no request holds anything.                            *)

\* Every slot is free or has a user.
NoSlotLost == \A x \in Slot : x \in ToSet(tableFree) \/ \E r \in held : slot[r] = x

\* Only admission takes a slot, for its request, and only the release gives it back.
LEMMA StepSlots == LockInv /\ NoSlotLost /\ [CMNext]_cmVars => NoSlotLost'
  <1> SUFFICES ASSUME LockInv, NoSlotLost, [CMNext]_cmVars PROVE NoSlotLost'
    OBVIOUS
  <1>1. /\ tableFree \in Seq(Slot) /\ IsInjective(tableFree)
        /\ held \subseteq Req /\ slot \in [Req -> Slot \cup {NoSlot}]
    BY DEF LockInv, CMTypeOK, OneUserPerSlot
  <1>2. CASE UNCHANGED <<tableFree, held, slot>>
    BY <1>2 DEF NoSlotLost, Slot
  <1>3. ASSUME NEW r \in Req, NEW k \in Key, Admit(r, k) PROVE NoSlotLost'
    <2>1. /\ r \notin held /\ Len(tableFree) > 0 /\ TakeSlot
          /\ slot' = [slot EXCEPT ![r] = Last(tableFree)] /\ held' = held \cup {r}
      BY <1>3 DEF Admit, AdmitTo
    <2>2. ToSet(tableFree') = ToSet(tableFree) \ {Last(tableFree)}
      BY <1>1, <2>1, SlotTaken
    <2>3. slot'[r] = Last(tableFree) /\ \A q \in held : slot'[q] = slot[q]
      BY <1>1, <2>1
    <2> QED
      BY <2>1, <2>2, <2>3 DEF NoSlotLost, Slot
  <1>4. ASSUME NEW r \in Req, NEW k \in Key, Release(r, k) PROVE NoSlotLost'
    <2>1. FreeSlot(slot[r]) /\ held' = held \ {r} /\ slot' = slot /\ r \in held
      BY <1>4 DEF Release, FreeResources, Cacheable
    <2>2. slot[r] \in Slot /\ slot[r] \notin ToSet(tableFree)
      BY <2>1 DEF LockInv, OneUserPerSlot
    <2>3. ToSet(tableFree') = ToSet(tableFree) \cup {slot[r]}
      BY <1>1, <2>1, <2>2, SlotFreed
    <2> QED
      BY <2>1, <2>3 DEF NoSlotLost, Slot
  <1>5. ASSUME NEW r \in Req, NEW n \in 1..MaxRow, Grow(r, n) PROVE NoSlotLost'
    BY <1>2, <1>5 DEF Grow, TakePages
  <1>6. ASSUME NEW r \in Req, NEW k \in Key, Extend(r, k) PROVE NoSlotLost'
    BY <1>2, <1>6 DEF Extend, CacheUnfinished
  <1> QED
    BY <1>2, <1>3, <1>4, <1>5, <1>6 DEF CMNext, EvictLeaf, Refuse, MatchOnly, cmVars

\* A function without repetition has as many values as arguments.
LEMMA ValuesCounted ==
  ASSUME NEW D, IsFiniteSet(D), NEW f, DOMAIN f = D, IsInjective(f)
  PROVE  LET R == {f[x] : x \in D} IN IsFiniteSet(R) /\ Cardinality(R) = Cardinality(D)
  <1> DEFINE R == {f[x] : x \in D}
             g == [x \in D |-> f[x]]
  <1>1. g \in Bijection(D, R)
    BY DEF Bijection, Injection, Surjection, IsInjective
  <1>2. ExistsBijection(D, R)
    BY <1>1 DEF ExistsBijection
  <1> HIDE DEF R
  <1> QED
    BY <1>2, FS_Bijection DEF R

\* A list without repetition is as long as the set of its members is large.
LEMMA ListCounted ==
  ASSUME NEW S, NEW s \in Seq(S), IsInjective(s)
  PROVE  IsFiniteSet(ToSet(s)) /\ Cardinality(ToSet(s)) = Len(s) /\ Len(s) \in Nat
  <1>1. DOMAIN s = 1..Len(s) /\ Len(s) \in Nat
    OBVIOUS
  <1>2. IsFiniteSet(1..Len(s)) /\ Cardinality(1..Len(s)) = Len(s)
    <2>1. 1 \in Int /\ Len(s) \in Int
      BY <1>1
    <2>2. /\ IsFiniteSet(1..Len(s))
          /\ Cardinality(1..Len(s)) = IF 1 > Len(s) THEN 0 ELSE Len(s) - 1 + 1
      BY <2>1, FS_Interval
    <2> QED
      BY <1>1, <2>2
  <1>3. ToSet(s) = {s[x] : x \in 1..Len(s)}
    BY <1>1 DEF ToSet
  <1> QED
    BY <1>1, <1>2, <1>3, ValuesCounted

\* The idle server: no page is in use, and with those in the cache all are there.
LEMMA NothingHeld ==
  ASSUME PageInv, Counted(tree), NoSlotLost, held = {}
  PROVE  /\ Len(freeSlots) + tree.evictable + tree.protected = NumPages
         /\ tree.protected = 0
         /\ Len(tableFree) = MaxRunning
  <1>1. /\ LockInv /\ freeSlots \in Seq(Page) /\ tableFree \in Seq(Slot) /\ TreeType(tree)
        /\ IsInjective(tableFree) /\ IsInjective(freeSlots) /\ IsInjective(tree.page)
        /\ ToSet(freeSlots) \cap Range(tree.page) = {}
    BY DEF PageInv, LockInv, CMTypeOK, OneUserPerSlot, OneOwnerPerPage, NoPageTwiceFree,
           NoPageTwiceCached, FreeNotCached
  <1>2. /\ IsFiniteSet(ToSet(freeSlots)) /\ Cardinality(ToSet(freeSlots)) = Len(freeSlots)
        /\ Len(freeSlots) \in Nat
    BY <1>1, ListCounted
  <1>3. IsFiniteSet(ToSet(tableFree)) /\ Cardinality(ToSet(tableFree)) = Len(tableFree)
    BY <1>1, ListCounted
  <1>4. /\ IsFiniteSet(Range(tree.page))
        /\ Cardinality(Range(tree.page)) = Cardinality(Cached(tree))
    <2>1. IsFiniteSet(Cached(tree)) /\ DOMAIN tree.page = Cached(tree)
      BY DEF Counted, Cached
    <2>2. Range(tree.page) = {tree.page[x] : x \in Cached(tree)}
      BY DEF Range, Cached
    <2> QED
      BY <1>1, <2>1, <2>2, ValuesCounted
  <1>5. Page = ToSet(freeSlots) \cup Range(tree.page)
    <2>1. ToSet(freeSlots) \subseteq Page
      BY <1>1 DEF ToSet
    <2>2. Range(tree.page) \subseteq Page
      BY <1>1 DEF TreeType, Range
    <2>3. Page \subseteq ToSet(freeSlots) \cup Range(tree.page)
      BY DEF PageInv, NoPageLost
    <2> QED
      BY <2>1, <2>2, <2>3
  <1>6. IsFiniteSet(Page) /\ Cardinality(Page) = NumPages
    <2>1. 0 \in Int /\ NumPages - 1 \in Int
      BY NumPagesAssumption
    <2>2. /\ IsFiniteSet(Page)
          /\ Cardinality(Page) = IF 0 > NumPages - 1 THEN 0 ELSE (NumPages - 1) - 0 + 1
      BY <2>1, FS_Interval DEF Page
    <2> QED
      BY <2>2, NumPagesAssumption
  <1>7. NumPages = Len(freeSlots) + Cardinality(Cached(tree)) /\ Cardinality(Cached(tree)) \in Nat
    BY <1>1, <1>2, <1>4, <1>5, <1>6, AddDisjoint
  <1>8. Used(tree) = {} /\ Free(tree) = Cached(tree)
    <2>1. \A p : Holders(p) = {}
      BY DEF Holders
    <2>2. \A p \in Cached(tree) : tree.ref[p] = 0
      BY <1>1, <2>1, RefsNumbers, FS_EmptySet
    <2> QED
      BY <2>2 DEF Used, Free
  <1>9. tree.protected = 0 /\ tree.evictable = Cardinality(Cached(tree))
    BY <1>8, FS_EmptySet DEF Counted
  <1>10. Len(tableFree) = MaxRunning
    <2>1. ToSet(tableFree) = Slot
      <3>1. ToSet(tableFree) \subseteq Slot
        BY <1>1 DEF ToSet
      <3> QED
        BY <3>1 DEF NoSlotLost
    <2>2. 0 \in Int /\ MaxRunning - 1 \in Int
      BY MaxRunningAssumption
    <2>3. Cardinality(Slot) = IF 0 > MaxRunning - 1 THEN 0 ELSE (MaxRunning - 1) - 0 + 1
      BY <2>2, FS_Interval DEF Slot
    <2> QED
      BY <1>3, <2>1, <2>3, MaxRunningAssumption
  <1> QED
    BY <1>7, <1>9, <1>10, <1>2

LEMMA SlotsInvariant == CMSpec => []NoSlotLost
  <1>1. CMInit => NoSlotLost
    <2> SUFFICES ASSUME CMInit, NEW x \in Slot PROVE x \in ToSet(tableFree)
      BY DEF NoSlotLost
    <2>1. x \in Int /\ x + 1 \in 1..MaxRunning /\ tableFree = [i \in 1..MaxRunning |-> i - 1]
      BY MaxRunningAssumption DEF CMInit, Slot
    <2>2. tableFree[x + 1] = x /\ x + 1 \in DOMAIN tableFree
      BY <2>1
    <2> QED
      BY <2>2 DEF ToSet
  <1>2. LockInv /\ NoSlotLost /\ [CMNext]_cmVars => NoSlotLost'
    BY StepSlots
  <1> QED
    BY <1>1, <1>2, LockInvariant, PTL DEF CMSpec

-----------------------------------------------------------------------------
(* Part two: the scheduler.                                                *)

-----------------------------------------------------------------------------
(* Sums over finite sets.                                                  *)

\* A non-empty set of numbers has a least one.
LEMMA NatLeast ==
  ASSUME NEW T \in SUBSET Nat, T # {}
  PROVE  \E x \in T : \A y \in T : x <= y
  <1> DEFINE R == {p \in Nat \X Nat : p[1] < p[2]}
  <1>1. IsWellFoundedOn(R, Nat)
    BY NatLessThanWellFounded DEF OpToRel
  <1>2. \A x, y \in Nat : y < x => <<y, x>> \in R
    <2> SUFFICES ASSUME NEW x \in Nat, NEW y \in Nat, y < x PROVE <<y, x>> \in R
      OBVIOUS
    <2>1. <<y, x>> \in Nat \X Nat /\ <<y, x>>[1] = y /\ <<y, x>>[2] = x
      OBVIOUS
    <2> QED
      BY <2>1
  <1> HIDE DEF R
  <1>3. PICK x \in T : \A y \in T : <<y, x>> \notin R
    BY <1>1, WFMin
  <1>4. \A y \in T : y \in Nat /\ x \in Nat /\ ~(y < x)
    BY <1>2, <1>3
  <1> QED
    BY <1>4

\* A set of numbers that has 0 and with each number the next has all numbers.
LEMMA AllNumbers ==
  ASSUME NEW T \in SUBSET Nat, 0 \in T, \A n \in T : n + 1 \in T
  PROVE  T = Nat
  <1> SUFFICES ASSUME Nat \ T # {} PROVE FALSE
    OBVIOUS
  <1>1. PICK n \in Nat \ T : \A y \in Nat \ T : n <= y
    BY NatLeast
  <1>2. n # 0 /\ n - 1 \in Nat /\ ~(n <= n - 1)
    BY <1>1
  <1>3. n - 1 \in T
    BY <1>1, <1>2
  <1>4. (n - 1) + 1 = n
    BY <1>1
  <1> QED
    BY <1>1, <1>3, <1>4

SmallSubsets(S, n) == {s \in SUBSET S : Cardinality(s) <= n}

SumRule(f, D, g) ==
  \A s \in D :
    g[s] = IF s = {} THEN 0 ELSE f[CHOOSE x \in s : TRUE] + g[s \ {CHOOSE x \in s : TRUE}]

\* The sums over subsets of at most n members exist, and obey the rule.
LEMMA SmallSums ==
  ASSUME NEW S, IsFiniteSet(S), NEW f, \A x \in S : f[x] \in Int
  PROVE  \A n \in Nat : \E g \in [SmallSubsets(S, n) -> Int] : SumRule(f, SmallSubsets(S, n), g)
  <1> DEFINE T == {n \in Nat : \E g \in [SmallSubsets(S, n) -> Int] :
                             SumRule(f, SmallSubsets(S, n), g)}
  <1>0. \A s \in SUBSET S : IsFiniteSet(s) /\ Cardinality(s) \in Nat
        /\ (Cardinality(s) = 0 <=> s = {})
    BY FS_Subset, FS_CardinalityType, FS_EmptySet
  <1>1. 0 \in T
    <2>1. SmallSubsets(S, 0) = {{}}
      BY <1>0 DEF SmallSubsets
    <2>2. [s \in {{}} |-> 0] \in [SmallSubsets(S, 0) -> Int]
      BY <2>1
    <2>3. SumRule(f, SmallSubsets(S, 0), [s \in {{}} |-> 0])
      BY <2>1 DEF SumRule
    <2> QED
      BY <2>2, <2>3
  <1>2. ASSUME NEW n \in T PROVE n + 1 \in T
    <2>1. n \in Nat
      OBVIOUS
    <2>2. PICK g \in [SmallSubsets(S, n) -> Int] : SumRule(f, SmallSubsets(S, n), g)
      OBVIOUS
    <2> DEFINE D == SmallSubsets(S, n)
               E == SmallSubsets(S, n + 1)
               h == [s \in E |-> IF s = {} THEN 0
                                 ELSE f[CHOOSE x \in s : TRUE] + g[s \ {CHOOSE x \in s : TRUE}]]
    <2>3. ASSUME NEW s \in E, s # {}
          PROVE  (CHOOSE x \in s : TRUE) \in s /\ s \ {CHOOSE x \in s : TRUE} \in D
      <3>1. (CHOOSE x \in s : TRUE) \in s
        BY <2>3
      <3>2. s \in SUBSET S /\ Cardinality(s) <= n + 1 /\ IsFiniteSet(s) /\ Cardinality(s) \in Nat
        BY <1>0 DEF SmallSubsets
      <3>3. Cardinality(s \ {CHOOSE x \in s : TRUE}) = Cardinality(s) - 1
        BY <3>1, <3>2, FS_RemoveElement
      <3> QED
        BY <2>1, <3>1, <3>2, <3>3 DEF SmallSubsets
    <2>5. h \in [E -> Int]
      <3>1. ASSUME NEW s \in E PROVE h[s] \in Int
        <4>1. CASE s = {}
          BY <4>1
        <4>2. CASE s # {}
          <5>1. PICK x \in s : x = CHOOSE z \in s : TRUE
            BY <4>2
          <5>2. h[s] = f[x] + g[s \ {x}]
            BY <4>2, <5>1
          <5>3. x \in S /\ s \ {x} \in D
            BY <2>3, <4>2, <5>1 DEF SmallSubsets
          <5>4. f[x] \in Int /\ g[s \ {x}] \in Int
            BY <5>3
          <5> HIDE DEF h
          <5> QED
            BY <5>2, <5>4
        <4> QED
          BY <4>1, <4>2
      <3>2. DOMAIN h = E /\ h = [s \in E |-> h[s]]
        OBVIOUS
      <3> HIDE DEF h
      <3> QED
        BY <3>1, <3>2
    <2>6. ASSUME NEW s \in D PROVE s \in E /\ h[s] = g[s]
      <3>1. s \in E
        BY <2>1, <1>0 DEF SmallSubsets
      <3> QED
        BY <2>2, <3>1 DEF SumRule
    <2>7. SumRule(f, E, h)
      <3> SUFFICES ASSUME NEW s \in E
                   PROVE h[s] = IF s = {} THEN 0
                                ELSE f[CHOOSE x \in s : TRUE] + h[s \ {CHOOSE x \in s : TRUE}]
        BY DEF SumRule
      <3>1. CASE s = {}
        BY <3>1
      <3>2. CASE s # {}
        <4> DEFINE x == CHOOSE z \in s : TRUE
        <4>1. s \ {x} \in D
          BY <2>3, <3>2
        <4>2. h[s \ {x}] = g[s \ {x}]
          BY <2>6, <4>1
        <4>3. h[s] = f[x] + g[s \ {x}]
          BY <3>2
        <4> HIDE DEF h
        <4> QED
          BY <3>2, <4>2, <4>3
      <3> QED
        BY <3>1, <3>2
    <2> HIDE DEF h, E
    <2>8. \E k \in [E -> Int] : SumRule(f, E, k)
      BY <2>5, <2>7
    <2> QED
      BY <2>1, <2>8 DEF E
  <1> HIDE DEF T
  <1>3. T = Nat
    BY <1>1, <1>2, AllNumbers DEF T
  <1> QED
    BY <1>3 DEF T

\* The recursion behind SumFunctionOnSet has a solution on a finite set, so that
\* the sum obeys it.
LEMMA SumUnfolds ==
  ASSUME NEW S, IsFiniteSet(S), NEW f, \A x \in S : f[x] \in Int
  PROVE  \E g : /\ DOMAIN g = SUBSET S
                /\ SumRule(f, SUBSET S, g)
                /\ SumFunctionOnSet(f, S) = g[S]
  <1> DEFINE n == Cardinality(S)
  <1>1. SUBSET S = SmallSubsets(S, n) /\ n \in Nat
    BY FS_Subset, FS_CardinalityType DEF SmallSubsets
  <1>2. \E g \in [SmallSubsets(S, n) -> Int] : SumRule(f, SmallSubsets(S, n), g)
    <2>1. n \in Nat
      BY <1>1
    <2> HIDE DEF n
    <2> QED
      BY <2>1, SmallSums
  <1>2a. PICK g \in [SUBSET S -> Int] : SumRule(f, SUBSET S, g)
    BY <1>1, <1>2
  <1>3. g = [s \in SUBSET S |-> IF s = {} THEN 0
                 ELSE f[CHOOSE x \in s : TRUE] + g[s \ {CHOOSE x \in s : TRUE}]]
    BY <1>2a DEF SumRule
  <1> DEFINE it == CHOOSE h : h = [s \in SUBSET S |-> IF s = {} THEN 0
                 ELSE f[CHOOSE x \in s : TRUE] + h[s \ {CHOOSE x \in s : TRUE}]]
  <1>4. it = [s \in SUBSET S |-> IF s = {} THEN 0
                 ELSE f[CHOOSE x \in s : TRUE] + it[s \ {CHOOSE x \in s : TRUE}]]
    BY <1>3
  <1>5. SumFunctionOnSet(f, S) = it[S]
    BY DEF SumFunctionOnSet, FoldFunctionOnSet, MapThenFoldSet
  <1> HIDE DEF it
  <1>6. DOMAIN it = SUBSET S /\ SumRule(f, SUBSET S, it)
    BY <1>4 DEF SumRule
  <1> QED
    BY <1>5, <1>6

\* A sum of numbers is a number.
LEMMA SumOfNumbers ==
  ASSUME NEW S, IsFiniteSet(S), NEW f, \A x \in S : f[x] \in Int
  PROVE  SumFunctionOnSet(f, S) \in Int
  <1>1. PICK g : SumRule(f, SUBSET S, g) /\ SumFunctionOnSet(f, S) = g[S]
    BY SumUnfolds
  <1> DEFINE T == {n \in Nat : \A s \in SUBSET S : Cardinality(s) <= n => g[s] \in Int}
  <1>2. \A s \in SUBSET S : IsFiniteSet(s) /\ Cardinality(s) \in Nat
        /\ (Cardinality(s) = 0 <=> s = {})
    BY FS_Subset, FS_CardinalityType, FS_EmptySet
  <1>3. 0 \in T
    BY <1>1, <1>2 DEF SumRule
  <1>4. ASSUME NEW n \in T PROVE n + 1 \in T
    <2>c. {} \in SUBSET S /\ 0 \in Int
      OBVIOUS
    <2>0. g[{}] \in Int
      BY <1>1, <2>c DEF SumRule
    <2>a. n \in Nat /\ \A s \in SUBSET S : Cardinality(s) <= n => g[s] \in Int
      OBVIOUS
    <2> HIDE DEF T
    <2>b. n + 1 \in T <=> \A s \in SUBSET S : Cardinality(s) <= n + 1 => g[s] \in Int
      BY <2>a DEF T
    <2> SUFFICES ASSUME NEW s \in SUBSET S, Cardinality(s) <= n + 1, s # {} PROVE g[s] \in Int
      BY <2>0, <2>b
    <2>1. (CHOOSE x \in s : TRUE) \in s
      OBVIOUS
    <2>2. Cardinality(s \ {CHOOSE x \in s : TRUE}) = Cardinality(s) - 1
      BY <1>2, <2>1, FS_RemoveElement
    <2>3. g[s \ {CHOOSE x \in s : TRUE}] \in Int
      BY <1>2, <2>2, <2>a
    <2>4. g[s] = f[CHOOSE x \in s : TRUE] + g[s \ {CHOOSE x \in s : TRUE}]
      BY <1>1 DEF SumRule
    <2> QED
      BY <2>1, <2>3, <2>4
  <1> HIDE DEF T
  <1>5. T = Nat
    BY <1>3, <1>4, AllNumbers DEF T
  <1> QED
    BY <1>1, <1>2, <1>5 DEF T

\* A sum of numbers is at least each of them.
LEMMA SumAboveTerms ==
  ASSUME NEW S, IsFiniteSet(S), NEW f, \A x \in S : f[x] \in Nat, NEW y \in S
  PROVE  f[y] <= SumFunctionOnSet(f, S)
  <1>0. \A x \in S : f[x] \in Int
    OBVIOUS
  <1>1. PICK g : SumRule(f, SUBSET S, g) /\ SumFunctionOnSet(f, S) = g[S]
    BY <1>0, SumUnfolds
  <1> DEFINE T == {n \in Nat : \A s \in SUBSET S :
                             Cardinality(s) <= n => g[s] \in Nat /\ \A z \in s : f[z] <= g[s]}
  <1>2. \A s \in SUBSET S : IsFiniteSet(s) /\ Cardinality(s) \in Nat
        /\ (Cardinality(s) = 0 <=> s = {})
    BY FS_Subset, FS_CardinalityType, FS_EmptySet
  <1>3. 0 \in T
    BY <1>1, <1>2 DEF SumRule
  <1>4. ASSUME NEW n \in T PROVE n + 1 \in T
    <2>c. {} \in SUBSET S /\ 0 \in Nat
      OBVIOUS
    <2>0. g[{}] \in Nat
      BY <1>1, <2>c DEF SumRule
    <2>a. /\ n \in Nat
          /\ \A s \in SUBSET S : Cardinality(s) <= n => g[s] \in Nat /\ \A z \in s : f[z] <= g[s]
      OBVIOUS
    <2>b. n + 1 \in T <=> \A s \in SUBSET S : Cardinality(s) <= n + 1 =>
                              g[s] \in Nat /\ \A z \in s : f[z] <= g[s]
      BY <2>a DEF T
    <2> HIDE DEF T
    <2> SUFFICES ASSUME NEW s \in SUBSET S, Cardinality(s) <= n + 1, s # {}
                 PROVE  g[s] \in Nat /\ \A z \in s : f[z] <= g[s]
      BY <2>0, <2>b
    <2>1. PICK x \in s : x = CHOOSE w \in s : TRUE
      OBVIOUS
    <2>2. Cardinality(s \ {x}) = Cardinality(s) - 1
      BY <1>2, <2>1, FS_RemoveElement
    <2>3. g[s \ {x}] \in Nat /\ \A z \in s \ {x} : f[z] <= g[s \ {x}]
      <3>1. s \ {x} \in SUBSET S /\ Cardinality(s \ {x}) <= n
        BY <1>2, <2>2, <2>a
      <3> QED
        BY <2>a, <3>1
    <2>4. g[s] = f[x] + g[s \ {x}]
      BY <1>1, <2>1 DEF SumRule
    <2>5. f[x] \in Nat /\ \A z \in s : f[z] \in Nat
      OBVIOUS
    <2>6. g[s] \in Nat /\ f[x] <= g[s] /\ g[s \ {x}] <= g[s]
      BY <2>3, <2>4, <2>5
    <2>7. ASSUME NEW z \in s PROVE f[z] <= g[s]
      <3>1. CASE z = x
        BY <2>6, <3>1
      <3>2. CASE z # x
        <4>1. f[z] <= g[s \ {x}] /\ f[z] \in Nat
          BY <2>3, <2>5, <3>2
        <4> QED
          BY <2>3, <2>6, <4>1
      <3> QED
        BY <3>1, <3>2
    <2> QED
      BY <2>6, <2>7
  <1> HIDE DEF T
  <1>5. T = Nat
    BY <1>3, <1>4, AllNumbers DEF T
  <1> QED
    BY <1>1, <1>2, <1>5 DEF T

\* A solution of the recursion gives the sum over every subset.
LEMMA SumOfSubset ==
  ASSUME NEW S, IsFiniteSet(S), NEW f, \A x \in S : f[x] \in Int,
         NEW g, SumRule(f, SUBSET S, g), NEW t \in SUBSET S
  PROVE  g[t] \in Int /\ g[t] = SumFunctionOnSet(f, t)
  <1>1. IsFiniteSet(t) /\ \A x \in t : f[x] \in Int
    BY FS_Subset
  <1>2. PICK h : DOMAIN h = SUBSET t /\ SumRule(f, SUBSET t, h) /\ SumFunctionOnSet(f, t) = h[t]
    BY <1>1, SumUnfolds
  <1> DEFINE T == {n \in Nat : \A s \in SUBSET t : Cardinality(s) <= n => g[s] = h[s]}
  <1>3. \A s \in SUBSET t : IsFiniteSet(s) /\ Cardinality(s) \in Nat
        /\ (Cardinality(s) = 0 <=> s = {})
    BY <1>1, FS_Subset, FS_CardinalityType, FS_EmptySet
  <1>4. g[{}] = h[{}]
    <2>1. {} \in SUBSET S /\ {} \in SUBSET t
      OBVIOUS
    <2> QED
      BY <1>2, <2>1 DEF SumRule
  <1>5. 0 \in T
    <2>1. ASSUME NEW s \in SUBSET t, Cardinality(s) <= 0 PROVE g[s] = h[s]
      <3>1. s = {}
        BY <1>3, <2>1
      <3> QED
        BY <1>4, <3>1
    <2> QED
      BY <2>1
  <1>6. ASSUME NEW n \in T PROVE n + 1 \in T
    <2>1. n \in Nat /\ \A s \in SUBSET t : Cardinality(s) <= n => g[s] = h[s]
      OBVIOUS
    <2>2. n + 1 \in T <=> \A s \in SUBSET t : Cardinality(s) <= n + 1 => g[s] = h[s]
      BY <2>1
    <2> HIDE DEF T
    <2> SUFFICES ASSUME NEW s \in SUBSET t, Cardinality(s) <= n + 1, s # {} PROVE g[s] = h[s]
      BY <1>4, <2>2
    <2>3. PICK x \in s : x = CHOOSE w \in s : TRUE
      OBVIOUS
    <2>4. Cardinality(s \ {x}) = Cardinality(s) - 1
      BY <1>3, <2>3, FS_RemoveElement
    <2>5. g[s \ {x}] = h[s \ {x}]
      <3>1. s \ {x} \in SUBSET t /\ Cardinality(s \ {x}) <= n
        BY <1>3, <2>1, <2>4
      <3> QED
        BY <2>1, <3>1
    <2>6. s \in SUBSET S
      OBVIOUS
    <2>7. g[s] = f[x] + g[s \ {x}]
      BY <2>3, <2>6 DEF SumRule
    <2>8. h[s] = f[x] + h[s \ {x}]
      BY <1>2, <2>3 DEF SumRule
    <2> QED
      BY <2>5, <2>7, <2>8
  <1> HIDE DEF T
  <1>7. T = Nat
    BY <1>5, <1>6, AllNumbers DEF T
  <1>8. t \in SUBSET t /\ Cardinality(t) \in T
    BY <1>3, <1>7
  <1>9. Cardinality(t) <= Cardinality(t)
    BY <1>3
  <1>10. g[t] = h[t]
    BY <1>8, <1>9 DEF T
  <1> QED
    BY <1>1, <1>2, <1>10, SumOfNumbers

\* The sum does not depend on which member is added first.
LEMMA SumTakes ==
  ASSUME NEW S, IsFiniteSet(S), NEW f, \A x \in S : f[x] \in Int, NEW y \in S
  PROVE  /\ SumFunctionOnSet(f, S) = f[y] + SumFunctionOnSet(f, S \ {y})
         /\ SumFunctionOnSet(f, S) \in Int /\ SumFunctionOnSet(f, S \ {y}) \in Int
  <1>1. PICK g : SumRule(f, SUBSET S, g)
    BY SumUnfolds
  <1>2. \A s \in SUBSET S : g[s] \in Int /\ g[s] = SumFunctionOnSet(f, s)
    BY <1>1, SumOfSubset
  <1> DEFINE T == {n \in Nat : \A s \in SUBSET S : Cardinality(s) <= n =>
                                 \A x \in s : g[s] = f[x] + g[s \ {x}]}
  <1>3. \A s \in SUBSET S : IsFiniteSet(s) /\ Cardinality(s) \in Nat
        /\ (Cardinality(s) = 0 <=> s = {})
    BY FS_Subset, FS_CardinalityType, FS_EmptySet
  <1>4. 0 \in T
    BY <1>3
  <1>5. ASSUME NEW n \in T PROVE n + 1 \in T
    <2>1. n \in Nat /\ \A s \in SUBSET S : Cardinality(s) <= n
          => \A x \in s : g[s] = f[x] + g[s \ {x}]
      OBVIOUS
    <2>2. n + 1 \in T <=> \A s \in SUBSET S : Cardinality(s) <= n + 1 =>
                                \A x \in s : g[s] = f[x] + g[s \ {x}]
      BY <2>1
    <2> HIDE DEF T
    <2> SUFFICES ASSUME NEW s \in SUBSET S, Cardinality(s) <= n + 1, NEW x \in s
                 PROVE  g[s] = f[x] + g[s \ {x}]
      BY <2>2
    <2>3. PICK c \in s : c = CHOOSE w \in s : TRUE
      OBVIOUS
    <2>4. g[s] = f[c] + g[s \ {c}]
      BY <1>1, <2>3 DEF SumRule
    <2>5. CASE x = c
      BY <2>4, <2>5
    <2>6. CASE x # c
      <3>1. Cardinality(s \ {c}) <= n /\ Cardinality(s \ {x}) <= n
        <4>1. Cardinality(s \ {c}) = Cardinality(s) - 1 /\ Cardinality(s \ {x}) = Cardinality(s) - 1
          BY <1>3, <2>3, FS_RemoveElement
        <4> QED
          BY <1>3, <2>1, <4>1
      <3>2. g[s \ {c}] = f[x] + g[(s \ {c}) \ {x}]
        <4>1. s \ {c} \in SUBSET S /\ x \in s \ {c}
          BY <2>6
        <4> QED
          BY <2>1, <3>1, <4>1
      <3>3. g[s \ {x}] = f[c] + g[(s \ {x}) \ {c}]
        <4>1. s \ {x} \in SUBSET S /\ c \in s \ {x}
          BY <2>6
        <4> QED
          BY <2>1, <3>1, <4>1
      <3>4. (s \ {c}) \ {x} = (s \ {x}) \ {c} /\ (s \ {x}) \ {c} \in SUBSET S
        OBVIOUS
      <3>5. f[c] \in Int /\ f[x] \in Int /\ g[(s \ {x}) \ {c}] \in Int
        BY <1>2, <3>4
      <3>6. g[s \ {c}] = f[x] + g[(s \ {x}) \ {c}]
        BY <3>2, <3>4
      <3> QED
        BY <2>4, <3>3, <3>5, <3>6
    <2> QED
      BY <2>5, <2>6
  <1> HIDE DEF T
  <1>6. T = Nat
    BY <1>4, <1>5, AllNumbers DEF T
  <1>7. g[S] = f[y] + g[S \ {y}]
    <2>1. S \in SUBSET S /\ Cardinality(S) \in T /\ Cardinality(S) <= Cardinality(S)
      BY <1>3, <1>6
    <2> QED
      BY <2>1 DEF T
  <1>8. S \in SUBSET S /\ S \ {y} \in SUBSET S
    OBVIOUS
  <1> QED
    BY <1>2, <1>7, <1>8

\* The sum over nothing.
LEMMA EmptySum ==
  ASSUME NEW f
  PROVE  SumFunctionOnSet(f, {}) = 0
  <1>1. IsFiniteSet({}) /\ \A x \in {} : f[x] \in Int
    BY FS_EmptySet
  <1>2. PICK g : SumRule(f, SUBSET {}, g) /\ SumFunctionOnSet(f, {}) = g[{}]
    BY <1>1, SumUnfolds
  <1> QED
    BY <1>2 DEF SumRule

\* Terms that fit under distinct terms of another sum add up to no more than it.
LEMMA SumInto ==
  ASSUME NEW S, IsFiniteSet(S), NEW h, \A y \in S : h[y] \in Nat,
         NEW S0, IsFiniteSet(S0), NEW f, NEW e, \A x \in S0 : f[x] \in Int,
         \A x \in S0 : e[x] \in S /\ f[x] <= h[e[x]],
         \A x, z \in S0 : e[x] = e[z] => x = z
  PROVE  SumFunctionOnSet(f, S0) <= SumFunctionOnSet(h, S)
  <1> DEFINE Into(a, b) == \A x \in a : e[x] \in b
             T == {n \in Nat : \A a \in SUBSET S0 : \A b \in SUBSET S :
                     Cardinality(a) <= n /\ Into(a, b)
                       => SumFunctionOnSet(f, a) <= SumFunctionOnSet(h, b)}
  <1>1. \A s \in SUBSET S0 : IsFiniteSet(s) /\ Cardinality(s) \in Nat
        /\ (Cardinality(s) = 0 <=> s = {})
    BY FS_Subset, FS_CardinalityType, FS_EmptySet
  <1>2. \A b \in SUBSET S : IsFiniteSet(b) /\ \A y \in b : h[y] \in Int
    BY FS_Subset
  <1>3. \A b \in SUBSET S : SumFunctionOnSet(h, b) \in Int /\ 0 <= SumFunctionOnSet(h, b)
    <2> SUFFICES ASSUME NEW b \in SUBSET S
                 PROVE  SumFunctionOnSet(h, b) \in Int /\ 0 <= SumFunctionOnSet(h, b)
      OBVIOUS
    <2>1. SumFunctionOnSet(h, b) \in Int
      BY <1>2, SumOfNumbers
    <2>2. CASE b = {}
      BY <2>1, <2>2, EmptySum
    <2>3. CASE b # {}
      <3>1. PICK y \in b : TRUE
        BY <2>3
      <3>2. h[y] <= SumFunctionOnSet(h, b)
        BY <1>2, SumAboveTerms
      <3> QED
        BY <2>1, <3>2
    <2> QED
      BY <2>1, <2>2, <2>3
  <1>4. 0 \in T
    BY <1>1, <1>3, EmptySum
  <1>5. ASSUME NEW n \in T PROVE n + 1 \in T
    <2>1. n \in Nat /\ \A a \in SUBSET S0 : \A b \in SUBSET S :
            Cardinality(a) <= n /\ Into(a, b) => SumFunctionOnSet(f, a) <= SumFunctionOnSet(h, b)
      OBVIOUS
    <2>2. n + 1 \in T <=> \A a \in SUBSET S0 : \A b \in SUBSET S :
            Cardinality(a) <= n + 1 /\ Into(a, b)
              => SumFunctionOnSet(f, a) <= SumFunctionOnSet(h, b)
      BY <2>1
    <2> HIDE DEF T
    <2> SUFFICES ASSUME NEW a \in SUBSET S0, NEW b \in SUBSET S, Cardinality(a) <= n + 1, Into(a, b)
                 PROVE  SumFunctionOnSet(f, a) <= SumFunctionOnSet(h, b)
      BY <2>2
    <2>3. CASE a = {}
      BY <1>3, <2>3, EmptySum
    <2>4. CASE a # {}
      <3>1. PICK x \in a : TRUE
        BY <2>4
      <3>2. e[x] \in b /\ f[x] <= h[e[x]] /\ f[x] \in Int /\ h[e[x]] \in Nat
        OBVIOUS
      <3>3. /\ SumFunctionOnSet(f, a) = f[x] + SumFunctionOnSet(f, a \ {x})
            /\ SumFunctionOnSet(f, a \ {x}) \in Int
        BY <1>1, SumTakes
      <3>4. /\ SumFunctionOnSet(h, b) = h[e[x]] + SumFunctionOnSet(h, b \ {e[x]})
            /\ SumFunctionOnSet(h, b \ {e[x]}) \in Int
        BY <1>2, <3>2, SumTakes
      <3>5. Cardinality(a \ {x}) <= n
        <4>1. Cardinality(a \ {x}) = Cardinality(a) - 1
          BY <1>1, <3>1, FS_RemoveElement
        <4> QED
          BY <1>1, <2>1, <4>1
      <3>6. Into(a \ {x}, b \ {e[x]}) /\ a \ {x} \in SUBSET S0 /\ b \ {e[x]} \in SUBSET S
        <4>1. \A z \in a \ {x} : e[z] \in b /\ e[z] # e[x]
          OBVIOUS
        <4> QED
          BY <4>1
      <3> HIDE DEF Into
      <3>7. SumFunctionOnSet(f, a \ {x}) <= SumFunctionOnSet(h, b \ {e[x]})
        BY <2>1, <3>5, <3>6
      <3> QED
        BY <3>2, <3>3, <3>4, <3>7
    <2> QED
      BY <2>3, <2>4
  <1> HIDE DEF T
  <1>6. T = Nat
    BY <1>4, <1>5, AllNumbers DEF T
  <1>7. S0 \in SUBSET S0 /\ S \in SUBSET S /\ Into(S0, S) /\ Cardinality(S0) <= Cardinality(S0)
        /\ Cardinality(S0) \in T
    BY <1>1, <1>6
  <1> HIDE DEF Into
  <1> QED
    BY <1>7 DEF T

\* Smaller terms over fewer members add up to no more.
LEMMA SumMonotone ==
  ASSUME NEW S, IsFiniteSet(S), NEW h, \A y \in S : h[y] \in Nat,
         NEW S0 \in SUBSET S, NEW f, \A x \in S0 : f[x] \in Int /\ f[x] <= h[x]
  PROVE  SumFunctionOnSet(f, S0) <= SumFunctionOnSet(h, S)
  <1> DEFINE e == [x \in S0 |-> x]
  <1>1. IsFiniteSet(S0)
    BY FS_Subset
  <1>2. \A x \in S0 : e[x] = x
    OBVIOUS
  <1> HIDE DEF e
  <1>3. (\A x \in S0 : e[x] \in S /\ f[x] <= h[e[x]]) /\ \A x, z \in S0 : e[x] = e[z] => x = z
    BY <1>2
  <1> QED
    BY <1>1, <1>3, SumInto

-----------------------------------------------------------------------------
(* Sequences.                                                              *)

\* Length and members of a sequence.
LEMMA SeqFacts ==
  ASSUME NEW S, NEW s \in Seq(S)
  PROVE  Len(s) \in Nat /\ DOMAIN s = 1..Len(s) /\ \A i \in DOMAIN s : s[i] \in S
  OBVIOUS

\* One sequence behind another.
LEMMA ConcatFacts ==
  ASSUME NEW S, NEW s \in Seq(S), NEW t \in Seq(S)
  PROVE  /\ s \o t \in Seq(S) /\ Len(s \o t) = Len(s) + Len(t)
         /\ \A i \in 1..(Len(s) + Len(t)) :
              (s \o t)[i] = IF i <= Len(s) THEN s[i] ELSE t[i - Len(s)]
  OBVIOUS

\* RemoveFirst of a list without repetition takes one member out.
LEMMA RemoveFirstFacts ==
  ASSUME NEW S, NEW s \in Seq(S), IsInjective(s), NEW e
  PROVE  /\ RemoveFirst(s, e) \in Seq(S) /\ IsInjective(RemoveFirst(s, e))
         /\ ToSet(RemoveFirst(s, e)) = ToSet(s) \ {e}
         /\ \A j, k \in DOMAIN RemoveFirst(s, e) :
              j < k => \E a, b \in DOMAIN s : /\ a < b /\ s[a] = RemoveFirst(s, e)[j]
                                             /\ s[b] = RemoveFirst(s, e)[k]
  <1>1. CASE ~\E i \in 1..Len(s) : s[i] = e
    <2>1. RemoveFirst(s, e) = s
      BY <1>1 DEF RemoveFirst
    <2>2. e \notin ToSet(s)
      BY <1>1 DEF ToSet
    <2> QED
      BY <2>1, <2>2
  <1>2. CASE \E i \in 1..Len(s) : s[i] = e
    <2>1. PICK i \in 1..Len(s) : s[i] = e
      BY <1>2
    <2>2. {j \in 1..Len(s) : s[j] = e} = {i}
      BY <2>1 DEF IsInjective
    <2>3. Min({i}) = i
      BY <2>1 DEF Min
    <2> DEFINE t == SubSeq(s, 1, i - 1) \o SubSeq(s, i + 1, Len(s))
    <2>4. SelectInSeq(s, LAMBDA v : v = e) = i
      BY <2>2, <2>3 DEF SelectInSeq
    <2>5. RemoveFirst(s, e) = t
      BY <1>2, <2>4 DEF RemoveFirst, RemoveAt
    <2>6. t \in Seq(S) /\ Len(t) = Len(s) - 1
          /\ \A j \in 1..Len(t) : t[j] = IF j < i THEN s[j] ELSE s[j + 1]
      <3> DEFINE a == SubSeq(s, 1, i - 1)
                 b == SubSeq(s, i + 1, Len(s))
      <3>1. /\ a \in Seq(S) /\ Len(a) = i - 1 /\ i - 1 \in Nat
            /\ \A j \in 1..(i - 1) : a[j] = s[j]
        OBVIOUS
      <3>2. /\ b \in Seq(S) /\ Len(b) = Len(s) - i /\ Len(s) - i \in Nat
            /\ \A j \in 1..(Len(s) - i) : b[j] = s[i + j]
        OBVIOUS
      <3> HIDE DEF a, b
      <3>3. /\ a \o b \in Seq(S) /\ Len(a \o b) = Len(s) - 1
            /\ \A j \in 1..Len(a \o b) : (a \o b)[j] = IF j <= i - 1 THEN a[j] ELSE b[j - (i - 1)]
        <4>1. /\ a \o b \in Seq(S) /\ Len(a \o b) = Len(a) + Len(b)
              /\ \A j \in 1..(Len(a) + Len(b)) :
                   (a \o b)[j] = IF j <= Len(a) THEN a[j] ELSE b[j - Len(a)]
          BY <3>1, <3>2, ConcatFacts
        <4> QED
          BY <3>1, <3>2, <4>1
      <3>4. ASSUME NEW j \in 1..(Len(s) - 1)
            PROVE  (a \o b)[j] = IF j < i THEN s[j] ELSE s[j + 1]
        <4>1. CASE j < i
          BY <3>1, <3>3, <4>1
        <4>2. CASE ~(j < i)
          <5>1. j - (i - 1) \in 1..(Len(s) - i) /\ i + (j - (i - 1)) = j + 1
            BY <4>2
          <5>2. b[j - (i - 1)] = s[j + 1]
            BY <3>2, <5>1
          <5> QED
            BY <3>3, <4>2, <5>2
        <4> QED
          BY <4>1, <4>2
      <3> QED
        BY <3>3, <3>4 DEF a, b
    <2> HIDE DEF t
    <2>7. IsInjective(t)
      <3> DEFINE at(j) == IF j < i THEN j ELSE j + 1
      <3>1. \A j \in 1..Len(t) : at(j) \in DOMAIN s /\ t[j] = s[at(j)]
        BY <2>1, <2>6
      <3>2. \A j, k \in 1..Len(t) : at(j) = at(k) => j = k
        BY <2>1
      <3>3. DOMAIN t = 1..Len(t)
        BY <2>6
      <3> HIDE DEF at
      <3> QED
        BY <3>1, <3>2, <3>3 DEF IsInjective
    <2>8. ToSet(t) = ToSet(s) \ {e}
      <3>1. \A x \in ToSet(t) : x \in ToSet(s) /\ x # e
        BY <2>1, <2>6 DEF ToSet, IsInjective
      <3>2. ASSUME NEW x \in ToSet(s), x # e PROVE x \in ToSet(t)
        <4>1. PICK j \in 1..Len(s) : s[j] = x /\ j # i
          BY <2>1, <3>2 DEF ToSet
        <4>2. CASE j < i
          BY <2>6, <4>1, <4>2 DEF ToSet
        <4>3. CASE j > i
          <5>1. j - 1 \in 1..Len(t) /\ ~(j - 1 < i) /\ (j - 1) + 1 = j
            BY <2>1, <2>6, <4>1, <4>3
          <5>2. t[j - 1] = x
            BY <2>6, <4>1, <5>1
          <5> QED
            BY <2>6, <5>1, <5>2 DEF ToSet
        <4> QED
          BY <2>1, <4>1, <4>2, <4>3
      <3> QED
        BY <3>1, <3>2
    <2>9. \A j, k \in DOMAIN t :
            j < k => \E a, b \in DOMAIN s : a < b /\ s[a] = t[j] /\ s[b] = t[k]
      <3> SUFFICES ASSUME NEW j \in DOMAIN t, NEW k \in DOMAIN t, j < k
                   PROVE  \E a, b \in DOMAIN s : a < b /\ s[a] = t[j] /\ s[b] = t[k]
        OBVIOUS
      <3> DEFINE at(n) == IF n < i THEN n ELSE n + 1
      <3>1. j \in 1..Len(t) /\ k \in 1..Len(t)
        BY <2>6
      <3>2. at(j) \in DOMAIN s /\ at(k) \in DOMAIN s /\ at(j) < at(k)
        BY <2>6, <3>1
      <3>3. t[j] = s[at(j)] /\ t[k] = s[at(k)]
        BY <2>6, <3>1
      <3> QED
        BY <3>2, <3>3
    <2> QED
      BY <2>5, <2>6, <2>7, <2>8, <2>9
  <1> QED
    BY <1>1, <1>2

\* A list without repetition and a new member behind it.
LEMMA AppendFacts ==
  ASSUME NEW S, NEW s \in Seq(S), IsInjective(s), NEW e \in S, e \notin ToSet(s)
  PROVE  /\ Append(s, e) \in Seq(S) /\ IsInjective(Append(s, e))
         /\ ToSet(Append(s, e)) = ToSet(s) \cup {e}
  <1> DEFINE t == Append(s, e)
  <1>1. /\ t \in Seq(S) /\ Len(t) = Len(s) + 1 /\ t[Len(s) + 1] = e /\ Len(s) \in Nat
        /\ \A i \in 1..Len(s) : t[i] = s[i]
        /\ DOMAIN t = 1..(Len(s) + 1) /\ DOMAIN s = 1..Len(s)
    OBVIOUS
  <1> HIDE DEF t
  <1>2. \A i \in 1..Len(s) : s[i] # e
    BY <1>1 DEF ToSet
  <1>3. IsInjective(t)
    BY <1>1, <1>2 DEF IsInjective
  <1>4. ToSet(t) = ToSet(s) \cup {e}
    <2>1. \A x \in ToSet(t) : x \in ToSet(s) \cup {e}
      BY <1>1 DEF ToSet
    <2>2. \A x \in ToSet(s) : x \in ToSet(t)
      BY <1>1 DEF ToSet
    <2>3. e \in ToSet(t)
      BY <1>1 DEF ToSet
    <2> QED
      BY <2>1, <2>2, <2>3
  <1> QED
    BY <1>1, <1>3, <1>4 DEF t

\* The pending list behind its first n entries.
LEMMA RestFacts ==
  ASSUME NEW S, NEW s \in Seq(S), IsInjective(s), NEW n \in 0..Len(s)
  PROVE  LET t == SubSeq(s, n + 1, Len(s)) IN
         /\ t \in Seq(S) /\ IsInjective(t)
         /\ ToSet(t) = {s[i] : i \in (n + 1)..Len(s)}
         /\ ToSet(t) \subseteq ToSet(s)
  <1> DEFINE t == SubSeq(s, n + 1, Len(s))
  <1>1. t \in Seq(S) /\ Len(t) = Len(s) - n /\ \A j \in 1..Len(t) : t[j] = s[n + j]
    OBVIOUS
  <1>2. Len(s) \in Nat /\ Len(t) \in Nat /\ DOMAIN t = 1..Len(t) /\ DOMAIN s = 1..Len(s)
    BY <1>1
  <1> HIDE DEF t
  <1>3. IsInjective(t)
    <2>1. \A j \in DOMAIN t : n + j \in DOMAIN s /\ t[j] = s[n + j]
      BY <1>1, <1>2
    <2>2. \A j, k \in DOMAIN t : n + j = n + k => j = k
      BY <1>2
    <2> QED
      BY <2>1, <2>2 DEF IsInjective
  <1>4. \A x \in ToSet(t) : x \in {s[i] : i \in (n + 1)..Len(s)}
    BY <1>1, <1>2 DEF ToSet
  <1>5. ASSUME NEW i \in (n + 1)..Len(s) PROVE s[i] \in ToSet(t) /\ s[i] \in ToSet(s)
    <2>1. i - n \in 1..Len(t) /\ n + (i - n) = i
      BY <1>1, <1>2
    <2>2. t[i - n] = s[i]
      BY <1>1, <2>1
    <2> QED
      BY <1>2, <2>1, <2>2 DEF ToSet
  <1> QED
    BY <1>1, <1>3, <1>4, <1>5 DEF t

\* Two lists without a common member, one behind the other.
LEMMA JoinFacts ==
  ASSUME NEW S, NEW s \in Seq(S), NEW t \in Seq(S), IsInjective(s), IsInjective(t),
         ToSet(s) \cap ToSet(t) = {}
  PROVE  s \o t \in Seq(S) /\ IsInjective(s \o t) /\ ToSet(s \o t) = ToSet(s) \cup ToSet(t)
  <1> DEFINE u == s \o t
  <1>1. /\ u \in Seq(S) /\ Len(u) = Len(s) + Len(t) /\ Len(s) \in Nat /\ Len(t) \in Nat
        /\ \A i \in 1..Len(s) : u[i] = s[i]
        /\ \A i \in 1..Len(t) : u[Len(s) + i] = t[i]
        /\ DOMAIN u = 1..(Len(s) + Len(t)) /\ DOMAIN s = 1..Len(s) /\ DOMAIN t = 1..Len(t)
    OBVIOUS
  <1> HIDE DEF u
  <1>2. \A i \in DOMAIN u : IF i <= Len(s) THEN i \in DOMAIN s /\ u[i] = s[i]
                            ELSE i - Len(s) \in DOMAIN t /\ u[i] = t[i - Len(s)]
    <2> SUFFICES ASSUME NEW i \in DOMAIN u, ~(i <= Len(s))
                 PROVE  i - Len(s) \in DOMAIN t /\ u[i] = t[i - Len(s)]
      BY <1>1
    <2>1. i - Len(s) \in DOMAIN t /\ Len(s) + (i - Len(s)) = i
      BY <1>1
    <2> QED
      BY <1>1, <2>1
  <1>3. \A i \in DOMAIN s, j \in DOMAIN t : s[i] # t[j]
    BY DEF ToSet
  <1>4. IsInjective(u)
    <2> SUFFICES ASSUME NEW i \in DOMAIN u, NEW j \in DOMAIN u, u[i] = u[j] PROVE i = j
      BY DEF IsInjective
    <2>1. CASE i <= Len(s) /\ j <= Len(s)
      BY <1>2, <2>1 DEF IsInjective
    <2>2. CASE i > Len(s) /\ j > Len(s)
      <3>1. i - Len(s) = j - Len(s)
        BY <1>1, <1>2, <2>2 DEF IsInjective
      <3> QED
        BY <1>1, <3>1
    <2>3. CASE i <= Len(s) /\ j > Len(s)
      BY <1>1, <1>2, <1>3, <2>3
    <2>4. CASE i > Len(s) /\ j <= Len(s)
      BY <1>1, <1>2, <1>3, <2>4
    <2> QED
      BY <1>1, <2>1, <2>2, <2>3, <2>4
  <1>5. \A x \in ToSet(u) : x \in ToSet(s) \cup ToSet(t)
    BY <1>2 DEF ToSet
  <1>6. \A x \in ToSet(s) : x \in ToSet(u)
    BY <1>1 DEF ToSet
  <1>7. \A x \in ToSet(t) : x \in ToSet(u)
    <2> SUFFICES ASSUME NEW j \in DOMAIN t PROVE t[j] \in ToSet(u)
      BY DEF ToSet
    <2>1. Len(s) + j \in DOMAIN u /\ u[Len(s) + j] = t[j]
      BY <1>1
    <2> QED
      BY <2>1 DEF ToSet
  <1> QED
    BY <1>1, <1>4, <1>5, <1>6, <1>7 DEF u

-----------------------------------------------------------------------------
(* Pages and tokens.                                                       *)

\* k is a sequence of the first pages of ids.
PagesOf(k, ids) ==
  /\ PageSize * Len(k) <= Len(ids)
  /\ \A i \in 1..Len(k) : k[i] = SubSeq(ids, (i - 1) * PageSize + 1, i * PageSize)

\* Whole pages in n tokens.
LEMMA FloorFacts ==
  ASSUME NEW n \in Nat
  PROVE  /\ n \div PageSize \in Nat
         /\ PageSize * (n \div PageSize) \in Nat
         /\ PageSize * (n \div PageSize) <= n
         /\ n < PageSize * (n \div PageSize) + PageSize
  BY PageSizeAssumption

\* Products with the page size grow with the factor.
LEMMA TimesMonotone ==
  ASSUME NEW a \in Nat, NEW b \in Nat
  PROVE  /\ PageSize * a \in Nat
         /\ a <= b => PageSize * a <= PageSize * b
         /\ PageSize * a < PageSize * b + PageSize => a <= b
  BY PageSizeAssumption

\* More tokens fill no fewer pages.
LEMMA FloorMonotone ==
  ASSUME NEW n \in Nat, NEW m \in Nat, n <= m
  PROVE  n \div PageSize <= m \div PageSize
  BY PageSizeAssumption

\* Pages that n tokens need.
LEMMA CeilFacts ==
  ASSUME NEW n \in Nat
  PROVE  /\ DivCeil(n) \in Nat
         /\ n \div PageSize <= DivCeil(n)
  <1>1. n + PageSize - 1 \in Nat /\ n <= n + PageSize - 1
    BY PageSizeAssumption
  <1> QED
    BY <1>1, FloorFacts, FloorMonotone DEF DivCeil

\* More tokens need no fewer pages.
LEMMA CeilMonotone ==
  ASSUME NEW n \in Nat, NEW m \in Nat, n <= m
  PROVE  DivCeil(n) <= DivCeil(m)
  <1>1. /\ n + PageSize - 1 \in Nat /\ m + PageSize - 1 \in Nat
        /\ n + PageSize - 1 <= m + PageSize - 1
    BY PageSizeAssumption
  <1> QED
    BY <1>1, FloorMonotone DEF DivCeil

\* The tokens that fill n pages need n pages.
LEMMA CeilOfPages ==
  ASSUME NEW q \in Nat
  PROVE  DivCeil(PageSize * q) = q
  <1> DEFINE n == PageSize * q + PageSize - 1
  <1>1. n \in Nat /\ n = PageSize * q + PageSize - 1
    BY PageSizeAssumption
  <1>2. PageSize * q \in Nat /\ PageSize * q <= n /\ n < PageSize * q + PageSize
    BY PageSizeAssumption, TimesMonotone
  <1> HIDE DEF n
  <1>3. n \div PageSize = q
    <2>1. PageSize * q < PageSize * (n \div PageSize) + PageSize
      BY <1>1, <1>2, FloorFacts, PageSizeAssumption
    <2>2. PageSize * (n \div PageSize) < PageSize * q + PageSize
      BY <1>1, <1>2, FloorFacts, PageSizeAssumption
    <2>3. n \div PageSize \in Nat
      BY <1>1, FloorFacts
    <2>4. q <= n \div PageSize /\ n \div PageSize <= q
      BY <2>1, <2>2, <2>3, TimesMonotone
    <2> QED
      BY <2>3, <2>4
  <1> QED
    BY <1>3 DEF n, DivCeil

\* The whole pages of a token sequence.
LEMMA BlocksFacts ==
  ASSUME NEW ids \in Seq(Token)
  PROVE  /\ Blocks(ids) \in Seq(Block)
         /\ Len(Blocks(ids)) = Len(ids) \div PageSize
         /\ PagesOf(Blocks(ids), ids)
  <1> DEFINE n == Len(ids) \div PageSize
  <1>1. Len(ids) \in Nat /\ n \in Nat /\ PageSize * n <= Len(ids)
    BY FloorFacts
  <1>2. ASSUME NEW i \in 1..n
        PROVE  SubSeq(ids, (i - 1) * PageSize + 1, i * PageSize) \in Block
    <2>1. PageSize * i \in Nat /\ PageSize * i <= Len(ids) /\ PageSize * (i - 1) \in Nat
      BY <1>1, TimesMonotone
    <2>2. i * PageSize = PageSize * i /\ (i - 1) * PageSize = PageSize * (i - 1)
          /\ PageSize * i = PageSize * (i - 1) + PageSize
      BY <1>1, PageSizeAssumption
    <2> DEFINE a == PageSize * (i - 1)
    <2>3. a \in Nat /\ a + PageSize \in Nat /\ a + PageSize <= Len(ids)
      BY <2>1, <2>2
    <2> HIDE DEF a
    <2>4. SubSeq(ids, a + 1, a + PageSize) \in [1..PageSize -> Token]
      <3> DEFINE w == SubSeq(ids, a + 1, a + PageSize)
      <3>1. w \in Seq(Token) /\ Len(w) = PageSize
        BY <2>3, PageSizeAssumption
      <3> HIDE DEF w
      <3>2. w \in [1..PageSize -> Token]
        BY <3>1, PageSizeAssumption
      <3> QED
        BY <3>2 DEF w
    <2> QED
      BY <2>2, <2>4, BlockAssumption DEF a
  <1>3. Blocks(ids) = [i \in 1..n |-> SubSeq(ids, (i - 1) * PageSize + 1, i * PageSize)]
    BY DEF Blocks
  <1> HIDE DEF n
  <1>4. Blocks(ids) \in Seq(Block) /\ Len(Blocks(ids)) = n
    BY <1>1, <1>2, <1>3
  <1>5. \A i \in 1..n : Blocks(ids)[i] = SubSeq(ids, (i - 1) * PageSize + 1, i * PageSize)
    BY <1>3
  <1>6. PagesOf(Blocks(ids), ids)
    BY <1>1, <1>4, <1>5 DEF PagesOf
  <1> QED
    BY <1>4, <1>6 DEF n

\* Pages of the beginning of a sequence.
LEMMA PageBounds ==
  ASSUME NEW l \in Nat, NEW i \in 1..l, NEW n \in Nat, PageSize * l <= n
  PROVE  (i - 1) * PageSize + 1 \in Nat \ {0} /\ i * PageSize \in Nat /\ i * PageSize <= n
  <1>1. PageSize * i \in Nat /\ PageSize * i <= PageSize * l /\ PageSize * (i - 1) \in Nat
    BY TimesMonotone
  <1>2. i * PageSize = PageSize * i /\ (i - 1) * PageSize = PageSize * (i - 1)
    BY PageSizeAssumption
  <1>3. PageSize * l \in Nat
    BY TimesMonotone
  <1> QED
    BY <1>1, <1>2, <1>3

\* The pages within a beginning of the sequence.
LEMMA PagesOfCut ==
  ASSUME NEW ids \in Seq(Token), NEW n \in 0..Len(ids), NEW k \in Seq(Block)
  PROVE  /\ PagesOf(k, SubSeq(ids, 1, n)) => PagesOf(k, ids)
         /\ PagesOf(k, ids) /\ PageSize * Len(k) <= n => PagesOf(k, SubSeq(ids, 1, n))
  <1> DEFINE cut == SubSeq(ids, 1, n)
  <1>1. cut \in Seq(Token) /\ Len(cut) = n /\ n \in Nat /\ Len(ids) \in Nat /\ n <= Len(ids)
    OBVIOUS
  <1>2. Len(k) \in Nat /\ PageSize * Len(k) \in Nat
    BY TimesMonotone
  <1>3. ASSUME NEW i \in 1..Len(k), PageSize * Len(k) <= n
        PROVE  SubSeq(cut, (i - 1) * PageSize + 1, i * PageSize)
               = SubSeq(ids, (i - 1) * PageSize + 1, i * PageSize)
    <2> DEFINE a == (i - 1) * PageSize + 1
               b == i * PageSize
    <2>1. a \in Nat \ {0} /\ b \in Nat /\ b <= n
      BY <1>1, <1>2, <1>3, PageBounds
    <2> HIDE DEF a, b
    <2>2. SubSeq(cut, a, b) = SubSeq(ids, a, b)
      BY <1>1, <2>1
    <2> QED
      BY <2>2 DEF a, b
  <1>4. PagesOf(k, cut) <=> PageSize * Len(k) <= n
        /\ \A i \in 1..Len(k) : k[i] = SubSeq(cut, (i - 1) * PageSize + 1, i * PageSize)
    BY <1>1 DEF PagesOf
  <1> HIDE DEF cut
  <1>5. PagesOf(k, cut) => PagesOf(k, ids)
    <2> SUFFICES ASSUME PagesOf(k, cut) PROVE PagesOf(k, ids)
      OBVIOUS
    <2>1. PageSize * Len(k) <= n
      BY <1>4
    <2>2. PageSize * Len(k) <= Len(ids)
      BY <1>1, <1>2, <2>1
    <2>3. \A i \in 1..Len(k) : k[i] = SubSeq(ids, (i - 1) * PageSize + 1, i * PageSize)
      BY <1>3, <1>4, <2>1
    <2> QED
      BY <2>2, <2>3 DEF PagesOf
  <1>6. PagesOf(k, ids) /\ PageSize * Len(k) <= n => PagesOf(k, cut)
    BY <1>1, <1>2, <1>3, <1>4 DEF PagesOf
  <1> QED
    BY <1>5, <1>6 DEF cut

\* A token more does not change the pages before.
LEMMA PagesOfAppend ==
  ASSUME NEW ids \in Seq(Token), NEW t \in Token, NEW k \in Seq(Block), PagesOf(k, ids)
  PROVE  PagesOf(k, Append(ids, t))
  <1> DEFINE all == Append(ids, t)
  <1>1. all \in Seq(Token) /\ Len(ids) \in 0..Len(all) /\ SubSeq(all, 1, Len(ids)) = ids
    OBVIOUS
  <1> HIDE DEF all
  <1>2. PagesOf(k, SubSeq(all, 1, Len(ids)))
    BY <1>1
  <1>3. PagesOf(k, all)
    BY <1>1, <1>2, PagesOfCut
  <1> QED
    BY <1>3 DEF all

\* The page sequences that begin ids are the prefixes of Blocks(ids).
LEMMA PagesArePrefix ==
  ASSUME NEW ids \in Seq(Token), NEW k \in Seq(Block)
  PROVE  PagesOf(k, ids) <=> IsPrefix(k, Blocks(ids))
  <1> DEFINE all == Blocks(ids)
  <1>1. /\ all \in Seq(Block) /\ Len(all) = Len(ids) \div PageSize
        /\ PageSize * Len(all) <= Len(ids)
        /\ \A i \in 1..Len(all) : all[i] = SubSeq(ids, (i - 1) * PageSize + 1, i * PageSize)
    BY BlocksFacts DEF PagesOf
  <1> HIDE DEF all
  <1>2. /\ Len(ids) \in Nat /\ Len(all) \in Nat /\ Len(k) \in Nat
        /\ Len(ids) < PageSize * Len(all) + PageSize
        /\ PageSize * Len(all) \in Nat /\ PageSize * Len(k) \in Nat
    <2>1. Len(ids) \in Nat /\ Len(all) \in Nat /\ Len(k) \in Nat
      BY <1>1
    <2>2. Len(ids) < PageSize * Len(all) + PageSize
      BY <1>1, <2>1, FloorFacts
    <2>3. PageSize * Len(all) \in Nat /\ PageSize * Len(k) \in Nat
      BY <2>1, TimesMonotone
    <2> QED
      BY <2>1, <2>2, <2>3
  <1>3. PageSize * Len(k) <= Len(ids) <=> Len(k) <= Len(all)
    <2>1. Len(k) <= Len(all) => PageSize * Len(k) <= PageSize * Len(all)
      BY <1>2, TimesMonotone
    <2>2. PageSize * Len(k) < PageSize * Len(all) + PageSize => Len(k) <= Len(all)
      BY <1>2, TimesMonotone
    <2>3. PageSize \in Nat
      BY PageSizeAssumption
    <2>4. Len(k) <= Len(all) => PageSize * Len(k) <= Len(ids)
      BY <1>1, <1>2, <2>1
    <2>5. PageSize * Len(k) <= Len(ids) => PageSize * Len(k) < PageSize * Len(all) + PageSize
      BY <1>2, <2>3
    <2> QED
      BY <2>2, <2>4, <2>5
  <1>4. IsPrefix(k, all) <=> Len(k) <= Len(all) /\ \A i \in 1..Len(k) : k[i] = all[i]
    BY <1>1, PrefixPointwise
  <1>5. Len(k) <= Len(all) =>
          ((\A i \in 1..Len(k) : k[i] = all[i])
           <=> \A i \in 1..Len(k) : k[i] = SubSeq(ids, (i - 1) * PageSize + 1, i * PageSize))
    <2> SUFFICES ASSUME Len(k) <= Len(all)
                 PROVE  \A i \in 1..Len(k) :
                          all[i] = SubSeq(ids, (i - 1) * PageSize + 1, i * PageSize)
      OBVIOUS
    <2>1. \A i \in 1..Len(k) : i \in 1..Len(all)
      BY <1>2
    <2> QED
      BY <1>1, <2>1
  <1> QED
    BY <1>3, <1>4, <1>5 DEF PagesOf, all

\* Sequences of blocks within a row are keys.
LEMMA KeysMember ==
  ASSUME NEW k \in Seq(Block), Len(k) <= MaxRow
  PROVE  k \in Key
  <1>1. Len(k) \in 0..MaxRow /\ k \in [1..Len(k) -> Block]
    BY MaxRowAssumption
  <1> QED
    BY <1>1, KeysAssumption DEF SeqOf

-----------------------------------------------------------------------------
(* The invariant.                                                          *)

BatchType(b) ==
  /\ b = [phase |-> b.phase, reqs |-> b.reqs]
  /\ b.phase \in {"none", "prefill", "decode"}
  /\ b.reqs \in Seq([req : Req, chunked : BOOLEAN])

LoopType ==
  /\ pc \in {"receive", "admit", "grow", "process"}
  /\ user \in [Req -> UserMsgs \cup {NoMsg}]
  /\ aborted \subseteq Req
  /\ pending \in Seq(Req) /\ chunked \subseteq Req /\ running \subseteq Req
  /\ outputLen \in [Req -> Nat]
  /\ inputIds \in [Req -> Seq(Token)]
  /\ cachedLen \in [Req -> Nat] /\ deviceLen \in [Req -> Nat] /\ maxDeviceLen \in [Req -> Nat]
  /\ budget \in Int /\ reserved \in Int /\ chunkedList \in Seq(Req) /\ cursor \in Nat \ {0}
  /\ BatchType(batch) /\ BatchType(inFlight) /\ BatchType(due)
  /\ finishedReqs \subseteq Req /\ newFinished \subseteq Req
  /\ replies \in [Req -> [sent : Nat, done : BOOLEAN, late : Nat]]

\* A batch has a request once.
OnceEach(b) == \A i, j \in DOMAIN b.reqs : b.reqs[i].req = b.reqs[j].req => i = j

\* Each stage has the batches it works on, and no other.
StageBatches ==
  /\ pc \in {"receive", "process"} => batch = NoBatch
  /\ pc # "process" => due = NoBatch /\ newFinished = {}
  /\ pc # "admit" => chunkedList = <<>>
  /\ pc = "admit" => batch.phase = "prefill"
  /\ due = NoBatch => newFinished = {}
  /\ ~Overlap => inFlight = NoBatch
  /\ OnceEach(batch) /\ OnceEach(inFlight) /\ OnceEach(due)

\* The batch being filled has the first requests of the pending list, in order.
FirstPending ==
  pc = "admit" =>
    /\ Len(batch.reqs) <= Len(pending)
    /\ \A i \in DOMAIN batch.reqs :
         /\ batch.reqs[i].req = pending[i]
         /\ (batch.reqs[i].chunked <=> pending[i] \in chunked)
    /\ IsInjective(chunkedList)
    /\ ToSet(chunkedList) = InBatch(batch) \cap chunked

\* Positions of the pending list that the batch has not reached.
NotReached(i) == pc = "admit" => i > Len(batch.reqs)

\* A pending request is in no batch but with its chunks, and owns nothing but when
\* chunks of it were computed.
Queues ==
  /\ IsInjective(pending)
  /\ chunked \subseteq ToSet(pending)
  /\ \A i \in DOMAIN pending : NotReached(i) /\ pending[i] \in held => pending[i] \in chunked
  /\ ToSet(pending) \cap (running \cup Whole(inFlight) \cup Whole(due)) = {}
  /\ pc = "grow" => ToSet(pending) \cap Whole(batch) = {}
  /\ \A r \in held \cup finishedReqs \cup newFinished \cup ToSet(pending) : Received(r)

\* The requests known as freed when the batch in flight becomes due.
Freed == IF pc = "process" THEN newFinished ELSE finishedReqs

\* The requests whose results are still to be looked at in this iteration.
DueLeft == {due.reqs[i].req : i \in {j \in DOMAIN due.reqs : j >= cursor /\ ~due.reqs[j].chunked}}

\* Whoever is computed owns its memory, and whoever has lost it while in flight is
\* known as freed. A request in a prefill batch is in no batch before it as a whole.
Owners ==
  /\ running \cup chunked \subseteq held
  /\ pc \in {"admit", "grow"} => InBatch(batch) \subseteq held
  /\ Whole(inFlight) \subseteq held \cup Freed
  /\ inFlight.phase = "prefill" => /\ Whole(inFlight) \subseteq held
                                   /\ Whole(inFlight) \cap Whole(due) = {}
  /\ batch.phase = "prefill" => InBatch(batch) \cap Whole(inFlight) = {}
  /\ pc = "process" => DueLeft \subseteq held \cup finishedReqs
  /\ due.phase = "prefill" => DueLeft \subseteq held

\* No request outgrows max_seq_len.
Limits ==
  /\ \A r \in ToSet(pending) : InputLen(r) < MaxSeqLen /\ InputLen(r) + outputLen[r] <= MaxSeqLen
  /\ \A r \in chunked :
       /\ cachedLen[r] < InputLen(r)
       /\ Len(inputIds[r]) <= InputLen(r)
          /\ inputIds[r] = SubSeq(user[r].prompt, 1, Len(inputIds[r]))
       /\ r \in InBatch(batch) => deviceLen[r] < InputLen(r)
  /\ \A r \in InBatch(batch) :
       cachedLen[r] < deviceLen[r] /\ deviceLen[r] <= MaxSeqLen /\ maxDeviceLen[r] <= MaxSeqLen
  /\ \A r \in running :
       cachedLen[r] < deviceLen[r] /\ deviceLen[r] < maxDeviceLen[r] /\ maxDeviceLen[r] <= MaxSeqLen

\* The tokens of r that its row has pages for.
Grown(r) == pc = "grow" /\ \E i \in DOMAIN batch.reqs : i < cursor /\ batch.reqs[i].req = r
Covered(r) == IF Grown(r) THEN deviceLen[r] ELSE cachedLen[r]

\* A row ends with the last page that holds a token, and what a request has locked is
\* the beginning of its own tokens.
Rows ==
  \A r \in held :
    /\ Len(Row(r)) = DivCeil(Covered(r))
    /\ PagesOf(handle[r], inputIds[r])
    /\ PageSize * Len(handle[r]) <= cachedLen[r] /\ cachedLen[r] <= MaxSeqLen

LoopInv == LoopType /\ StageBatches /\ FirstPending /\ Queues /\ Owners /\ Limits /\ Rows

-----------------------------------------------------------------------------
(* Keys.                                                                   *)

\* The smaller of two numbers, without CHOOSE.
LEMMA MinOfTwo ==
  ASSUME NEW a \in Int, NEW b \in Int
  PROVE  Min({a, b}) = IF a <= b THEN a ELSE b
  BY DEF Min

\* The key a request is cached under has the pages its computed tokens fill.
LEMMA CacheKeyFacts ==
  ASSUME NEW r, cachedLen[r] \in Nat, NEW ids \in Seq(Token), NEW h \in Seq(Block),
         PagesOf(h, ids), PageSize * Len(h) <= cachedLen[r]
  PROVE  LET key == CacheKey(ids, r) IN
         /\ key \in Seq(Block) /\ IsPrefix(h, key) /\ PagesOf(key, ids)
         /\ PageSize * Len(key) <= cachedLen[r] /\ Len(key) <= DivCeil(cachedLen[r])
  <1> DEFINE n == Min({cachedLen[r], Len(ids)})
             cut == SubSeq(ids, 1, n)
             key == Blocks(cut)
  <1>1. Len(ids) \in Nat /\ n \in 0..Len(ids) /\ n <= cachedLen[r]
        /\ (n = cachedLen[r] \/ n = Len(ids))
    BY MinOfTwo
  <1> HIDE DEF n
  <1>2. cut \in Seq(Token) /\ Len(cut) = n
    BY <1>1
  <1>3. key \in Seq(Block) /\ Len(key) = n \div PageSize /\ PagesOf(key, cut)
    BY <1>2, BlocksFacts
  <1>4. PagesOf(key, ids)
    BY <1>1, <1>3, PagesOfCut
  <1>5. PageSize * Len(h) <= n
    BY <1>1 DEF PagesOf
  <1>6. PagesOf(h, cut)
    BY <1>1, <1>5, PagesOfCut
  <1>7. IsPrefix(h, key)
    BY <1>2, <1>6, PagesArePrefix
  <1>8. n \in Nat /\ PageSize * (n \div PageSize) <= n /\ PageSize * (n \div PageSize) \in Nat
    BY <1>1, FloorFacts
  <1>9. PageSize * Len(key) <= cachedLen[r]
    BY <1>1, <1>3, <1>8
  <1>10. Len(key) <= DivCeil(cachedLen[r])
    <2>1. DivCeil(n) <= DivCeil(cachedLen[r]) /\ n \div PageSize <= DivCeil(n) /\ DivCeil(n) \in Nat
          /\ n \div PageSize \in Nat /\ DivCeil(cachedLen[r]) \in Nat
      BY <1>1, <1>8, CeilFacts, CeilMonotone, FloorFacts
    <2> QED
      BY <1>3, <2>1
  <1>11. CacheKey(ids, r) = key
    BY DEF CacheKey, n
  <1> HIDE DEF key
  <1> QED
    BY <1>3, <1>4, <1>7, <1>9, <1>10, <1>11

\* A length within max_seq_len has pages within a row.
LEMMA CeilFitsRow ==
  ASSUME NEW n \in Nat, n <= MaxSeqLen
  PROVE  DivCeil(n) <= MaxRow
  <1>1. n <= PageSize * MaxRow /\ PageSize * MaxRow \in Nat /\ MaxRow \in Nat
    BY MaxSeqLenAssumption, RowAssumption, MaxRowAssumption, PageSizeAssumption, NumPagesAssumption,
       TimesMonotone
  <1> QED
    BY <1>1, CeilMonotone, CeilOfPages

\* What cache_req inserts is within the contract, at any stage where no row is ahead of
\* what is computed.
LEMMA CacheKeyInContract ==
  ASSUME LockInv, LoopInv, pc # "grow", NEW r \in held, NEW ids \in Seq(Token),
         PagesOf(handle[r], ids)
  PROVE  Cacheable(r, CacheKey(ids, r)) /\ CacheKey(ids, r) \in Key
  <1>1. r \in Req /\ handle[r] \in Seq(Block) /\ Row(r) \in Seq(Page)
    BY HandlesCached DEF LockInv, CMTypeOK
  <1>2. cachedLen[r] \in Nat /\ PageSize * Len(handle[r]) <= cachedLen[r]
        /\ cachedLen[r] <= MaxSeqLen
    BY <1>1 DEF LoopInv, LoopType, Rows
  <1>3. Len(Row(r)) = DivCeil(cachedLen[r])
    BY DEF LoopInv, Rows, Covered, Grown
  <1> DEFINE key == CacheKey(ids, r)
  <1>4. key \in Seq(Block) /\ IsPrefix(handle[r], key) /\ Len(key) <= DivCeil(cachedLen[r])
    BY <1>1, <1>2, CacheKeyFacts
  <1> HIDE DEF key
  <1>5. Cacheable(r, key)
    BY <1>3, <1>4 DEF Cacheable
  <1>6. key \in Key
    <2>1. Len(key) \in Nat /\ DivCeil(cachedLen[r]) \in Nat /\ DivCeil(cachedLen[r]) <= MaxRow
          /\ MaxRow \in Nat
      BY <1>2, <1>4, CeilFacts, CeilFitsRow, MaxRowAssumption
    <2>2. Len(key) <= MaxRow
      BY <1>4, <2>1
    <2> QED
      BY <1>4, <2>2, KeysMember
  <1> QED
    BY <1>5, <1>6 DEF key

\* A received request has a prompt of at least one token.
LEMMA PromptOf ==
  ASSUME LoopType, NEW r \in Req, Received(r)
  PROVE  /\ user[r] \in UserMsgs /\ user[r].prompt \in Seq(Token)
         /\ InputLen(r) \in Nat \ {0} /\ user[r].maxTokens \in Nat
  <1>1. user[r] \in UserMsgs
    BY DEF LoopType, Received
  <1> QED
    BY <1>1, MsgAssumption DEF InputLen

\* The key an admission looks up is within the prompt and shorter than it.
LEMMA MatchKeyFacts ==
  ASSUME LoopType, NEW r \in Req, Received(r)
  PROVE  /\ MatchKey(r) \in Seq(Block)
         /\ InputLen(r) <= MaxSeqLen => MatchKey(r) \in Key
         /\ \A m \in Prefixes(MatchKey(r)) :
              /\ m \in Seq(Block) /\ PagesOf(m, user[r].prompt)
              /\ PageSize * Len(m) < InputLen(r)
  <1> DEFINE n == InputLen(r) - 1
             cut == SubSeq(user[r].prompt, 1, n)
  <1>1. user[r].prompt \in Seq(Token) /\ n \in 0..Len(user[r].prompt) /\ n \in Nat
        /\ InputLen(r) \in Nat
    BY PromptOf DEF InputLen
  <1>a. n = InputLen(r) - 1
    OBVIOUS
  <1> HIDE DEF n
  <1>2. cut \in Seq(Token) /\ Len(cut) = n
    BY <1>1
  <1>3. MatchKey(r) = Blocks(cut)
    BY DEF MatchKey, n
  <1>4. MatchKey(r) \in Seq(Block) /\ Len(MatchKey(r)) = n \div PageSize
    BY <1>2, <1>3, BlocksFacts
  <1>5. ASSUME InputLen(r) <= MaxSeqLen
        PROVE  MatchKey(r) \in Key
    <2>1. n <= MaxSeqLen
      BY <1>1, <1>5, <1>a, MaxSeqLenAssumption
    <2>2. n \div PageSize \in Nat /\ n \div PageSize <= DivCeil(n) /\ DivCeil(n) \in Nat
          /\ DivCeil(n) <= MaxRow /\ MaxRow \in Nat
      BY <1>1, <2>1, FloorFacts, CeilFacts, CeilFitsRow, MaxRowAssumption
    <2>3. Len(MatchKey(r)) <= MaxRow
      BY <1>4, <2>2
    <2> QED
      BY <1>4, <2>3, KeysMember
  <1>6. ASSUME NEW m \in Prefixes(MatchKey(r))
        PROVE  /\ m \in Seq(Block) /\ PagesOf(m, user[r].prompt)
               /\ PageSize * Len(m) < InputLen(r)
    <2>1. m \in Seq(Block) /\ IsPrefix(m, MatchKey(r))
      BY <1>4, PrefixesMember
    <2>2. PagesOf(m, cut)
      BY <1>2, <1>3, <2>1, PagesArePrefix
    <2>3. PagesOf(m, user[r].prompt)
      BY <1>1, <2>1, <2>2, PagesOfCut
    <2>4. PageSize * Len(m) <= n /\ PageSize * Len(m) \in Nat
      BY <1>2, <2>1, <2>2, TimesMonotone DEF PagesOf
    <2> QED
      BY <1>1, <1>a, <2>1, <2>3, <2>4
  <1> QED
    BY <1>4, <1>5, <1>6

-----------------------------------------------------------------------------
(* Batches.                                                                *)

\* The batch that is not there.
LEMMA NoBatchFacts ==
  /\ BatchType(NoBatch) /\ OnceEach(NoBatch) /\ NoBatch.phase = "none"
  /\ NoBatch.reqs = <<>> /\ Len(NoBatch.reqs) = 0 /\ DOMAIN NoBatch.reqs = {}
  /\ InBatch(NoBatch) = {} /\ Whole(NoBatch) = {}
  BY DEF NoBatch, BatchType, OnceEach, InBatch, Whole

\* The requests of a batch.
LEMMA BatchMembers ==
  ASSUME NEW b, BatchType(b)
  PROVE  /\ Len(b.reqs) \in Nat /\ DOMAIN b.reqs = 1..Len(b.reqs)
         /\ \A i \in DOMAIN b.reqs : /\ b.reqs[i].req \in Req /\ b.reqs[i].chunked \in BOOLEAN
                                     /\ b.reqs[i].req \in InBatch(b)
         /\ Whole(b) \subseteq InBatch(b) /\ InBatch(b) \subseteq Req
  <1>1. b.reqs \in Seq([req : Req, chunked : BOOLEAN])
    BY DEF BatchType
  <1>2. Len(b.reqs) \in Nat /\ DOMAIN b.reqs = 1..Len(b.reqs)
    BY <1>1
  <1>3. \A i \in DOMAIN b.reqs : b.reqs[i] \in [req : Req, chunked : BOOLEAN]
    <2> DEFINE s == b.reqs
    <2>1. s \in Seq([req : Req, chunked : BOOLEAN])
      BY <1>1
    <2> HIDE DEF s
    <2>2. \A i \in DOMAIN s : s[i] \in [req : Req, chunked : BOOLEAN]
      BY <2>1, SeqFacts
    <2> QED
      BY <2>2 DEF s
  <1>4. \A i \in DOMAIN b.reqs : b.reqs[i].req \in Req /\ b.reqs[i].chunked \in BOOLEAN
    BY <1>3
  <1>5. Whole(b) \subseteq InBatch(b) /\ InBatch(b) \subseteq Req
    BY <1>4 DEF InBatch, Whole
  <1> QED
    BY <1>2, <1>4, <1>5 DEF InBatch

-----------------------------------------------------------------------------
(* What a step that leaves their variables alone preserves.                *)

\* The stage and the batches.
LEMMA StageFrame ==
  ASSUME StageBatches, UNCHANGED <<pc, batch, due, inFlight, newFinished, chunkedList>>
  PROVE  StageBatches'
  BY DEF StageBatches, OnceEach, NoBatch

\* The batch being filled.
LEMMA FirstFrame ==
  ASSUME FirstPending, UNCHANGED <<pc, batch, pending, chunked, chunkedList>>
  PROVE  FirstPending'
  BY DEF FirstPending, InBatch

\* The queues.
LEMMA QueuesFrame ==
  ASSUME Queues, UNCHANGED <<pc, batch, pending, chunked, held, running, inFlight, due,
                             finishedReqs, newFinished, user>>
  PROVE  Queues'
  BY DEF Queues, NotReached, Whole, Received

\* Who owns memory.
LEMMA OwnersFrame ==
  ASSUME Owners,
         UNCHANGED <<pc, running, chunked, held, batch, inFlight, due, cursor, finishedReqs,
                     newFinished>>
  PROVE  Owners'
  <1>1. Whole(inFlight)' = Whole(inFlight) /\ Whole(due)' = Whole(due)
        /\ InBatch(batch)' = InBatch(batch)
    BY DEF Whole, InBatch
  <1>2. DueLeft' = DueLeft /\ Freed' = Freed
    BY DEF DueLeft, Freed
  <1> QED
    BY <1>1, <1>2 DEF Owners

\* Fewer requests, each as before.
LEMMA LimitsFrame ==
  ASSUME Limits, ToSet(pending') \subseteq ToSet(pending), chunked' \subseteq chunked,
         running' \subseteq running,
         UNCHANGED <<batch, user, outputLen, inputIds, cachedLen, deviceLen, maxDeviceLen>>
  PROVE  Limits'
  <1>1. InBatch(batch)' = InBatch(batch) /\ \A r : InputLen(r)' = InputLen(r)
    BY DEF InBatch, InputLen
  <1> QED
    BY <1>1 DEF Limits

\* The rows of those that still own one.
LEMMA RowsFrame ==
  ASSUME Rows, held' \subseteq held,
         UNCHANGED <<pc, batch, cursor, cachedLen, deviceLen, inputIds, pageTable, slot, handle>>
  PROVE  Rows'
  BY DEF Rows, Row, Covered, Grown, DivCeil, PagesOf

-----------------------------------------------------------------------------
(* Stage receive.                                                          *)

\* The loop starts with no request anywhere.
LEMMA InitLoopInv == Init => LoopInv /\ LockInv
  <1> SUFFICES ASSUME Init PROVE LoopInv /\ LockInv
    OBVIOUS
  <1>1. LockInv
    BY InitLockInv DEF Init
  <1>2. /\ pc = "receive" /\ pending = <<>> /\ chunked = {} /\ running = {} /\ held = {}
        /\ batch = NoBatch /\ inFlight = NoBatch /\ due = NoBatch /\ cursor = 1
        /\ finishedReqs = {} /\ newFinished = {} /\ chunkedList = <<>>
    BY DEF Init, CMInit
  <1>3. LoopType
    <2>1. /\ user \in [Req -> UserMsgs \cup {NoMsg}] /\ aborted \subseteq Req
          /\ outputLen \in [Req -> Nat] /\ inputIds \in [Req -> Seq(Token)]
          /\ cachedLen \in [Req -> Nat] /\ deviceLen \in [Req -> Nat]
             /\ maxDeviceLen \in [Req -> Nat]
          /\ budget \in Int /\ reserved \in Int
      BY DEF Init
    <2>2. replies \in [Req -> [sent : Nat, done : BOOLEAN, late : Nat]]
      BY DEF Init
    <2> QED
      BY <1>2, <2>1, <2>2, NoBatchFacts DEF LoopType
  <1>4. ToSet(pending) = {} /\ IsInjective(pending) /\ DOMAIN pending = {}
    BY <1>2 DEF ToSet, IsInjective
  <1>5. StageBatches /\ FirstPending /\ Owners /\ Rows
    BY <1>2, NoBatchFacts DEF StageBatches, FirstPending, Owners, Rows, Freed
  <1>6. Queues
    BY <1>2, <1>4, NoBatchFacts DEF Queues
  <1>7. Limits
    BY <1>2, <1>4, NoBatchFacts DEF Limits
  <1> QED
    BY <1>1, <1>3, <1>5, <1>6, <1>7 DEF LoopInv

\* A new request is queued behind the others, or refused for its length; no memory is touched.
LEMMA ReceiveUserInv ==
  ASSUME LockInv, LoopInv, NEW r \in Req, ReceiveUser(r)
  PROVE  UNCHANGED cmVars /\ LoopInv'
  <1>1. /\ pc = "receive" /\ ~Received(r)
        /\ UNCHANGED <<cmVars, pc, aborted, chunked, running, inputIds, cachedLen, deviceLen,
                       maxDeviceLen, adderVars, batchVars, replyVars>>
    BY DEF ReceiveUser
  <1>2. /\ UNCHANGED <<tree, freeSlots, tableFree, pageTable, held, handle, slot>>
        /\ UNCHANGED <<budget, reserved, chunkedList, batch, inFlight, due, cursor>>
        /\ UNCHANGED <<finishedReqs, newFinished, replies>>
        /\ UNCHANGED <<pc, aborted, chunked, running, inputIds, cachedLen, deviceLen, maxDeviceLen>>
    BY <1>1 DEF cmVars, adderVars, batchVars, replyVars
  <1>3. PICK msg \in UserMsgs :
          /\ user' = [user EXCEPT ![r] = msg]
          /\ IF TooLong(msg)
             THEN UNCHANGED <<outputLen, pending>>
             ELSE /\ outputLen' = [outputLen EXCEPT
                                     ![r] = Min({msg.maxTokens, MaxSeqLen - Len(msg.prompt)})]
                  /\ pending' = Append(pending, r)
    BY DEF ReceiveUser
  <1>4. LoopType /\ StageBatches /\ FirstPending /\ Queues /\ Owners /\ Limits /\ Rows
    BY DEF LoopInv
  <1>5. msg.prompt \in Seq(Token) /\ msg.prompt # <<>> /\ msg.maxTokens \in Nat
    BY MsgAssumption
  <1>6. /\ user' \in [Req -> UserMsgs \cup {NoMsg}] /\ user'[r] = msg
        /\ \A q \in Req \ {r} : user'[q] = user[q]
    BY <1>3, <1>4 DEF LoopType
  <1>7. /\ r \notin held /\ r \notin finishedReqs /\ r \notin newFinished /\ r \notin ToSet(pending)
        /\ r \notin running /\ r \notin chunked /\ r \notin Whole(inFlight) /\ r \notin Whole(due)
    <2>1. r \notin held \cup finishedReqs \cup newFinished \cup ToSet(pending)
      BY <1>1, <1>4 DEF Queues
    <2>2. r \notin Whole(inFlight)
      BY <1>1, <1>4, <2>1 DEF Owners, Freed
    <2>3. r \notin Whole(due)
      BY <1>1, <1>4, NoBatchFacts DEF StageBatches
    <2> QED
      BY <1>4, <2>1, <2>2, <2>3 DEF Owners
  <1>8. \A q \in Req \ {r} : InputLen(q)' = InputLen(q) /\ (Received(q)' <=> Received(q))
    BY <1>6 DEF InputLen, Received
  <1>9. msg # NoMsg
    BY <1>5 DEF NoMsg
  <1>10. /\ pending' \in Seq(Req) /\ IsInjective(pending') /\ outputLen' \in [Req -> Nat]
         /\ ToSet(pending) \subseteq ToSet(pending')
            /\ ToSet(pending') \subseteq ToSet(pending) \cup {r}
         /\ \A q \in Req \ {r} : outputLen'[q] = outputLen[q]
         /\ r \in ToSet(pending') => /\ Len(msg.prompt) < MaxSeqLen
                                     /\ Len(msg.prompt) + outputLen'[r] <= MaxSeqLen
         /\ \A i \in DOMAIN pending' :
              pending'[i] = r \/ (i \in DOMAIN pending /\ pending'[i] = pending[i])
    <2>1. pending \in Seq(Req) /\ IsInjective(pending) /\ outputLen \in [Req -> Nat]
      BY <1>4 DEF LoopType, Queues
    <2>2. CASE TooLong(msg)
      BY <1>3, <1>7, <2>1, <2>2
    <2>3. CASE ~TooLong(msg)
      <3> DEFINE out == Min({msg.maxTokens, MaxSeqLen - Len(msg.prompt)})
      <3>1. MaxSeqLen \in Nat /\ Len(msg.prompt) \in Nat /\ Len(msg.prompt) < MaxSeqLen
        BY <1>5, <2>3, MaxSeqLenAssumption DEF TooLong
      <3>2. out \in Nat /\ out <= MaxSeqLen - Len(msg.prompt)
        BY <1>5, <3>1, MinOfTwo
      <3>3. pending' = Append(pending, r) /\ outputLen' = [outputLen EXCEPT ![r] = out]
        BY <1>3, <2>3
      <3> HIDE DEF out
      <3>4. outputLen' \in [Req -> Nat] /\ outputLen'[r] = out
            /\ \A q \in Req \ {r} : outputLen'[q] = outputLen[q]
        BY <2>1, <3>2, <3>3
      <3>5. /\ pending' \in Seq(Req) /\ IsInjective(pending')
            /\ ToSet(pending') = ToSet(pending) \cup {r}
        BY <1>7, <2>1, <3>3, AppendFacts
      <3>6. \A i \in DOMAIN pending' :
              pending'[i] = r \/ (i \in DOMAIN pending /\ pending'[i] = pending[i])
        BY <2>1, <3>3
      <3>7. Len(msg.prompt) + outputLen'[r] <= MaxSeqLen
        BY <3>1, <3>2, <3>4
      <3> QED
        BY <3>1, <3>4, <3>5, <3>6, <3>7
    <2> QED
      BY <2>2, <2>3
  <1>11. LoopType'
    BY <1>2, <1>4, <1>6, <1>10 DEF LoopType, BatchType
  <1>12. StageBatches'
    BY <1>2, <1>4, StageFrame
  <1>13. FirstPending'
    BY <1>1, <1>2 DEF FirstPending
  <1>14. Queues'
    <2>1. chunked' \subseteq ToSet(pending')
      BY <1>2, <1>4, <1>10 DEF Queues
    <2>2. \A i \in DOMAIN pending' : pending'[i] \in held' => pending'[i] \in chunked'
      BY <1>1, <1>2, <1>4, <1>7, <1>10 DEF Queues, NotReached
    <2>3. ToSet(pending') \cap (running \cup Whole(inFlight) \cup Whole(due)) = {}
      BY <1>4, <1>7, <1>10 DEF Queues
    <2>4. \A q \in held \cup finishedReqs \cup newFinished \cup ToSet(pending') : Received(q)'
      <3> SUFFICES ASSUME NEW q \in held \cup finishedReqs \cup newFinished \cup ToSet(pending')
                   PROVE  Received(q)'
        OBVIOUS
      <3>1. CASE q = r
        BY <1>6, <1>9, <3>1 DEF Received
      <3>2. CASE q # r
        <4>1. Received(q)
          BY <1>4, <1>10, <3>2 DEF Queues
        <4>2. q \in Req
          <5>1. held \subseteq Req /\ finishedReqs \subseteq Req /\ newFinished \subseteq Req
            BY <1>4 DEF LoopType, LockInv, CMTypeOK
          <5>2. ToSet(pending') \subseteq Req
            BY <1>10, SeqFacts DEF ToSet
          <5> QED
            BY <5>1, <5>2
        <4> QED
          BY <1>8, <3>2, <4>1, <4>2
      <3> QED
        BY <3>1, <3>2
    <2> QED
      BY <1>1, <1>2, <1>10, <2>1, <2>2, <2>3, <2>4 DEF Queues, Whole
  <1>15. Owners'
    BY <1>2, <1>4, OwnersFrame
  <1>16. Limits'
    <2>1. ToSet(pending) \subseteq Req
      BY <1>4, SeqFacts DEF LoopType, ToSet
    <2>2. InBatch(batch) = {}
      BY <1>1, <1>4, NoBatchFacts DEF StageBatches
    <2>3. \A q \in ToSet(pending') : InputLen(q)' < MaxSeqLen
          /\ InputLen(q)' + outputLen'[q] <= MaxSeqLen
      <3> SUFFICES ASSUME NEW q \in ToSet(pending')
                   PROVE  InputLen(q)' < MaxSeqLen /\ InputLen(q)' + outputLen'[q] <= MaxSeqLen
        OBVIOUS
      <3>1. CASE q = r
        BY <1>6, <1>10, <3>1 DEF InputLen
      <3>2. CASE q # r
        <4>1. q \in ToSet(pending) /\ q \in Req
          BY <1>10, <2>1, <3>2
        <4> QED
          BY <1>4, <1>8, <1>10, <3>2, <4>1 DEF Limits
      <3> QED
        BY <3>1, <3>2
    <2>4. \A q \in chunked : /\ cachedLen[q] < InputLen(q)'
                             /\ Len(inputIds[q]) <= InputLen(q)'
                                /\ inputIds[q] = SubSeq(user'[q].prompt, 1, Len(inputIds[q]))
      <3> SUFFICES ASSUME NEW q \in chunked
                   PROVE  /\ cachedLen[q] < InputLen(q)'
                          /\ Len(inputIds[q]) <= InputLen(q)'
                             /\ inputIds[q] = SubSeq(user'[q].prompt, 1, Len(inputIds[q]))
        OBVIOUS
      <3>1. q \in Req \ {r}
        BY <1>4, <1>7 DEF LoopType
      <3> QED
        BY <1>4, <1>6, <1>8, <3>1 DEF Limits
    <2> QED
      BY <1>2, <1>4, <2>2, <2>3, <2>4 DEF Limits, InBatch
  <1>17. Rows'
    BY <1>2, <1>4, RowsFrame
  <1> QED
    BY <1>2, <1>11, <1>12, <1>13, <1>14, <1>15, <1>16, <1>17 DEF LoopInv, cmVars

\* An abort takes a request out of the pending list or the running set.  With no batch in
\* flight the key it is cached under is what its row was filled with.
LEMMA ReceiveAbortInv ==
  ASSUME LockInv, LoopInv, Overlap => MaxAborts = 0, NEW r \in Req, ReceiveAbort(r)
  PROVE  [CMNext]_cmVars /\ LoopInv'
  <1>1. LoopType /\ StageBatches /\ FirstPending /\ Queues /\ Owners /\ Limits /\ Rows
    BY DEF LoopInv
  <1>2. /\ pc = "receive" /\ TakeOut(r) /\ aborted' = aborted \cup {r}
        /\ IF OwnsAny(r) THEN FreeResources(r, CacheKey(inputIds[r], r)) ELSE UNCHANGED cmVars
        /\ UNCHANGED <<pc, user, reqVars, adderVars, batchVars, replyVars>>
        /\ Cardinality(aborted) < MaxAborts
    BY DEF ReceiveAbort
  <1>3. /\ UNCHANGED <<outputLen, inputIds, cachedLen, deviceLen, maxDeviceLen>>
        /\ UNCHANGED <<budget, reserved, chunkedList, batch, inFlight, due, cursor>>
        /\ UNCHANGED <<finishedReqs, newFinished, replies, pc, user>>
    BY <1>2 DEF reqVars, adderVars, batchVars, replyVars
  <1>4. batch = NoBatch /\ inFlight = NoBatch /\ due = NoBatch
    <2>1. Cardinality(aborted) \in Nat
      BY <1>1, ReqAssumption, FS_Subset, FS_CardinalityType DEF LoopType
    <2>2. ~Overlap
      BY <1>2, <2>1
    <2> QED
      BY <1>1, <1>2, <2>2 DEF StageBatches
  <1>5. /\ pending' \in Seq(Req) /\ IsInjective(pending') /\ ToSet(pending') = ToSet(pending) \ {r}
        /\ chunked' = chunked \ {r} /\ running' = running \ {r}
    BY <1>1, <1>2, RemoveFirstFacts DEF TakeOut, LoopType, Queues
  <1>6. /\ [CMNext]_cmVars /\ UNCHANGED <<pageTable, handle, slot>> /\ held' \subseteq held
        /\ held \ {r} \subseteq held'
    <2>1. CASE OwnsAny(r)
      <3> DEFINE key == CacheKey(inputIds[r], r)
      <3>1. r \in held /\ inputIds[r] \in Seq(Token) /\ PagesOf(handle[r], inputIds[r])
        BY <1>1, <2>1 DEF OwnsAny, Owners, Rows, LoopType
      <3>2. Cacheable(r, key) /\ key \in Key
        BY <1>2, <3>1, CacheKeyInContract
      <3>3. FreeResources(r, key)
        BY <1>2, <2>1
      <3> HIDE DEF key
      <3>4. CMNext
        BY <3>2, <3>3 DEF CMNext, Release
      <3> QED
        BY <2>1, <3>3, <3>4 DEF FreeResources, OwnsAny
    <2>2. CASE ~OwnsAny(r)
      BY <1>2, <2>2 DEF OwnsAny, cmVars
    <2> QED
      BY <2>1, <2>2
  <1>7. LoopType'
    <2>1. aborted' \subseteq Req /\ chunked' \subseteq Req /\ running' \subseteq Req
      BY <1>1, <1>2, <1>5 DEF LoopType
    <2> QED
      BY <1>1, <1>3, <1>5, <2>1 DEF LoopType, BatchType
  <1>8. StageBatches'
    BY <1>1, <1>3, StageFrame
  <1>9. FirstPending'
    BY <1>2, <1>3 DEF FirstPending
  <1>10. Queues'
    <2>1. chunked' \subseteq ToSet(pending')
      BY <1>1, <1>5 DEF Queues
    <2>2. \A q \in ToSet(pending) : q \in held => q \in chunked
      BY <1>1, <1>2 DEF Queues, NotReached, ToSet
    <2>3. \A i \in DOMAIN pending' : pending'[i] \in held' => pending'[i] \in chunked'
      <3> SUFFICES ASSUME NEW i \in DOMAIN pending', pending'[i] \in held'
                   PROVE  pending'[i] \in chunked'
        OBVIOUS
      <3>1. pending'[i] \in ToSet(pending') /\ pending'[i] \in held
        BY <1>6 DEF ToSet
      <3>2. pending'[i] \in ToSet(pending) /\ pending'[i] # r
        BY <1>5, <3>1
      <3> QED
        BY <1>5, <2>2, <3>1, <3>2
    <2>4. ToSet(pending') \cap (running' \cup Whole(inFlight)' \cup Whole(due)') = {}
      BY <1>1, <1>3, <1>5 DEF Queues, Whole
    <2>5. \A q \in held' \cup finishedReqs \cup newFinished \cup ToSet(pending') : Received(q)'
      <3>1. \A q \in held \cup finishedReqs \cup newFinished \cup ToSet(pending) : Received(q)'
        BY <1>1, <1>3 DEF Queues, Received
      <3> QED
        BY <1>5, <1>6, <3>1
    <2> QED
      BY <1>2, <1>3, <1>5, <2>1, <2>3, <2>4, <2>5 DEF Queues
  <1>11. Owners'
    <2>1. running' \cup chunked' \subseteq held'
      BY <1>1, <1>5, <1>6 DEF Owners
    <2> QED
      BY <1>2, <1>3, <1>4, <2>1, NoBatchFacts DEF Owners
  <1>12. Limits'
    BY <1>1, <1>3, <1>5, LimitsFrame
  <1>13. Rows'
    BY <1>1, <1>3, <1>6, RowsFrame
  <1> QED
    BY <1>6, <1>7, <1>8, <1>9, <1>10, <1>11, <1>12, <1>13 DEF LoopInv

\* The reservation for running requests is a number.
LEMMA InflightTokensNumber ==
  ASSUME LoopType
  PROVE  InflightTokens \in Int
  <1> DEFINE f == [r \in running |-> RemainLen(r)]
  <1>1. IsFiniteSet(running)
    BY ReqAssumption, FS_Subset DEF LoopType
  <1>2. DOMAIN f = running /\ \A r \in running : f[r] \in Int
    BY DEF LoopType, RemainLen
  <1> HIDE DEF f
  <1>3. SumFunction(f) \in Int
    BY <1>1, <1>2, SumOfNumbers DEF SumFunction
  <1>4. (PageSize - 1) * Cardinality(running) \in Int
    <2>1. PageSize - 1 \in Int /\ Cardinality(running) \in Int
      BY <1>1, FS_CardinalityType, PageSizeAssumption
    <2> QED
      BY <2>1
  <1> QED
    BY <1>3, <1>4 DEF InflightTokens, f

\* A batch without requests.
LEMMA EmptyBatch ==
  ASSUME NEW b, b = [phase |-> "prefill", reqs |-> <<>>]
  PROVE  /\ BatchType(b) /\ OnceEach(b) /\ b.phase = "prefill" /\ b.reqs = <<>> /\ Len(b.reqs) = 0
         /\ DOMAIN b.reqs = {} /\ InBatch(b) = {} /\ Whole(b) = {}
  BY DEF BatchType, OnceEach, InBatch, Whole

\* Scheduling starts with an empty batch and an empty chunked_list.
LEMMA BeginScheduleInv ==
  ASSUME LoopInv, BeginSchedule
  PROVE  UNCHANGED cmVars /\ LoopInv'
  <1>1. LoopType /\ StageBatches /\ FirstPending /\ Queues /\ Owners /\ Limits /\ Rows
    BY DEF LoopInv
  <1>2. /\ pc = "receive" /\ pc' = "admit" /\ budget' = Budget /\ reserved' = InflightTokens
        /\ chunkedList' = <<>> /\ batch' = [phase |-> "prefill", reqs |-> <<>>]
        /\ UNCHANGED <<cmVars, msgVars, queueVars, reqVars, inFlight, due, cursor, replyVars>>
    BY DEF BeginSchedule
  <1>3. /\ UNCHANGED <<tree, freeSlots, tableFree, pageTable, held, handle, slot>>
        /\ UNCHANGED <<outputLen, inputIds, cachedLen, deviceLen, maxDeviceLen>>
        /\ UNCHANGED <<pending, chunked, running, inFlight, due, cursor, user, aborted>>
        /\ UNCHANGED <<finishedReqs, newFinished, replies>>
    BY <1>2 DEF reqVars, replyVars, msgVars, queueVars, cmVars
  <1>4. /\ BatchType(batch') /\ OnceEach(batch') /\ batch'.phase = "prefill" /\ Len(batch'.reqs) = 0
        /\ DOMAIN batch'.reqs = {} /\ InBatch(batch') = {} /\ Whole(batch') = {}
    BY <1>2, EmptyBatch
  <1>5. InBatch(batch)' = InBatch(batch') /\ Whole(batch)' = Whole(batch')
    BY DEF InBatch, Whole
  <1>6. due = NoBatch /\ newFinished = {}
    BY <1>1, <1>2 DEF StageBatches
  <1>7. LoopType'
    <2>1. budget' \in Int /\ reserved' \in Int /\ chunkedList' \in Seq(Req)
      BY <1>1, <1>2, InflightTokensNumber, BudgetAssumption
    <2>2. BatchType(inFlight)' /\ BatchType(due)' /\ BatchType(batch)'
      BY <1>1, <1>3, <1>4 DEF LoopType, BatchType
    <2>3. pc' \in {"receive", "admit", "grow", "process"}
      BY <1>2
    <2> QED
      BY <1>1, <1>3, <2>1, <2>2, <2>3 DEF LoopType
  <1>8. StageBatches'
    BY <1>1, <1>2, <1>3, <1>4, <1>6 DEF StageBatches, OnceEach, NoBatch
  <1>9. FirstPending'
    <2>1. IsInjective(<<>>) /\ ToSet(<<>>) = {}
      BY DEF IsInjective, ToSet
    <2>2. Len(pending) \in Nat
      BY <1>1 DEF LoopType
    <2> QED
      BY <1>2, <1>3, <1>4, <1>5, <2>1, <2>2 DEF FirstPending
  <1>10. Queues'
    <2>1. \A i \in DOMAIN pending : pending[i] \in held => pending[i] \in chunked
      BY <1>1, <1>2 DEF Queues, NotReached
    <2>2. Whole(inFlight)' = Whole(inFlight) /\ Whole(due)' = Whole(due)
          /\ \A q : Received(q)' <=> Received(q)
      BY <1>3 DEF Whole, Received
    <2> QED
      BY <1>1, <1>2, <1>3, <2>1, <2>2 DEF Queues
  <1>11. Owners'
    <2>1. Whole(inFlight)' = Whole(inFlight) /\ Whole(due)' = Whole(due) /\ Freed' = Freed
      BY <1>2, <1>3 DEF Whole, Freed
    <2>2. DueLeft' = DueLeft
      BY <1>3 DEF DueLeft
    <2> QED
      BY <1>1, <1>2, <1>3, <1>4, <1>5, <2>1, <2>2 DEF Owners
  <1>12. Limits'
    BY <1>1, <1>3, <1>4, <1>5 DEF Limits, InputLen
  <1>13. Rows'
    BY <1>1, <1>2, <1>3 DEF Rows, Row, Covered, Grown, DivCeil, PagesOf
  <1> QED
    BY <1>3, <1>7, <1>8, <1>9, <1>10, <1>11, <1>12, <1>13 DEF LoopInv, cmVars

-----------------------------------------------------------------------------
(* Stage admit.                                                            *)

\* A batch with one entry more.
LEMMA BatchAppend ==
  ASSUME NEW b, BatchType(b), OnceEach(b), NEW r \in Req, r \notin InBatch(b), NEW part \in BOOLEAN,
         NEW c, c = [b EXCEPT !.reqs = Append(@, [req |-> r, chunked |-> part])]
  PROVE  /\ BatchType(c) /\ OnceEach(c) /\ c.phase = b.phase /\ Len(c.reqs) = Len(b.reqs) + 1
         /\ Len(b.reqs) \in Nat /\ DOMAIN b.reqs = 1..Len(b.reqs)
            /\ DOMAIN c.reqs = 1..(Len(b.reqs) + 1)
         /\ \A i \in 1..Len(b.reqs) : c.reqs[i] = b.reqs[i]
         /\ c.reqs[Len(b.reqs) + 1].req = r /\ c.reqs[Len(b.reqs) + 1].chunked = part
         /\ InBatch(c) = InBatch(b) \cup {r}
  <1> DEFINE s == b.reqs
             e == [req |-> r, chunked |-> part]
             T == [req : Req, chunked : BOOLEAN]
  <1>1. s \in Seq(T) /\ e \in T /\ b = [phase |-> b.phase, reqs |-> s]
        /\ b.phase \in {"none", "prefill", "decode"}
    BY DEF BatchType
  <1>2. c = [phase |-> b.phase, reqs |-> Append(s, e)]
    BY <1>1
  <1>3. e.req = r /\ e.chunked = part
    OBVIOUS
  <1> HIDE DEF s, e, T
  <1>4. /\ Append(s, e) \in Seq(T) /\ Len(s) \in Nat /\ Len(Append(s, e)) = Len(s) + 1
        /\ DOMAIN s = 1..Len(s) /\ DOMAIN Append(s, e) = 1..(Len(s) + 1)
        /\ \A i \in 1..Len(s) : Append(s, e)[i] = s[i]
        /\ Append(s, e)[Len(s) + 1] = e
    BY <1>1
  <1>5. c.phase = b.phase /\ c.reqs = Append(s, e) /\ c = [phase |-> c.phase, reqs |-> c.reqs]
    <2>1. c.phase = b.phase /\ c.reqs = Append(s, e)
      BY <1>2
    <2> QED
      BY <1>2, <2>1
  <1>6. BatchType(c)
    BY <1>1, <1>4, <1>5 DEF BatchType, T
  <1>7. \A i \in DOMAIN c.reqs : i = Len(s) + 1 \/ i \in 1..Len(s)
    BY <1>4, <1>5
  <1>8. \A i \in 1..Len(s) : s[i].req \in InBatch(b) /\ s[i].req # r
    BY <1>4 DEF InBatch, s
  <1>9. OnceEach(c)
    <2> SUFFICES ASSUME NEW i \in DOMAIN c.reqs, NEW j \in DOMAIN c.reqs,
                        c.reqs[i].req = c.reqs[j].req
                 PROVE  i = j
      BY DEF OnceEach
    <2>1. CASE i \in 1..Len(s) /\ j \in 1..Len(s)
      BY <1>4, <1>5, <2>1 DEF OnceEach, s
    <2>2. CASE ~(i \in 1..Len(s) /\ j \in 1..Len(s))
      BY <1>3, <1>4, <1>5, <1>7, <1>8, <2>2
    <2> QED
      BY <2>1, <2>2
  <1>10. InBatch(c) = InBatch(b) \cup {r}
    <2>1. \A x \in InBatch(c) : x \in InBatch(b) \cup {r}
      BY <1>3, <1>4, <1>5, <1>7, <1>8 DEF InBatch
    <2>2. \A x \in InBatch(b) : x \in InBatch(c)
      BY <1>4, <1>5 DEF InBatch, s
    <2>3. r \in InBatch(c)
      <3>1. Len(s) + 1 \in DOMAIN c.reqs /\ c.reqs[Len(s) + 1].req = r
        BY <1>3, <1>4, <1>5
      <3> QED
        BY <3>1 DEF InBatch
    <2> QED
      BY <2>1, <2>2, <2>3
  <1> QED
    BY <1>3, <1>4, <1>5, <1>6, <1>9, <1>10 DEF s

\* The next request of the pending list.
LEMMA NextReqFacts ==
  ASSUME LoopInv, pc = "admit", HasNext
  PROVE  /\ NextReq \in Req /\ NextReq \in ToSet(pending) /\ NextReq \notin InBatch(batch)
         /\ NextReq \notin running /\ NextReq \notin Whole(inFlight) /\ Received(NextReq)
         /\ Len(batch.reqs) + 1 \in DOMAIN pending /\ Len(batch.reqs) \in Nat
         /\ NextReq = pending[Len(batch.reqs) + 1]
         /\ \A i \in DOMAIN pending : pending[i] = NextReq => i = Len(batch.reqs) + 1
         /\ NextReq \in held => NextReq \in chunked
  <1>1. LoopType /\ FirstPending /\ Queues
    BY DEF LoopInv
  <1> DEFINE k == Len(batch.reqs)
  <1>2. k \in Nat /\ DOMAIN batch.reqs = 1..k
    BY <1>1, BatchMembers DEF LoopType
  <1>3. Len(pending) \in Nat /\ DOMAIN pending = 1..Len(pending)
        /\ \A i \in DOMAIN pending : pending[i] \in Req
    BY <1>1, SeqFacts DEF LoopType
  <1>4. k < Len(pending) /\ NextReq = pending[k + 1]
    BY DEF HasNext, NextReq
  <1>5. k + 1 \in DOMAIN pending /\ NotReached(k + 1)
    BY <1>2, <1>3, <1>4 DEF NotReached
  <1>6. NextReq \in Req /\ NextReq \in ToSet(pending)
    BY <1>3, <1>4, <1>5 DEF ToSet
  <1>7. \A i \in DOMAIN pending : pending[i] = NextReq => i = k + 1
    BY <1>1, <1>4, <1>5 DEF Queues, IsInjective
  <1>8. NextReq \notin InBatch(batch)
    <2>1. \A i \in 1..k : i \in DOMAIN pending /\ i # k + 1 /\ batch.reqs[i].req = pending[i]
      BY <1>1, <1>2, <1>3, <1>4 DEF FirstPending
    <2> QED
      BY <1>2, <1>7, <2>1 DEF InBatch
  <1>9. NextReq \in held => NextReq \in chunked
    BY <1>1, <1>4, <1>5 DEF Queues
  <1>10. NextReq \notin running /\ NextReq \notin Whole(inFlight) /\ Received(NextReq)
    BY <1>1, <1>6 DEF Queues
  <1> QED
    BY <1>2, <1>4, <1>5, <1>6, <1>7, <1>8, <1>9, <1>10

\* What _add_one_req computes: n tokens of the prompt, and whether they are only a part.
LEMMA ChunkFacts ==
  ASSUME NEW r, NEW cached \in Nat, InputLen(r) \in Nat, outputLen[r] \in Nat, cached < InputLen(r),
         budget \in Nat \ {0}, reserved \in Int, AddOneReq(r, cached)
  PROVE  \E n \in Nat, part \in BOOLEAN :
           /\ n \in Nat /\ cached < n /\ n <= InputLen(r) /\ (part <=> n < InputLen(r))
           /\ inputIds' = [inputIds EXCEPT ![r] = SubSeq(user[r].prompt, 1, n)]
           /\ cachedLen' = [cachedLen EXCEPT ![r] = cached]
           /\ deviceLen' = [deviceLen EXCEPT ![r] = n]
           /\ maxDeviceLen' = [maxDeviceLen EXCEPT ![r] = n + outputLen[r]]
           /\ budget' \in Int
           /\ reserved' \in Int
           /\ reserved' = reserved + (InputLen(r) - cached) + outputLen[r]
           /\ chunked' = IF part THEN chunked \cup {r} ELSE chunked \ {r}
           /\ chunkedList' = IF part THEN Append(chunkedList, r) ELSE chunkedList
           /\ batch' = [batch EXCEPT !.reqs = Append(@, [req |-> r, chunked |-> part])]
  <1> DEFINE remain == InputLen(r) - cached
             chunk == Min({budget, remain})
  <1>1. remain \in Nat \ {0} /\ chunk \in Nat \ {0} /\ chunk <= remain
    <2>1. remain \in Nat \ {0}
      OBVIOUS
    <2> HIDE DEF remain
    <2>2. chunk = IF budget <= remain THEN budget ELSE remain
      BY <2>1, MinOfTwo
    <2> HIDE DEF chunk
    <2> QED
      BY <2>1, <2>2
  <1>2. /\ inputIds' = [inputIds EXCEPT ![r] = SubSeq(user[r].prompt, 1, cached + chunk)]
        /\ cachedLen' = [cachedLen EXCEPT ![r] = cached]
        /\ deviceLen' = [deviceLen EXCEPT ![r] = cached + chunk]
        /\ maxDeviceLen' = [maxDeviceLen EXCEPT ![r] = cached + chunk + outputLen[r]]
        /\ budget' = budget - chunk
        /\ reserved' = reserved + remain + outputLen[r]
        /\ chunked' = IF chunk < remain THEN chunked \cup {r} ELSE chunked \ {r}
        /\ chunkedList' = IF chunk < remain THEN Append(chunkedList, r) ELSE chunkedList
        /\ batch' = [batch EXCEPT !.reqs = Append(@, [req |-> r, chunked |-> chunk < remain])]
    BY DEF AddOneReq
  <1>3. remain = InputLen(r) - cached
    OBVIOUS
  <1> HIDE DEF chunk, remain
  <1>4. /\ cached + chunk \in Nat /\ cached < cached + chunk /\ cached + chunk <= InputLen(r)
        /\ (chunk < remain <=> cached + chunk < InputLen(r)) /\ (chunk < remain) \in BOOLEAN
    BY <1>1, <1>3
  <1>5. /\ budget' \in Int /\ reserved' \in Int
        /\ reserved' = reserved + (InputLen(r) - cached) + outputLen[r]
    BY <1>1, <1>2, <1>3
  <1>6. PICK n, part : n = cached + chunk /\ part = (chunk < remain)
    OBVIOUS
  <1> HIDE DEF AddOneReq
  <1>7. /\ part \in BOOLEAN /\ n \in Nat /\ cached < n /\ n <= InputLen(r)
           /\ (part <=> n < InputLen(r))
    BY <1>4, <1>6
  <1>8. /\ inputIds' = [inputIds EXCEPT ![r] = SubSeq(user[r].prompt, 1, n)]
        /\ cachedLen' = [cachedLen EXCEPT ![r] = cached]
        /\ deviceLen' = [deviceLen EXCEPT ![r] = n]
        /\ maxDeviceLen' = [maxDeviceLen EXCEPT ![r] = n + outputLen[r]]
        /\ chunked' = IF part THEN chunked \cup {r} ELSE chunked \ {r}
        /\ chunkedList' = IF part THEN Append(chunkedList, r) ELSE chunkedList
        /\ batch' = [batch EXCEPT !.reqs = Append(@, [req |-> r, chunked |-> part])]
    BY <1>2, <1>6
  <1> QED
    BY <1>5, <1>7, <1>8

\* What _add_one_req keeps, once the memory of the request is as it should be.
LEMMA AddOneReqInv ==
  ASSUME LockInv, LoopInv, pc = "admit", HasNext, budget > 0, NEW r, r = NextReq,
         NEW cached \in Nat,
         cached < InputLen(r), AddOneReq(r, cached), held' = held \cup {r},
         \A q \in held \ {r} : Row(q)' = Row(q) /\ handle'[q] = handle[q],
         handle'[r] \in Seq(Block), PagesOf(handle'[r], user[r].prompt),
         PageSize * Len(handle'[r]) <= cached, Len(Row(r)') = DivCeil(cached)
  PROVE  LoopInv'
  <1>1. LoopType /\ StageBatches /\ FirstPending /\ Queues /\ Owners /\ Limits /\ Rows
    BY DEF LoopInv
  <1>2. PICK k : k = Len(batch.reqs)
    OBVIOUS
  <1>3. /\ r \in Req /\ r \in ToSet(pending) /\ r \notin InBatch(batch)
        /\ r \notin running /\ r \notin Whole(inFlight) /\ Received(r)
        /\ k + 1 \in DOMAIN pending /\ k \in Nat /\ r = pending[k + 1]
        /\ \A i \in DOMAIN pending : pending[i] = r => i = k + 1
    BY <1>2, NextReqFacts
  <1>4. /\ user[r].prompt \in Seq(Token) /\ InputLen(r) = Len(user[r].prompt) /\ InputLen(r) \in Nat
        /\ InputLen(r) < MaxSeqLen /\ InputLen(r) + outputLen[r] <= MaxSeqLen
        /\ outputLen[r] \in Nat /\ MaxSeqLen \in Nat /\ budget \in Nat \ {0}
    <2>1. user[r].prompt \in Seq(Token) /\ InputLen(r) \in Nat
      BY <1>1, <1>3, PromptOf
    <2>2. InputLen(r) < MaxSeqLen /\ InputLen(r) + outputLen[r] <= MaxSeqLen
      BY <1>1, <1>3 DEF Limits
    <2>3. outputLen[r] \in Nat /\ MaxSeqLen \in Nat /\ budget \in Nat \ {0}
      BY <1>1, <1>3, MaxSeqLenAssumption DEF LoopType
    <2> QED
      BY <2>1, <2>2, <2>3 DEF InputLen
  <1>5. PICK n \in Nat, part \in BOOLEAN :
          /\ n \in Nat /\ cached < n /\ n <= InputLen(r) /\ (part <=> n < InputLen(r))
          /\ inputIds' = [inputIds EXCEPT ![r] = SubSeq(user[r].prompt, 1, n)]
          /\ cachedLen' = [cachedLen EXCEPT ![r] = cached]
          /\ deviceLen' = [deviceLen EXCEPT ![r] = n]
          /\ maxDeviceLen' = [maxDeviceLen EXCEPT ![r] = n + outputLen[r]]
          /\ budget' \in Int
          /\ reserved' \in Int
          /\ chunked' = IF part THEN chunked \cup {r} ELSE chunked \ {r}
          /\ chunkedList' = IF part THEN Append(chunkedList, r) ELSE chunkedList
          /\ batch' = [batch EXCEPT !.reqs = Append(@, [req |-> r, chunked |-> part])]
    <2>1. reserved \in Int
      BY <1>1 DEF LoopType
    <2> QED
      BY <1>4, <2>1, ChunkFacts
  <1>6. UNCHANGED <<pc, user, aborted, outputLen, pending, running, inFlight, due, cursor,
                    finishedReqs, newFinished, replies>>
    BY DEF AddOneReq, msgVars, replyVars
  <1>7. /\ BatchType(batch') /\ OnceEach(batch') /\ batch'.phase = batch.phase
           /\ Len(batch'.reqs) = k + 1
        /\ DOMAIN batch.reqs = 1..k /\ DOMAIN batch'.reqs = 1..(k + 1)
        /\ \A i \in 1..k : batch'.reqs[i] = batch.reqs[i]
        /\ batch'.reqs[k + 1].req = r /\ batch'.reqs[k + 1].chunked = part
        /\ InBatch(batch') = InBatch(batch) \cup {r}
    <2>1. BatchType(batch) /\ OnceEach(batch)
      BY <1>1 DEF LoopType, StageBatches
    <2> QED
      BY <1>2, <1>3, <1>5, <2>1, BatchAppend
  <1>8. InBatch(batch)' = InBatch(batch') /\ Whole(inFlight)' = Whole(inFlight)
        /\ Whole(due)' = Whole(due)
        /\ \A q : (Received(q)' <=> Received(q)) /\ InputLen(q)' = InputLen(q)
    BY <1>6 DEF InBatch, Whole, Received, InputLen
  <1>9. /\ SubSeq(user[r].prompt, 1, n) \in Seq(Token) /\ Len(SubSeq(user[r].prompt, 1, n)) = n
        /\ n \in 0..Len(user[r].prompt)
    BY <1>4, <1>5
  <1>10. /\ inputIds' \in [Req -> Seq(Token)] /\ cachedLen' \in [Req -> Nat]
         /\ deviceLen' \in [Req -> Nat] /\ maxDeviceLen' \in [Req -> Nat]
         /\ inputIds'[r] = SubSeq(user[r].prompt, 1, n) /\ cachedLen'[r] = cached
         /\ deviceLen'[r] = n /\ maxDeviceLen'[r] = n + outputLen[r]
         /\ \A q \in Req \ {r} : /\ inputIds'[q] = inputIds[q] /\ cachedLen'[q] = cachedLen[q]
                                 /\ deviceLen'[q] = deviceLen[q]
                                    /\ maxDeviceLen'[q] = maxDeviceLen[q]
    <2>1. n + outputLen[r] \in Nat
      BY <1>4, <1>5
    <2> QED
      BY <1>1, <1>3, <1>5, <1>9, <2>1 DEF LoopType
  <1>11. LoopType'
    <2>1. chunked' \subseteq Req /\ chunkedList' \in Seq(Req)
      BY <1>1, <1>3, <1>5 DEF LoopType
    <2> QED
      BY <1>1, <1>5, <1>6, <1>7, <1>10, <2>1 DEF LoopType, BatchType
  <1>12. StageBatches'
    <2>1. OnceEach(inFlight') /\ OnceEach(due')
      BY <1>1, <1>6 DEF StageBatches
    <2> QED
      BY <1>1, <1>6, <1>7, <2>1 DEF StageBatches, OnceEach, NoBatch
  <1>13. FirstPending'
    <2>1. k + 1 <= Len(pending) /\ Len(pending) \in Nat /\ DOMAIN pending = 1..Len(pending)
      BY <1>1, <1>3, SeqFacts DEF LoopType
    <2>2. ASSUME NEW i \in 1..(k + 1)
          PROVE  batch'.reqs[i].req = pending[i]
                 /\ (batch'.reqs[i].chunked <=> pending[i] \in chunked')
      <3>1. CASE i = k + 1
        BY <1>3, <1>5, <1>7, <3>1
      <3>2. CASE i # k + 1
        <4>1. i \in 1..k /\ i \in DOMAIN pending
          BY <1>3, <2>1, <3>2
        <4>2. batch.reqs[i].req = pending[i] /\ (batch.reqs[i].chunked <=> pending[i] \in chunked)
          BY <1>1, <1>7, <4>1 DEF FirstPending
        <4>3. pending[i] # r
          BY <1>3, <3>2, <4>1
        <4> QED
          BY <1>5, <1>7, <4>1, <4>2, <4>3
      <3> QED
        BY <3>1, <3>2
    <2>3. IsInjective(chunkedList) /\ ToSet(chunkedList) = InBatch(batch) \cap chunked
          /\ chunkedList \in Seq(Req)
      BY <1>1 DEF FirstPending, LoopType
    <2>4. IsInjective(chunkedList') /\ ToSet(chunkedList') = InBatch(batch') \cap chunked'
      <3>1. CASE part
        <4>1. r \notin ToSet(chunkedList)
          BY <1>3, <2>3
        <4>2. IsInjective(chunkedList') /\ ToSet(chunkedList') = ToSet(chunkedList) \cup {r}
          BY <1>3, <1>5, <2>3, <3>1, <4>1, AppendFacts
        <4> QED
          BY <1>5, <1>7, <2>3, <3>1, <4>2
      <3>2. CASE ~part
        BY <1>3, <1>5, <1>7, <2>3, <3>2
      <3> QED
        BY <3>1, <3>2
    <2> QED
      BY <1>6, <1>7, <1>8, <2>1, <2>2, <2>4 DEF FirstPending
  <1>14. Queues'
    <2>1. chunked' \subseteq ToSet(pending)
      BY <1>1, <1>3, <1>5 DEF Queues
    <2>2. ASSUME NEW i \in DOMAIN pending, i > k + 1, pending[i] \in held'
          PROVE  pending[i] \in chunked'
      <3>1. i > k /\ i # k + 1
        <4>1. i \in Nat
          <5>1. DOMAIN pending = 1..Len(pending)
            BY <1>1, SeqFacts DEF LoopType
          <5> QED
            BY <5>1
        <4> QED
          BY <1>3, <2>2, <4>1
      <3>2. pending[i] # r /\ pending[i] \in held
        BY <1>3, <2>2, <3>1
      <3>3. pending[i] \in chunked
        BY <1>1, <1>2, <3>1, <3>2 DEF Queues, NotReached
      <3> QED
        BY <1>5, <3>2, <3>3
    <2>3. \A i \in DOMAIN pending : NotReached(i)' => i > k + 1
      BY <1>6, <1>7 DEF NotReached
    <2>4. \A q \in held' \cup finishedReqs \cup newFinished \cup ToSet(pending) : Received(q)
      BY <1>1, <1>3 DEF Queues
    <2> QED
      BY <1>1, <1>6, <1>8, <2>1, <2>2, <2>3, <2>4 DEF Queues
  <1>15. Owners'
    <2>1. running \cup chunked' \subseteq held'
      BY <1>1, <1>5 DEF Owners
    <2>2. InBatch(batch') \subseteq held'
      BY <1>1, <1>7 DEF Owners
    <2>3. batch.phase = "prefill" => InBatch(batch') \cap Whole(inFlight) = {}
      BY <1>1, <1>3, <1>7 DEF Owners
    <2>4. due.phase = "none" /\ due'.phase = "none" /\ Freed' = Freed
      BY <1>1, <1>6, NoBatchFacts DEF StageBatches, Freed
    <2> QED
      BY <1>1, <1>6, <1>7, <1>8, <2>1, <2>2, <2>3, <2>4 DEF Owners
  <1>16. Limits'
    <2>1. ASSUME NEW q \in chunked'
          PROVE  /\ cachedLen'[q] < InputLen(q)
                 /\ Len(inputIds'[q]) <= InputLen(q)
                    /\ inputIds'[q] = SubSeq(user[q].prompt, 1, Len(inputIds'[q]))
                 /\ q \in InBatch(batch') => deviceLen'[q] < InputLen(q)
      <3>1. CASE q = r
        <4>1. part
          BY <1>5, <3>1
        <4> QED
          BY <1>5, <1>9, <1>10, <3>1, <4>1
      <3>2. CASE q # r
        <4>1. q \in chunked /\ q \in Req \ {r}
          BY <1>1, <1>5, <3>2 DEF LoopType
        <4> QED
          BY <1>1, <1>7, <1>10, <4>1 DEF Limits
      <3> QED
        BY <3>1, <3>2
    <2>2. ASSUME NEW q \in InBatch(batch')
          PROVE  cachedLen'[q] < deviceLen'[q] /\ deviceLen'[q] <= MaxSeqLen
                 /\ maxDeviceLen'[q] <= MaxSeqLen
      <3>1. CASE q = r
        <4>1. n <= MaxSeqLen /\ n + outputLen[r] <= MaxSeqLen
          BY <1>4, <1>5
        <4> QED
          BY <1>5, <1>10, <3>1, <4>1
      <3>2. CASE q # r
        <4>1. q \in InBatch(batch) /\ q \in Req
          BY <1>1, <1>7, <3>2, BatchMembers DEF LoopType
        <4> QED
          BY <1>1, <1>10, <3>2, <4>1 DEF Limits
      <3> QED
        BY <3>1, <3>2
    <2>3. ASSUME NEW q \in running
          PROVE  /\ cachedLen'[q] < deviceLen'[q] /\ deviceLen'[q] < maxDeviceLen'[q]
                 /\ maxDeviceLen'[q] <= MaxSeqLen
      <3>1. q \in Req \ {r}
        BY <1>1, <1>3 DEF LoopType
      <3> QED
        BY <1>1, <1>10, <3>1 DEF Limits
    <2> QED
      BY <1>1, <1>6, <1>8, <2>1, <2>2, <2>3 DEF Limits
  <1>17. Rows'
    <2>1. ~Grown(r)' /\ \A q : Covered(q)' = cachedLen'[q] /\ Covered(q) = cachedLen[q]
      BY <1>6 DEF Covered, Grown
    <2> SUFFICES ASSUME NEW q \in held'
                 PROVE  /\ Len(Row(q)') = DivCeil(cachedLen'[q])
                        /\ PagesOf(handle'[q], inputIds'[q])
                        /\ PageSize * Len(handle'[q]) <= cachedLen'[q] /\ cachedLen'[q] <= MaxSeqLen
      BY <2>1 DEF Rows, PagesOf, DivCeil
    <2>2. CASE q = r
      <3>1. PagesOf(handle'[r], SubSeq(user[r].prompt, 1, n))
        <4>1. PageSize * Len(handle'[r]) \in Nat
          BY TimesMonotone
        <4>2. PageSize * Len(handle'[r]) <= n
          BY <1>5, <4>1
        <4> QED
          BY <1>4, <1>9, <4>2, PagesOfCut
      <3>2. cached <= MaxSeqLen
        BY <1>4
      <3> QED
        BY <1>10, <2>2, <3>1, <3>2
    <2>3. CASE q # r
      <3>1. q \in held /\ q \in Req \ {r}
        BY <2>3 DEF LockInv, CMTypeOK
      <3>2. /\ Len(Row(q)) = DivCeil(cachedLen[q]) /\ PagesOf(handle[q], inputIds[q])
            /\ PageSize * Len(handle[q]) <= cachedLen[q] /\ cachedLen[q] <= MaxSeqLen
        BY <1>1, <2>1, <3>1 DEF Rows
      <3> QED
        BY <1>10, <2>3, <3>1, <3>2
    <2> QED
      BY <2>2, <2>3
  <1> QED
    BY <1>11, <1>12, <1>13, <1>14, <1>15, <1>16, <1>17 DEF LoopInv

\* The next chunk of a request keeps the row and the lock of the chunk before.
LEMMA ContinueChunkInv ==
  ASSUME LockInv, LoopInv, ContinueChunk
  PROVE  UNCHANGED cmVars /\ LoopInv'
  <1>1. PICK r : r = NextReq
    OBVIOUS
  <1>2. LoopType /\ FirstPending /\ Queues /\ Owners /\ Limits /\ Rows
    BY DEF LoopInv
  <1>3. /\ pc = "admit" /\ HasNext /\ budget > 0 /\ r \in chunked
        /\ AddOneReq(r, cachedLen[r]) /\ UNCHANGED cmVars
    BY <1>1 DEF ContinueChunk
  <1>4. UNCHANGED <<tree, freeSlots, tableFree, pageTable, held, handle, slot>>
    BY <1>3 DEF cmVars
  <1>5. r \in Req /\ Received(r) /\ r \in held
    BY <1>1, <1>2, <1>3, NextReqFacts DEF Owners
  <1>6. /\ cachedLen[r] \in Nat /\ inputIds[r] \in Seq(Token) /\ cachedLen[r] < InputLen(r)
        /\ Len(inputIds[r]) <= InputLen(r)
           /\ inputIds[r] = SubSeq(user[r].prompt, 1, Len(inputIds[r]))
    BY <1>2, <1>3, <1>5 DEF LoopType, Limits
  <1>7. /\ handle[r] \in Seq(Block) /\ PagesOf(handle[r], inputIds[r])
        /\ PageSize * Len(handle[r]) <= cachedLen[r] /\ Len(Row(r)) = DivCeil(cachedLen[r])
    BY <1>2, <1>3, <1>5, HandlesCached DEF Rows, Covered, Grown
  <1>8. PagesOf(handle[r], user[r].prompt)
    <2>1. user[r].prompt \in Seq(Token) /\ InputLen(r) = Len(user[r].prompt)
      BY <1>2, <1>5, PromptOf DEF InputLen
    <2>2. Len(inputIds[r]) \in 0..Len(user[r].prompt)
      BY <1>6, <2>1
    <2> QED
      BY <1>6, <1>7, <2>1, <2>2, PagesOfCut
  <1>9. \A q : Row(q)' = Row(q)
    BY <1>4 DEF Row
  <1>10. LoopInv'
    BY <1>1, <1>3, <1>4, <1>5, <1>6, <1>7, <1>8, <1>9, AddOneReqInv
  <1> QED
    BY <1>3, <1>10

\* A new request matches at most its tokens but the last, and locks what it matched.
LEMMA AdmitNewInv ==
  ASSUME LockInv, LoopInv, AdmitNew
  PROVE  CMNext /\ LoopInv'
  <1>1. PICK r : r = NextReq
    OBVIOUS
  <1>2. LoopType /\ FirstPending /\ Queues /\ Owners /\ Limits /\ Rows
    BY DEF LoopInv
  <1>3. PICK m \in Prefixes(MatchKey(r)) :
          /\ AdmitTo(r, MatchKey(r), m)
          /\ AddOneReq(r, PageSize * Len(m))
    BY <1>1 DEF AdmitNew
  <1>4. pc = "admit" /\ HasNext /\ budget > 0 /\ r \notin chunked /\ Len(tableFree) > 0
    BY <1>1 DEF AdmitNew
  <1>5. r \in Req /\ Received(r) /\ r \notin held /\ r \in ToSet(pending)
    BY <1>1, <1>4, NextReqFacts
  <1>6. /\ MatchKey(r) \in Key /\ MatchKey(r) \in Seq(Block)
        /\ m \in Seq(Block) /\ PagesOf(m, user[r].prompt) /\ PageSize * Len(m) < InputLen(r)
    <2>1. InputLen(r) <= MaxSeqLen
      BY <1>2, <1>5, PromptOf, MaxSeqLenAssumption DEF Limits
    <2> QED
      BY <1>2, <1>3, <1>5, <2>1, MatchKeyFacts
  <1>7. CMNext
    BY <1>3, <1>4, <1>5, <1>6 DEF CMNext, Admit
  <1> DEFINE x == Last(tableFree)
  <1>8. /\ StopsAt(tree, MatchKey(r), m) /\ TakeSlot
        /\ pageTable' = [pageTable EXCEPT ![x] = MatchedPages(tree, m)]
        /\ slot' = [slot EXCEPT ![r] = x] /\ handle' = [handle EXCEPT ![r] = m]
           /\ held' = held \cup {r}
    BY <1>3 DEF AdmitTo
  <1>9. /\ tableFree \in Seq(Slot) /\ IsInjective(tableFree) /\ TreeType(tree) /\ WellFormed(tree)
        /\ pageTable \in [Slot -> Seq(Page)] /\ slot \in [Req -> Slot \cup {NoSlot}]
        /\ handle \in [Req -> Seq(Block)] /\ held \subseteq Req
        /\ \A q \in held : slot[q] \in Slot /\ slot[q] \notin ToSet(tableFree)
    BY DEF LockInv, CMTypeOK, LockedHandlesStay, OneUserPerSlot
  <1>10. x \in Slot /\ \A q \in held : slot[q] # x
    BY <1>4, <1>8, <1>9, SlotTaken
  <1>11. MatchedPages(tree, m) \in Seq(Page) /\ Len(MatchedPages(tree, m)) = Len(m)
    BY <1>6, <1>8, <1>9, WalkCached, MatchedPagesType
  <1> HIDE DEF x
  <1>12. \A q \in held \ {r} : Row(q)' = Row(q) /\ handle'[q] = handle[q]
    BY <1>5, <1>8, <1>9, <1>10 DEF Row
  <1>13. handle'[r] = m /\ Len(Row(r)') = Len(m)
    <2>1. Row(r)' = MatchedPages(tree, m)
      BY <1>5, <1>8, <1>9, <1>10 DEF Row
    <2> QED
      BY <1>5, <1>8, <1>9, <1>11, <2>1
  <1> DEFINE cached == PageSize * Len(m)
  <1>14. cached \in Nat /\ DivCeil(cached) = Len(m) /\ cached <= cached
    BY <1>6, TimesMonotone, CeilOfPages
  <1>15. cached < InputLen(r) /\ AddOneReq(r, cached) /\ PageSize * Len(handle'[r]) <= cached
         /\ Len(Row(r)') = DivCeil(cached)
    BY <1>3, <1>6, <1>13, <1>14
  <1> HIDE DEF cached
  <1>16. LoopInv'
    BY <1>1, <1>4, <1>6, <1>8, <1>12, <1>13, <1>14, <1>15, AddOneReqInv
  <1> QED
    BY <1>7, <1>16

\* A decode batch has the running requests, once each.
LEMMA DecodeBatchFacts ==
  ASSUME LoopType, NEW order \in InUidOrder(running), NEW b,
         b = [phase |-> "decode",
              reqs  |-> [i \in 1..Len(order) |-> [req |-> order[i], chunked |-> FALSE]]]
  PROVE  /\ BatchType(b) /\ OnceEach(b) /\ b.phase = "decode"
         /\ InBatch(b) \subseteq running /\ Whole(b) \subseteq running
  <1> DEFINE n == Cardinality(running)
             s == [i \in 1..n |-> [req |-> order[i], chunked |-> FALSE]]
  <1>1. n \in Nat
    BY ReqAssumption, FS_Subset, FS_CardinalityType DEF LoopType
  <1>2. /\ order \in [1..n -> running]
        /\ \A i, j \in DOMAIN order : i < j => order[i] < order[j]
    BY DEF InUidOrder
  <1> HIDE DEF n
  <1>3. order \in Seq(running) /\ Len(order) = n /\ running \subseteq Req
    BY <1>1, <1>2 DEF LoopType
  <1>4. b.phase = "decode" /\ b.reqs = s /\ b = [phase |-> b.phase, reqs |-> b.reqs]
    <2>1. b = [phase |-> "decode", reqs |-> s]
      BY <1>3
    <2> HIDE DEF s
    <2>2. b.phase = "decode" /\ b.reqs = s
      BY <2>1
    <2> QED
      BY <2>1, <2>2
  <1>5. /\ DOMAIN s = 1..n
        /\ \A i \in 1..n : s[i] = [req |-> order[i], chunked |-> FALSE] /\ s[i].req = order[i]
                           /\ order[i] \in running /\ s[i] \in [req : Req, chunked : BOOLEAN]
    BY <1>2, <1>3
  <1>6. s \in Seq([req : Req, chunked : BOOLEAN])
    <2> DEFINE T == [req : Req, chunked : BOOLEAN]
    <2>1. s \in [1..n -> T]
      BY <1>2, <1>3
    <2> HIDE DEF s, T
    <2>2. s \in Seq(T)
      BY <1>1, <2>1
    <2> QED
      BY <2>2 DEF T
  <1> HIDE DEF s
  <1>7. BatchType(b)
    BY <1>4, <1>6 DEF BatchType
  <1>8. DOMAIN b.reqs = 1..n /\ \A i \in 1..n : b.reqs[i].req = order[i] /\ order[i] \in running
    BY <1>4, <1>5
  <1>9. OnceEach(b)
    <2> SUFFICES ASSUME NEW i \in DOMAIN b.reqs, NEW j \in DOMAIN b.reqs,
                        b.reqs[i].req = b.reqs[j].req
                 PROVE  i = j
      BY DEF OnceEach
    <2>0. i \in 1..n /\ j \in 1..n /\ order[i] = order[j]
      BY <1>8
    <2>1. order[i] \in Nat /\ order[j] \in Nat
      BY <1>3, <1>8, <2>0, UidAssumption
    <2>2. ~(order[i] < order[j]) /\ ~(order[j] < order[i])
      BY <2>0, <2>1
    <2>3. DOMAIN order = 1..n
      BY <1>2
    <2>4. ~(i < j) /\ ~(j < i)
      BY <1>2, <2>0, <2>2, <2>3
    <2> QED
      BY <1>1, <2>0, <2>4
  <1>10. InBatch(b) \subseteq running /\ Whole(b) \subseteq running
    BY <1>8 DEF InBatch, Whole
  <1> QED
    BY <1>4, <1>7, <1>9, <1>10

\* The pending list that schedule_next_batch leaves: chunked requests first, then the rest.
LEMMA PendingAfterFacts ==
  ASSUME LoopInv, pc = "admit", NEW k, k = Len(batch.reqs), pending' = PendingAfter(k)
  PROVE  /\ k \in Nat /\ DOMAIN batch.reqs = 1..k
         /\ pending' \in Seq(Req) /\ IsInjective(pending')
         /\ ToSet(pending') \subseteq ToSet(pending)
         /\ chunked \subseteq ToSet(pending')
         /\ \A q \in ToSet(pending') : q \in held => q \in chunked
         /\ ToSet(pending') \cap Whole(batch) = {}
  <1>1. LoopType /\ FirstPending /\ Queues
    BY DEF LoopInv
  <1>2. k \in Nat /\ DOMAIN batch.reqs = 1..k /\ k <= Len(pending)
    BY <1>1, BatchMembers DEF LoopType, FirstPending
  <1>3. Len(pending) \in Nat /\ DOMAIN pending = 1..Len(pending) /\ pending \in Seq(Req)
        /\ IsInjective(pending)
    BY <1>1, SeqFacts DEF LoopType, Queues
  <1>4. /\ IsInjective(chunkedList) /\ ToSet(chunkedList) = InBatch(batch) \cap chunked
        /\ chunkedList \in Seq(Req)
        /\ \A i \in 1..k : batch.reqs[i].req = pending[i]
           /\ (batch.reqs[i].chunked <=> pending[i] \in chunked)
    BY <1>1, <1>2 DEF FirstPending, LoopType
  <1>5. InBatch(batch) = {pending[i] : i \in 1..k}
    BY <1>2, <1>4 DEF InBatch
  <1> DEFINE rest == SubSeq(pending, k + 1, Len(pending))
  <1>6. /\ rest \in Seq(Req) /\ IsInjective(rest)
           /\ ToSet(rest) = {pending[i] : i \in (k + 1)..Len(pending)}
        /\ ToSet(rest) \subseteq ToSet(pending)
    <2>1. k \in 0..Len(pending)
      BY <1>2, <1>3
    <2> QED
      BY <1>3, <2>1, RestFacts
  <1>7. pending' = chunkedList \o rest
    BY DEF PendingAfter
  <1> HIDE DEF rest
  <1>8. InBatch(batch) \cap ToSet(rest) = {}
    <2>1. \A i \in 1..k, j \in (k + 1)..Len(pending) : pending[i] # pending[j]
      <3> SUFFICES ASSUME NEW i \in 1..k, NEW j \in (k + 1)..Len(pending)
                   PROVE  pending[i] # pending[j]
        OBVIOUS
      <3>1. i \in DOMAIN pending /\ j \in DOMAIN pending /\ i # j
        BY <1>2, <1>3
      <3> QED
        BY <1>3, <3>1 DEF IsInjective
    <2> QED
      BY <1>5, <1>6, <2>1
  <1>9. /\ pending' \in Seq(Req) /\ IsInjective(pending')
        /\ ToSet(pending') = (InBatch(batch) \cap chunked) \cup ToSet(rest)
    <2>1. ToSet(chunkedList) \cap ToSet(rest) = {}
      BY <1>4, <1>8
    <2> QED
      BY <1>4, <1>6, <1>7, <2>1, JoinFacts
  <1>10. chunked \subseteq ToSet(pending)
    BY <1>1 DEF Queues
  <1>11. ToSet(pending) = InBatch(batch) \cup ToSet(rest)
    <2>1. \A i \in DOMAIN pending : i \in 1..k \/ i \in (k + 1)..Len(pending)
      BY <1>2, <1>3
    <2>2. \A i \in 1..k : i \in DOMAIN pending
      BY <1>2, <1>3
    <2> QED
      BY <1>5, <1>6, <2>1, <2>2 DEF ToSet
  <1>12. \A q \in ToSet(rest) : q \in held => q \in chunked
    <2> SUFFICES ASSUME NEW i \in (k + 1)..Len(pending), pending[i] \in held
                 PROVE  pending[i] \in chunked
      BY <1>6
    <2>1. i \in DOMAIN pending /\ i > k
      BY <1>2, <1>3
    <2> QED
      BY <1>1, <2>1 DEF Queues, NotReached
  <1>13. ToSet(pending') \cap Whole(batch) = {}
    <2>1. Whole(batch) \subseteq InBatch(batch) /\ Whole(batch) \cap chunked = {}
      <3> SUFFICES ASSUME NEW i \in 1..k, ~batch.reqs[i].chunked
                   PROVE  batch.reqs[i].req \in InBatch(batch) /\ batch.reqs[i].req \notin chunked
        BY <1>2 DEF Whole
      <3> QED
        BY <1>2, <1>4 DEF InBatch
    <2> QED
      BY <1>8, <1>9, <2>1
  <1> QED
    BY <1>2, <1>9, <1>10, <1>11, <1>12, <1>13

\* What becomes of the batch when no more requests fit.
LEMMA CloseBatchInv ==
  ASSUME LockInv, LoopInv, pc = "admit", CloseBatch, UNCHANGED <<pageTable, held, handle, slot>>
  PROVE  LoopInv'
  <1>1. LoopType /\ StageBatches /\ FirstPending /\ Queues /\ Owners /\ Limits /\ Rows
    BY DEF LoopInv
  <1>2. PICK k : k = Len(batch.reqs)
    OBVIOUS
  <1>3. /\ pending' = PendingAfter(k)
        /\ cursor' = 1 /\ budget' = 0 /\ reserved' = 0 /\ chunkedList' = <<>>
        /\ UNCHANGED <<chunked, running, user, aborted, finishedReqs, newFinished, replies>>
        /\ UNCHANGED <<outputLen, inputIds, cachedLen, deviceLen, maxDeviceLen>>
    BY <1>2 DEF CloseBatch, msgVars, reqVars, replyVars
  <1>4. /\ k \in Nat /\ DOMAIN batch.reqs = 1..k
        /\ pending' \in Seq(Req) /\ IsInjective(pending')
        /\ ToSet(pending') \subseteq ToSet(pending)
        /\ chunked \subseteq ToSet(pending')
        /\ \A q \in ToSet(pending') : q \in held => q \in chunked
        /\ ToSet(pending') \cap Whole(batch) = {}
    BY <1>2, <1>3, PendingAfterFacts
  <1>5. /\ due = NoBatch /\ newFinished = {} /\ OnceEach(batch) /\ OnceEach(inFlight)
           /\ OnceEach(NoBatch)
        /\ BatchType(batch) /\ BatchType(inFlight) /\ BatchType(NoBatch)
           /\ (~Overlap => inFlight = NoBatch)
    BY <1>1, NoBatchFacts DEF StageBatches, LoopType
  <1>6. \A b, c : (b = c) => Whole(b) = Whole(c) /\ OnceEach(b) = OnceEach(c)
        /\ InBatch(b) = InBatch(c)
    OBVIOUS
  <1>7. /\ Whole(batch)' = Whole(batch') /\ Whole(inFlight)' = Whole(inFlight')
           /\ Whole(due)' = Whole(due')
        /\ InBatch(batch)' = InBatch(batch')
    BY DEF Whole, InBatch
  <1> DEFINE Prefill == pc' = "grow" /\ UNCHANGED <<batch, inFlight, due>>
             Decode  == /\ pc' = "grow" /\ UNCHANGED <<inFlight, due>> /\ batch'.phase = "decode"
                        /\ InBatch(batch') \subseteq running /\ Whole(batch') \subseteq running
             Nothing == /\ pc' = "process" /\ batch' = NoBatch
                        /\ due' = inFlight /\ inFlight' = NoBatch
  <1>8. BatchType(batch') /\ OnceEach(batch') /\ (Prefill \/ Decode \/ Nothing)
    <2>1. CASE Prefill
      BY <1>5, <2>1
    <2>2. ASSUME NEW order \in InUidOrder(running),
                 batch' = [phase |-> "decode",
                           reqs  |-> [i \in 1..Len(order) |->
                                        [req |-> order[i], chunked |-> FALSE]]],
                 pc' = "grow", UNCHANGED <<inFlight, due>>
          PROVE  BatchType(batch') /\ OnceEach(batch') /\ Decode
      BY <1>1, <2>2, DecodeBatchFacts
    <2>3. CASE Nothing
      BY <1>5, <2>3
    <2>4. \/ Prefill
          \/ /\ \E order \in InUidOrder(running) :
                  batch' = [phase |-> "decode",
                            reqs  |-> [i \in 1..Len(order) |->
                                         [req |-> order[i], chunked |-> FALSE]]]
             /\ pc' = "grow" /\ UNCHANGED <<inFlight, due>>
          \/ Nothing
      BY DEF CloseBatch
    <2> HIDE DEF Prefill, Decode, Nothing
    <2> QED
      BY <2>1, <2>2, <2>3, <2>4
  <1>9. /\ BatchType(inFlight') /\ BatchType(due') /\ OnceEach(inFlight') /\ OnceEach(due')
        /\ Whole(inFlight') \cup Whole(due') \subseteq Whole(inFlight) \cup Whole(due)
    BY <1>5, <1>8, NoBatchFacts
  <1>10. LoopType'
    <2>1. cursor' \in Nat \ {0} /\ chunkedList' \in Seq(Req) /\ budget' \in Int /\ reserved' \in Int
      BY <1>3
    <2>2. pc' \in {"receive", "admit", "grow", "process"}
      BY <1>8
    <2> QED
      BY <1>1, <1>3, <1>4, <1>8, <1>9, <2>1, <2>2 DEF LoopType, BatchType
  <1>11. StageBatches'
    <2>1. /\ OnceEach(batch)' = OnceEach(batch') /\ OnceEach(inFlight)' = OnceEach(inFlight')
          /\ OnceEach(due)' = OnceEach(due') /\ NoBatch' = NoBatch
      BY DEF OnceEach, NoBatch
    <2>2. (~Overlap => inFlight' = NoBatch) /\ newFinished' = {}
      BY <1>3, <1>5, <1>8
    <2>3. (pc' = "process" => batch' = NoBatch) /\ (pc' # "process" => due' = NoBatch)
          /\ pc' \in {"grow", "process"}
      BY <1>5, <1>8
    <2> QED
      BY <1>3, <1>8, <1>9, <2>1, <2>2, <2>3 DEF StageBatches
  <1>12. FirstPending'
    BY <1>8 DEF FirstPending
  <1>13. Queues'
    <2>1. \A i \in DOMAIN pending' : pending'[i] \in held => pending'[i] \in chunked
      BY <1>4 DEF ToSet
    <2>2. ToSet(pending') \cap (running \cup Whole(inFlight') \cup Whole(due')) = {}
      BY <1>1, <1>4, <1>9 DEF Queues
    <2>3. pc' = "grow" => ToSet(pending') \cap Whole(batch') = {}
      BY <1>1, <1>4, <1>8, <2>2
    <2>4. \A q \in held \cup finishedReqs \cup newFinished \cup ToSet(pending') : Received(q)'
      BY <1>1, <1>3, <1>4 DEF Queues, Received
    <2> QED
      BY <1>3, <1>4, <1>7, <2>1, <2>2, <2>3, <2>4 DEF Queues
  <1>14. Owners'
    <2>1. running \cup chunked \subseteq held /\ InBatch(batch) \subseteq held
          /\ Whole(inFlight) \subseteq held \cup finishedReqs
      BY <1>1 DEF Owners, Freed
    <2>2. DueLeft' \subseteq Whole(due')
      BY DEF DueLeft, Whole
    <2>3. CASE pc' = "grow" /\ UNCHANGED <<batch, inFlight, due>>
      <3>1. Freed' = finishedReqs /\ due'.phase = "none"
        BY <1>3, <1>5, <2>3, NoBatchFacts DEF Freed
      <3> QED
        BY <1>1, <1>3, <1>5, <1>7, <2>1, <2>3, <3>1, NoBatchFacts DEF Owners
    <2>4. CASE pc' = "grow" /\ UNCHANGED <<inFlight, due>> /\ batch'.phase = "decode"
               /\ InBatch(batch') \subseteq running
      <3>1. Freed' = finishedReqs /\ due'.phase = "none"
        BY <1>3, <1>5, <2>4, NoBatchFacts DEF Freed
      <3> QED
        BY <1>1, <1>3, <1>5, <1>7, <2>1, <2>4, <3>1, NoBatchFacts DEF Owners
    <2>5. CASE pc' = "process" /\ batch' = NoBatch /\ due' = inFlight /\ inFlight' = NoBatch
      <3>1. due'.phase = "prefill" => Whole(due') \subseteq held
        BY <1>1, <1>6, <2>5 DEF Owners
      <3>2. Whole(due') \subseteq held \cup finishedReqs
        BY <1>6, <2>1, <2>5
      <3> QED
        BY <1>3, <1>7, <2>1, <2>2, <2>5, <3>1, <3>2, NoBatchFacts DEF Owners
    <2> QED
      BY <1>8, <2>3, <2>4, <2>5
  <1>15. Limits'
    <2>1. \A q : InputLen(q)' = InputLen(q)
      BY <1>3 DEF InputLen
    <2>2. running \cap chunked = {}
      BY <1>1 DEF Queues
    <2>3. \A q \in running : /\ cachedLen[q] < deviceLen[q] /\ deviceLen[q] <= MaxSeqLen
                             /\ maxDeviceLen[q] <= MaxSeqLen
      <3> SUFFICES ASSUME NEW q \in running PROVE deviceLen[q] <= MaxSeqLen
        BY <1>1 DEF Limits
      <3>1. q \in Req /\ deviceLen[q] < maxDeviceLen[q] /\ maxDeviceLen[q] <= MaxSeqLen
        BY <1>1 DEF Limits, LoopType
      <3>2. deviceLen[q] \in Nat /\ maxDeviceLen[q] \in Nat /\ MaxSeqLen \in Int
        BY <1>1, <3>1, MaxSeqLenAssumption DEF LoopType
      <3> QED
        BY <3>1, <3>2
    <2>4. \A q \in chunked : q \in InBatch(batch') => deviceLen[q] < InputLen(q)
      BY <1>1, <1>8, <2>2, NoBatchFacts DEF Limits
    <2>5. \A q \in InBatch(batch') : /\ cachedLen[q] < deviceLen[q] /\ deviceLen[q] <= MaxSeqLen
                                     /\ maxDeviceLen[q] <= MaxSeqLen
      <3>1. \A q \in InBatch(batch) : /\ cachedLen[q] < deviceLen[q] /\ deviceLen[q] <= MaxSeqLen
                                      /\ maxDeviceLen[q] <= MaxSeqLen
        BY <1>1 DEF Limits
      <3> QED
        BY <1>8, <2>3, <3>1, NoBatchFacts
    <2> QED
      BY <1>1, <1>3, <1>4, <1>7, <2>1, <2>4, <2>5 DEF Limits
  <1>16. Rows'
    <2>1. \A q : Covered(q)' = cachedLen[q] /\ Covered(q) = cachedLen[q]
      <3>1. \A q : ~Grown(q)' /\ ~Grown(q)
        <4>1. \A i \in DOMAIN batch'.reqs : ~(i < cursor')
          BY <1>3, <1>8, BatchMembers
        <4> QED
          BY <4>1 DEF Grown
      <3> QED
        BY <1>3, <3>1 DEF Covered
    <2> QED
      BY <1>1, <1>3, <2>1 DEF Rows, Row, PagesOf, DivCeil
  <1> QED
    BY <1>10, <1>11, <1>12, <1>13, <1>14, <1>15, <1>16 DEF LoopInv

\* No request, or no budget, is left.
LEMMA StopAdmittingInv ==
  ASSUME LockInv, LoopInv, StopAdmitting
  PROVE  UNCHANGED cmVars /\ LoopInv'
  <1>1. pc = "admit" /\ CloseBatch /\ UNCHANGED cmVars
    BY DEF StopAdmitting
  <1>2. UNCHANGED <<pageTable, held, handle, slot>>
    BY <1>1 DEF cmVars
  <1> QED
    BY <1>1, <1>2, CloseBatchInv

\* The next request does not fit: no lock of the trial match stays behind.
LEMMA RefuseNewInv ==
  ASSUME LockInv, LoopInv, RefuseNew
  PROVE  CMNext /\ LoopInv'
  <1>1. PICK r : r = NextReq
    OBVIOUS
  <1>2. pc = "admit" /\ HasNext /\ MatchOnly(MatchKey(r)) /\ CloseBatch
    BY <1>1 DEF RefuseNew
  <1>3. LoopType /\ Limits
    BY DEF LoopInv
  <1>4. MatchKey(r) \in Key
    <2>1. r \in Req /\ Received(r) /\ r \in ToSet(pending)
      BY <1>1, <1>2, NextReqFacts
    <2>2. InputLen(r) <= MaxSeqLen
      BY <1>3, <2>1, PromptOf, MaxSeqLenAssumption DEF Limits
    <2> QED
      BY <1>3, <2>1, <2>2, MatchKeyFacts
  <1>5. CMNext
    BY <1>2, <1>4 DEF CMNext, Refuse
  <1>6. UNCHANGED <<pageTable, held, handle, slot>>
    BY <1>2 DEF MatchOnly
  <1> QED
    BY <1>2, <1>5, <1>6, CloseBatchInv

-----------------------------------------------------------------------------
(* Stage grow.                                                             *)

\* The eviction before a batch is prepared takes unlocked pages only.
LEMMA EvictForBatchInv ==
  ASSUME LoopInv, EvictForBatch
  PROVE  [CMNext]_cmVars /\ LoopInv'
  <1>1. LoopType /\ StageBatches /\ FirstPending /\ Queues /\ Owners /\ Limits /\ Rows
    BY DEF LoopInv
  <1>2. /\ EvictLeaf
        /\ UNCHANGED <<pc, msgVars, queueVars, reqVars, adderVars, batchVars, replyVars>>
    BY DEF EvictForBatch
  <1>3. /\ UNCHANGED <<pageTable, held, handle, slot>>
        /\ UNCHANGED <<outputLen, inputIds, cachedLen, deviceLen, maxDeviceLen>>
        /\ UNCHANGED <<pc, pending, chunked, running, batch, inFlight, due, cursor, user, aborted>>
        /\ UNCHANGED <<finishedReqs, newFinished, replies, budget, reserved, chunkedList>>
    BY <1>2 DEF reqVars, replyVars, msgVars, queueVars, adderVars, batchVars, EvictLeaf
  <1>4. CMNext
    BY <1>2 DEF CMNext
  <1>5. LoopType'
    BY <1>1, <1>3 DEF LoopType, BatchType
  <1> QED
    BY <1>1, <1>3, <1>4, <1>5, StageFrame, FirstFrame, QueuesFrame, OwnersFrame, LimitsFrame,
       RowsFrame DEF LoopInv

\* The pages each request of the batch still needs.
LEMMA PagesForFacts ==
  ASSUME LoopInv, NEW i \in DOMAIN batch.reqs
  PROVE  LET r == batch.reqs[i].req IN
         /\ r \in Req /\ r \in InBatch(batch)
         /\ DivCeil(cachedLen[r]) \in Nat /\ DivCeil(deviceLen[r]) \in Nat
         /\ PagesFor(i) = DivCeil(deviceLen[r]) - DivCeil(cachedLen[r]) /\ PagesFor(i) \in Nat
         /\ DivCeil(deviceLen[r]) <= MaxRow
  <1> DEFINE r == batch.reqs[i].req
  <1>1. LoopType /\ Limits
    BY DEF LoopInv
  <1>2. r \in Req /\ r \in InBatch(batch)
    BY <1>1, BatchMembers DEF LoopType
  <1>3. PagesFor(i) = DivCeil(deviceLen[r]) - DivCeil(cachedLen[r])
    BY DEF PagesFor
  <1> HIDE DEF r
  <1>4. cachedLen[r] \in Nat /\ deviceLen[r] \in Nat /\ cachedLen[r] <= deviceLen[r]
        /\ deviceLen[r] <= MaxSeqLen
    BY <1>1, <1>2 DEF LoopType, Limits
  <1>5. /\ DivCeil(cachedLen[r]) \in Nat /\ DivCeil(deviceLen[r]) \in Nat
        /\ DivCeil(cachedLen[r]) <= DivCeil(deviceLen[r]) /\ DivCeil(deviceLen[r]) <= MaxRow
    BY <1>4, CeilFacts, CeilMonotone, CeilFitsRow
  <1>6. DivCeil(deviceLen[r]) - DivCeil(cachedLen[r]) \in Nat
    BY <1>5
  <1> QED
    BY <1>2, <1>3, <1>5, <1>6 DEF r

\* What the batch still needs is a number, at least what its next request needs.
LEMMA NeededAboveFirst ==
  ASSUME LoopInv, cursor <= Len(batch.reqs)
  PROVE  NeededPages \in Int /\ PagesFor(cursor) <= NeededPages
  <1> DEFINE f == [i \in DOMAIN batch.reqs |-> PagesFor(i)]
             S == cursor..Len(batch.reqs)
  <1>1. Len(batch.reqs) \in Nat /\ DOMAIN batch.reqs = 1..Len(batch.reqs) /\ cursor \in Nat \ {0}
    BY BatchMembers DEF LoopInv, LoopType
  <1>2. IsFiniteSet(S) /\ cursor \in S /\ S \subseteq DOMAIN batch.reqs
    BY <1>1, FS_Interval
  <1>3. \A i \in S : f[i] = PagesFor(i) /\ f[i] \in Nat
    BY <1>2, PagesForFacts
  <1>4. NeededPages = SumFunctionOnSet(f, S)
    BY DEF NeededPages
  <1> HIDE DEF f, S
  <1>5. f[cursor] <= SumFunctionOnSet(f, S) /\ SumFunctionOnSet(f, S) \in Int
    BY <1>2, <1>3, SumAboveTerms, SumOfNumbers
  <1> QED
    BY <1>2, <1>3, <1>4, <1>5

\* The next request of the batch gets the free pages its new tokens need.
LEMMA GrowOneInv ==
  ASSUME LockInv, LoopInv, GrowOne
  PROVE  [CMNext]_cmVars /\ LoopInv'
  <1>1. LoopType /\ StageBatches /\ FirstPending /\ Queues /\ Owners /\ Limits /\ Rows
    BY DEF LoopInv
  <1>a. PICK r : r = batch.reqs[cursor].req
    OBVIOUS
  <1>b. PICK n : n = PagesFor(cursor)
    OBVIOUS
  <1>2. /\ pc = "grow" /\ cursor <= Len(batch.reqs) /\ Len(freeSlots) >= NeededPages
        /\ TakePages(r, n) /\ cursor' = cursor + 1
        /\ UNCHANGED <<pc, msgVars, queueVars, reqVars, adderVars, batch, inFlight, due, replyVars>>
    BY <1>a, <1>b DEF GrowOne
  <1>3. /\ UNCHANGED <<outputLen, inputIds, cachedLen, deviceLen, maxDeviceLen>>
        /\ UNCHANGED <<pc, pending, chunked, running, batch, inFlight, due, user, aborted>>
        /\ UNCHANGED <<finishedReqs, newFinished, replies, budget, reserved, chunkedList>>
    BY <1>2 DEF reqVars, replyVars, msgVars, queueVars, adderVars
  <1>4. /\ Len(batch.reqs) \in Nat /\ DOMAIN batch.reqs = 1..Len(batch.reqs) /\ cursor \in Nat \ {0}
        /\ cursor \in DOMAIN batch.reqs
    BY <1>1, <1>2, BatchMembers DEF LoopType
  <1>5. /\ r \in Req /\ r \in InBatch(batch)
        /\ DivCeil(cachedLen[r]) \in Nat /\ DivCeil(deviceLen[r]) \in Nat
        /\ n = DivCeil(deviceLen[r]) - DivCeil(cachedLen[r]) /\ n \in Nat
        /\ DivCeil(deviceLen[r]) <= MaxRow
    BY <1>4, <1>a, <1>b, PagesForFacts
  <1>6. \A i \in DOMAIN batch.reqs : batch.reqs[i].req = r => i = cursor
    BY <1>1, <1>4, <1>a DEF StageBatches, OnceEach
  <1>7. /\ freeSlots \in Seq(Page) /\ pageTable \in [Slot -> Seq(Page)] /\ held \subseteq Req
        /\ \A q \in held : slot[q] \in Slot /\ \A p \in held : slot[p] = slot[q] => p = q
    BY DEF LockInv, CMTypeOK, OneUserPerSlot
  <1>8. /\ n <= NeededPages /\ NeededPages <= Len(freeSlots) /\ Len(freeSlots) \in Nat
           /\ NeededPages \in Int
    <2>1. n <= NeededPages /\ NeededPages \in Int
      BY <1>2, <1>b, NeededAboveFirst
    <2> QED
      BY <1>2, <1>7, <2>1
  <1>9. r \in held /\ Len(Row(r)) = DivCeil(cachedLen[r]) /\ n <= Len(freeSlots)
    <2>1. r \in held
      BY <1>1, <1>2, <1>5 DEF Owners
    <2>2. ~Grown(r)
      BY <1>4, <1>6 DEF Grown
    <2> QED
      BY <1>1, <1>5, <1>8, <2>1, <2>2 DEF Rows, Covered
  <1> DEFINE taken == SubSeq(freeSlots, 1, n)
  <1>10. /\ taken \in Seq(Page) /\ Len(taken) = n
         /\ pageTable' = [pageTable EXCEPT ![slot[r]] = @ \o taken]
         /\ freeSlots' = SubSeq(freeSlots, n + 1, Len(freeSlots))
         /\ UNCHANGED <<tree, tableFree, held, handle, slot>>
    <2>1. n \in 0..Len(freeSlots)
      BY <1>5, <1>7, <1>9
    <2> QED
      BY <1>2, <1>7, <2>1, PagesTaken DEF TakePages
  <1>11. [CMNext]_cmVars
    <2>1. CASE n = 0
      <3>1. freeSlots' = freeSlots /\ taken = <<>>
        BY <1>7, <1>10, <2>1
      <3>2. pageTable[slot[r]] \o <<>> = pageTable[slot[r]]
        BY <1>7, <1>9
      <3> HIDE DEF taken
      <3>3. pageTable' = pageTable
        BY <1>7, <1>9, <1>10, <3>1, <3>2
      <3> QED
        BY <1>10, <3>1, <3>3 DEF cmVars
    <2>2. CASE n # 0
      <3>1. n \in 1..MaxRow /\ Len(Row(r)) + n <= MaxRow
        BY <1>5, <1>9, <2>2, MaxRowAssumption
      <3>2. Grow(r, n)
        BY <1>2, <1>9, <3>1 DEF Grow
      <3> QED
        BY <1>5, <3>1, <3>2 DEF CMNext
    <2> QED
      BY <2>1, <2>2
  <1> HIDE DEF taken
  <1>12. Len(Row(r)') = DivCeil(deviceLen[r])
    <2>1. Row(r)' = Row(r) \o taken /\ Row(r) \in Seq(Page)
      BY <1>7, <1>9, <1>10 DEF Row
    <2> HIDE DEF Row
    <2>2. Len(Row(r) \o taken) = Len(Row(r)) + n
      BY <1>10, <2>1, ConcatFacts
    <2> QED
      BY <1>5, <1>9, <2>1, <2>2
  <1>13. \A q \in held \ {r} : Row(q)' = Row(q)
    BY <1>7, <1>9, <1>10 DEF Row
  <1>14. LoopType'
    <2>1. cursor' \in Nat \ {0}
      BY <1>2, <1>4
    <2> QED
      BY <1>1, <1>3, <2>1 DEF LoopType, BatchType
  <1>15. StageBatches' /\ FirstPending' /\ Queues' /\ Limits'
    BY <1>1, <1>3, <1>10, StageFrame, FirstFrame, QueuesFrame, LimitsFrame
  <1>16. Owners'
    <2>1. Whole(inFlight)' = Whole(inFlight) /\ Whole(due)' = Whole(due)
          /\ InBatch(batch)' = InBatch(batch)
          /\ Freed' = Freed
      BY <1>3 DEF Whole, InBatch, Freed
    <2>2. due.phase = "none" /\ due'.phase = "none"
      BY <1>1, <1>2, <1>3, NoBatchFacts DEF StageBatches
    <2> QED
      BY <1>1, <1>2, <1>3, <1>10, <2>1, <2>2 DEF Owners
  <1>17. Rows'
    <2> SUFFICES ASSUME NEW q \in held
                 PROVE  /\ Len(Row(q)') = DivCeil(Covered(q)')
                        /\ PagesOf(handle[q], inputIds[q])
                        /\ PageSize * Len(handle[q]) <= cachedLen[q] /\ cachedLen[q] <= MaxSeqLen
      BY <1>3, <1>10 DEF Rows, PagesOf, DivCeil
    <2>1. /\ Len(Row(q)) = DivCeil(Covered(q))
          /\ PagesOf(handle[q], inputIds[q])
          /\ PageSize * Len(handle[q]) <= cachedLen[q] /\ cachedLen[q] <= MaxSeqLen
      BY <1>1 DEF Rows
    <2>2. CASE q = r
      <3>1. Grown(r)'
        BY <1>2, <1>3, <1>4, <1>a, <2>2 DEF Grown
      <3>2. Covered(r)' = deviceLen[r]
        BY <1>3, <3>1 DEF Covered
      <3> QED
        BY <1>12, <2>1, <2>2, <3>2
    <2>3. CASE q # r
      <3>1. Grown(q)' <=> Grown(q)
        <4>1. \A i \in DOMAIN batch.reqs : i < cursor + 1 <=> i < cursor \/ i = cursor
          BY <1>4
        <4> QED
          BY <1>2, <1>3, <1>a, <2>3, <4>1 DEF Grown
      <3>2. Covered(q)' = Covered(q)
        BY <1>3, <3>1 DEF Covered
      <3> QED
        BY <1>13, <2>1, <2>3, <3>2
    <2> QED
      BY <2>2, <2>3
  <1> QED
    BY <1>11, <1>14, <1>15, <1>16, <1>17 DEF LoopInv

\* The forward pass: a request in the batch is computed to its device length.
LEMMA ForwardInv ==
  ASSUME LockInv, LoopInv, Forward
  PROVE  UNCHANGED cmVars /\ LoopInv'
  <1>1. LoopType /\ StageBatches /\ FirstPending /\ Queues /\ Owners /\ Limits /\ Rows
    BY DEF LoopInv
  <1>2. /\ pc = "grow" /\ cursor > Len(batch.reqs) /\ pc' = "process" /\ cursor' = 1
           /\ batch' = NoBatch
        /\ cachedLen' = [r \in Req |-> IF r \in InBatch(batch) THEN deviceLen[r] ELSE cachedLen[r]]
        /\ deviceLen' =
             [r \in Req |-> IF r \in InBatch(batch) THEN deviceLen[r] + 1 ELSE deviceLen[r]]
        /\ running' = {r \in running \cup Whole(batch) : CanDecode(r, deviceLen'[r])}
        /\ IF Overlap
           THEN due' = inFlight /\ inFlight' = batch
           ELSE due' = batch /\ UNCHANGED inFlight
        /\ UNCHANGED <<cmVars, msgVars, pending, chunked, outputLen, inputIds, maxDeviceLen,
                       adderVars, replyVars>>
    BY DEF Forward
  <1>3. /\ UNCHANGED <<tree, freeSlots, tableFree, pageTable, held, handle, slot>>
        /\ UNCHANGED <<outputLen, inputIds, maxDeviceLen, pending, chunked, user, aborted>>
        /\ UNCHANGED <<finishedReqs, newFinished, replies, budget, reserved, chunkedList>>
    BY <1>2 DEF replyVars, msgVars, adderVars, cmVars
  <1>4. /\ Len(batch.reqs) \in Nat /\ DOMAIN batch.reqs = 1..Len(batch.reqs) /\ cursor \in Nat
        /\ Whole(batch) \subseteq InBatch(batch) /\ InBatch(batch) \subseteq Req
        /\ BatchType(batch) /\ BatchType(inFlight) /\ held \subseteq Req
    BY <1>1, BatchMembers DEF LoopType, LockInv, CMTypeOK
  <1>5. /\ due = NoBatch /\ newFinished = {} /\ chunkedList = <<>>
           /\ (~Overlap => inFlight = NoBatch)
        /\ OnceEach(batch) /\ OnceEach(inFlight) /\ OnceEach(NoBatch)
    BY <1>1, <1>2, NoBatchFacts DEF StageBatches
  <1>6. \A b, c : (b = c) => Whole(b) = Whole(c) /\ OnceEach(b) = OnceEach(c)
    OBVIOUS
  <1>7. /\ Whole(inFlight)' = IF Overlap THEN Whole(batch) ELSE {}
        /\ Whole(due)' = IF Overlap THEN Whole(inFlight) ELSE Whole(batch)
        /\ InBatch(batch)' = {} /\ Whole(inFlight) \subseteq held \cup finishedReqs
    <2>1. Whole(inFlight) \subseteq held \cup finishedReqs
      BY <1>1, <1>2 DEF Owners, Freed
    <2>2. CASE Overlap
      BY <1>2, <1>6, <2>1, <2>2, NoBatchFacts DEF Whole, InBatch
    <2>3. CASE ~Overlap
      BY <1>2, <1>5, <1>6, <2>1, <2>3, NoBatchFacts DEF Whole, InBatch
    <2> QED
      BY <2>2, <2>3
  <1>8. running' \subseteq running \cup Whole(batch) /\ running' \subseteq Req
    BY <1>1, <1>2, <1>4 DEF LoopType
  <1>9. \A r \in Req : /\ cachedLen'[r] \in Nat /\ deviceLen'[r] \in Nat
                       /\ r \in InBatch(batch) => cachedLen'[r] = deviceLen[r]
                          /\ deviceLen'[r] = deviceLen[r] + 1
                       /\ r \notin InBatch(batch) => cachedLen'[r] = cachedLen[r]
                          /\ deviceLen'[r] = deviceLen[r]
    BY <1>1, <1>2 DEF LoopType
  <1>10. LoopType'
    <2>1. BatchType(batch') /\ BatchType(inFlight') /\ BatchType(due')
      BY <1>2, <1>4, <1>5, NoBatchFacts
    <2>2. cachedLen' \in [Req -> Nat] /\ deviceLen' \in [Req -> Nat]
      BY <1>2, <1>9
    <2>3. cursor' \in Nat \ {0}
      BY <1>2
    <2> QED
      BY <1>1, <1>2, <1>3, <1>8, <2>1, <2>2, <2>3 DEF LoopType, BatchType
  <1>11. StageBatches'
    <2>1. OnceEach(batch') /\ OnceEach(inFlight') /\ OnceEach(due')
      BY <1>2, <1>5
    <2> QED
      BY <1>2, <1>3, <1>5, <2>1 DEF StageBatches, OnceEach, NoBatch
  <1>12. FirstPending'
    BY <1>2 DEF FirstPending
  <1>13. Queues'
    <2>1. \A i \in DOMAIN pending : pending[i] \in held => pending[i] \in chunked
      BY <1>1, <1>2 DEF Queues, NotReached
    <2>2. \A q : Received(q)' <=> Received(q)
      BY <1>3 DEF Received
    <2>3. ToSet(pending) \cap (running' \cup Whole(inFlight)' \cup Whole(due)') = {}
      BY <1>1, <1>2, <1>7, <1>8 DEF Queues
    <2> QED
      BY <1>1, <1>2, <1>3, <2>1, <2>2, <2>3 DEF Queues
  <1>14. Owners'
    <2>1. Whole(batch) \subseteq held
      BY <1>1, <1>2, <1>4 DEF Owners
    <2>2. running' \cup chunked' \subseteq held'
      BY <1>1, <1>3, <1>8, <2>1 DEF Owners
    <2>3. DueLeft' \subseteq Whole(due)'
      BY DEF DueLeft, Whole
    <2>4. Whole(inFlight)' \subseteq held'
      BY <1>3, <1>7, <2>1
    <2>5. inFlight'.phase = "prefill" => Whole(inFlight)' \cap Whole(due)' = {}
      <3>1. CASE Overlap
        <4>1. inFlight'.phase = "prefill" => InBatch(batch) \cap Whole(inFlight) = {}
          BY <1>1, <1>2, <3>1 DEF Owners
        <4> QED
          BY <1>4, <1>7, <3>1, <4>1
      <3>2. CASE ~Overlap
        BY <1>7, <3>2
      <3> QED
        BY <3>1, <3>2
    <2>6. DueLeft' \subseteq held' \cup finishedReqs'
      BY <1>3, <1>7, <2>1, <2>3
    <2>7. due'.phase = "prefill" => DueLeft' \subseteq held'
      <3>1. CASE Overlap
        <4>1. due'.phase = "prefill" => Whole(inFlight) \subseteq held
          BY <1>1, <1>2, <3>1 DEF Owners
        <4> QED
          BY <1>3, <1>7, <2>3, <3>1, <4>1
      <3>2. CASE ~Overlap
        BY <1>3, <1>7, <2>1, <2>3, <3>2
      <3> QED
        BY <3>1, <3>2
    <2> QED
      BY <1>2, <1>7, <2>2, <2>4, <2>5, <2>6, <2>7 DEF Owners
  <1>15. Limits'
    <2>1. \A r : InputLen(r)' = InputLen(r)
      BY <1>3 DEF InputLen
    <2>2. ASSUME NEW r \in chunked
          PROVE  cachedLen'[r] < InputLen(r)
      BY <1>1, <1>9 DEF Limits, LoopType
    <2>3. ASSUME NEW r \in running'
          PROVE  /\ cachedLen'[r] < deviceLen'[r] /\ deviceLen'[r] < maxDeviceLen[r]
                 /\ maxDeviceLen[r] <= MaxSeqLen
      <3>0. r \in Req /\ cachedLen[r] \in Nat /\ deviceLen[r] \in Nat /\ maxDeviceLen[r] \in Nat
        BY <1>1, <1>8 DEF LoopType
      <3>1. CASE r \in InBatch(batch)
        <4>1. deviceLen'[r] \in Nat /\ cachedLen'[r] = deviceLen[r]
              /\ deviceLen'[r] = deviceLen[r] + 1
              /\ maxDeviceLen[r] <= MaxSeqLen
          BY <1>1, <1>9, <3>0, <3>1 DEF Limits
        <4>2. maxDeviceLen'[r] - deviceLen'[r] > 0
          BY <1>2, <1>3 DEF CanDecode
        <4> QED
          BY <1>3, <3>0, <4>1, <4>2
      <3>2. CASE r \notin InBatch(batch)
        BY <1>1, <1>4, <1>8, <1>9, <3>0, <3>2 DEF Limits
      <3> QED
        BY <3>1, <3>2
    <2> QED
      BY <1>1, <1>3, <1>7, <2>1, <2>2, <2>3 DEF Limits
  <1>16. Rows'
    <2> SUFFICES ASSUME NEW q \in held
                 PROVE  /\ Len(Row(q)) = DivCeil(cachedLen'[q])
                        /\ PagesOf(handle[q], inputIds[q])
                        /\ PageSize * Len(handle[q]) <= cachedLen'[q] /\ cachedLen'[q] <= MaxSeqLen
      BY <1>2, <1>3 DEF Rows, PagesOf, DivCeil, Row, Covered, Grown
    <2>1. /\ Len(Row(q)) = DivCeil(Covered(q))
          /\ PagesOf(handle[q], inputIds[q])
          /\ PageSize * Len(handle[q]) <= cachedLen[q] /\ cachedLen[q] <= MaxSeqLen
      BY <1>1 DEF Rows
    <2>2. Grown(q) <=> q \in InBatch(batch)
      BY <1>2, <1>4 DEF Grown, InBatch
    <2>3. CASE q \in InBatch(batch)
      <3>1. cachedLen[q] < deviceLen[q] /\ deviceLen[q] <= MaxSeqLen /\ q \in Req
        BY <1>1, <1>4, <2>3 DEF Limits
      <3>2. cachedLen[q] \in Nat /\ deviceLen[q] \in Nat /\ cachedLen'[q] = deviceLen[q]
        BY <1>1, <1>9, <2>3, <3>1 DEF LoopType
      <3>3. PageSize * Len(handle[q]) \in Nat
        BY HandlesCached, TimesMonotone
      <3>4. PageSize * Len(handle[q]) <= deviceLen[q] /\ MaxSeqLen \in Int
        BY <2>1, <3>1, <3>2, <3>3, MaxSeqLenAssumption
      <3> QED
        BY <2>1, <2>2, <2>3, <3>1, <3>2, <3>4 DEF Covered
    <2>4. CASE q \notin InBatch(batch)
      BY <1>4, <1>9, <2>1, <2>2, <2>4 DEF Covered
    <2> QED
      BY <2>3, <2>4
  <1> QED
    BY <1>3, <1>10, <1>11, <1>12, <1>13, <1>14, <1>15, <1>16 DEF LoopInv, cmVars

-----------------------------------------------------------------------------
(* Stage process.                                                          *)

\* A reply is sent for a due request.
LEMMA ReplyType ==
  ASSUME LoopType, NEW r \in Req, NEW fin \in BOOLEAN
  PROVE  [replies EXCEPT ![r] = Reply(r, fin)] \in [Req -> [sent : Nat, done : BOOLEAN, late : Nat]]
  <1>1. replies \in [Req -> [sent : Nat, done : BOOLEAN, late : Nat]]
    BY DEF LoopType
  <1>2. replies[r].sent \in Nat /\ replies[r].done \in BOOLEAN /\ replies[r].late \in Nat
    BY <1>1
  <1>3. /\ replies[r].sent + 1 \in Nat /\ (replies[r].done \/ fin) \in BOOLEAN
        /\ replies[r].late + (IF replies[r].done \/ r \in aborted THEN 1 ELSE 0) \in Nat
    BY <1>2
  <1>4. Reply(r, fin) \in [sent : Nat, done : BOOLEAN, late : Nat]
    BY <1>3 DEF Reply
  <1> HIDE DEF Reply
  <1> QED
    BY <1>1, <1>4

\* The request whose result is looked at is in no list but running, and is looked at once.
LEMMA DueReqFacts ==
  ASSUME LoopInv, pc = "process", cursor <= Len(due.reqs), ~due.reqs[cursor].chunked,
         NEW r, r = due.reqs[cursor].req
  PROVE  /\ r \in Req /\ r \in DueLeft /\ r \in Whole(due) /\ r \notin ToSet(pending)
            /\ r \notin chunked
         /\ cursor \in Nat \ {0} /\ cursor + 1 \in Nat \ {0}
         /\ \A j \in DOMAIN due.reqs : j >= cursor + 1 => j >= cursor /\ due.reqs[j].req # r
  <1>1. LoopType /\ StageBatches /\ Queues
    BY DEF LoopInv
  <1>2. /\ DOMAIN due.reqs = 1..Len(due.reqs) /\ Len(due.reqs) \in Nat /\ cursor \in Nat \ {0}
        /\ \A i \in DOMAIN due.reqs : due.reqs[i].req \in Req
    BY <1>1, BatchMembers DEF LoopType
  <1>3. cursor \in DOMAIN due.reqs
    BY <1>2
  <1>4. r \in Req /\ r \in DueLeft /\ r \in Whole(due)
    <2>1. cursor >= cursor
      BY <1>2
    <2> QED
      BY <1>2, <1>3, <2>1 DEF DueLeft, Whole
  <1>5. r \notin ToSet(pending) /\ r \notin chunked
    BY <1>1, <1>4 DEF Queues
  <1>6. ASSUME NEW j \in DOMAIN due.reqs, j >= cursor + 1 PROVE j >= cursor /\ due.reqs[j].req # r
    <2>1. j \in Nat /\ j >= cursor /\ j # cursor
      BY <1>2, <1>6
    <2> QED
      BY <1>1, <1>3, <2>1 DEF StageBatches, OnceEach
  <1> QED
    BY <1>2, <1>4, <1>5, <1>6

\* What a look at one result keeps, whether or not the request ends with it.
LEMMA ResultInv ==
  ASSUME LockInv, LoopInv, pc = "process", cursor <= Len(due.reqs), ~due.reqs[cursor].chunked,
         NEW r, r = due.reqs[cursor].req, NEW token \in Token,
         inputIds' = [inputIds EXCEPT ![r] = Append(inputIds[r], token)],
         cursor' = cursor + 1,
         replies' \in [Req -> [sent : Nat, done : BOOLEAN, late : Nat]],
         UNCHANGED <<pc, user, aborted, pending, chunked, outputLen, cachedLen, deviceLen,
                     maxDeviceLen>>,
         UNCHANGED <<budget, reserved, chunkedList, batch, inFlight, due, finishedReqs>>,
         UNCHANGED <<pageTable, slot>>,
         held' \subseteq held, running' \subseteq running,
         \/ held' = held /\ newFinished' = newFinished
         \/ /\ r \in held /\ held' = held \ {r} /\ running' = running \ {r}
            /\ newFinished' = newFinished \cup {r},
         \A q \in held \ {r} : handle'[q] = handle[q],
         r \in held' => /\ PagesOf(handle'[r], Append(inputIds[r], token))
                        /\ PageSize * Len(handle'[r]) <= cachedLen[r]
  PROVE  LoopInv'
  <1>1. LoopType /\ StageBatches /\ FirstPending /\ Queues /\ Owners /\ Limits /\ Rows
    BY DEF LoopInv
  <1>2. /\ r \in Req /\ r \in DueLeft /\ r \in Whole(due) /\ r \notin ToSet(pending)
           /\ r \notin chunked
        /\ cursor \in Nat \ {0} /\ cursor' \in Nat \ {0}
        /\ \A j \in DOMAIN due.reqs : j >= cursor' => j >= cursor /\ due.reqs[j].req # r
    BY DueReqFacts
  <1>3. /\ inputIds' \in [Req -> Seq(Token)] /\ inputIds'[r] = Append(inputIds[r], token)
        /\ \A q \in Req \ {r} : inputIds'[q] = inputIds[q]
    <2>1. inputIds \in [Req -> Seq(Token)] /\ r \in Req
      BY <1>1, <1>2 DEF LoopType
    <2>2. Append(inputIds[r], token) \in Seq(Token)
      BY <2>1
    <2> QED
      BY <2>1, <2>2
  <1>4. batch = NoBatch /\ batch' = NoBatch /\ InBatch(batch) = {} /\ InBatch(batch)' = {}
    BY <1>1, NoBatchFacts DEF StageBatches, InBatch
  <1>5. /\ Whole(inFlight)' = Whole(inFlight) /\ Whole(due)' = Whole(due)
        /\ \A q : (Received(q)' <=> Received(q)) /\ InputLen(q)' = InputLen(q)
    BY DEF Whole, Received, InputLen
  <1>6. newFinished' \subseteq newFinished \cup {r} /\ held \subseteq held' \cup {r}
        /\ (r \in held' \/ r \notin held \/ (r \in newFinished' /\ r \notin running'))
        /\ newFinished \subseteq newFinished'
    OBVIOUS
  <1>7. LoopType'
    <2>1. newFinished' \subseteq Req /\ running' \subseteq Req
      BY <1>1, <1>2, <1>6 DEF LoopType
    <2> QED
      BY <1>1, <1>2, <1>3, <2>1 DEF LoopType, BatchType
  <1>8. StageBatches'
    <2>1. due # NoBatch
      <3>1. Len(due.reqs) # 0
        BY <1>1, <1>2, BatchMembers DEF LoopType
      <3> QED
        BY <3>1, NoBatchFacts
    <2>2. due' # NoBatch /\ NoBatch' = NoBatch
      BY <2>1 DEF NoBatch
    <2>3. OnceEach(batch)' /\ OnceEach(inFlight)' /\ OnceEach(due)'
      BY <1>1 DEF StageBatches, OnceEach
    <2> QED
      BY <1>1, <1>4, <2>2, <2>3 DEF StageBatches
  <1>9. FirstPending'
    BY DEF FirstPending
  <1>10. Queues'
    <2>1. \A i \in DOMAIN pending : pending[i] \in held => pending[i] \in chunked
      BY <1>1 DEF Queues, NotReached
    <2>2. \A q \in held \cup finishedReqs \cup newFinished \cup ToSet(pending) : Received(q)
      BY <1>1 DEF Queues
    <2>3. \A q \in held' \cup finishedReqs \cup newFinished' \cup ToSet(pending) : Received(q)
      BY <2>2
    <2> QED
      BY <1>1, <1>5, <2>1, <2>3 DEF Queues
  <1>11. Owners'
    <2>1. running' \cup chunked \subseteq held'
      BY <1>1, <1>2 DEF Owners
    <2>2. Whole(inFlight) \subseteq held' \cup newFinished'
      BY <1>1, <1>6 DEF Owners, Freed
    <2>3. inFlight.phase = "prefill" => /\ Whole(inFlight) \subseteq held'
                                        /\ Whole(inFlight) \cap Whole(due) = {}
      BY <1>1, <1>2, <1>6 DEF Owners
    <2>4. DueLeft' \subseteq DueLeft /\ r \notin DueLeft'
      <3>1. DueLeft' = {due.reqs[i].req :
                          i \in {j \in DOMAIN due.reqs : j >= cursor' /\ ~due.reqs[j].chunked}}
        BY DEF DueLeft
      <3> QED
        BY <1>2, <3>1 DEF DueLeft
    <2>5. DueLeft' \subseteq held' \cup finishedReqs
          /\ (due.phase = "prefill" => DueLeft' \subseteq held')
      BY <1>1, <1>6, <2>4 DEF Owners
    <2>6. Freed' = newFinished' /\ batch.phase = "none"
      BY <1>4, NoBatchFacts DEF Freed
    <2> QED
      BY <1>5, <2>1, <2>2, <2>3, <2>5, <2>6 DEF Owners
  <1>12. Limits'
    <2>1. \A q \in chunked : inputIds'[q] = inputIds[q]
      BY <1>1, <1>2, <1>3 DEF LoopType
    <2> QED
      BY <1>1, <1>4, <1>5, <2>1 DEF Limits
  <1>13. Rows'
    <2>1. \A q : Covered(q)' = cachedLen[q] /\ Covered(q) = cachedLen[q] /\ Row(q)' = Row(q)
      BY DEF Covered, Grown, Row
    <2> SUFFICES ASSUME NEW q \in held'
                 PROVE  /\ Len(Row(q)) = DivCeil(cachedLen[q])
                        /\ PagesOf(handle'[q], inputIds'[q])
                        /\ PageSize * Len(handle'[q]) <= cachedLen[q] /\ cachedLen[q] <= MaxSeqLen
      BY <2>1 DEF Rows, PagesOf, DivCeil
    <2>2. /\ Len(Row(q)) = DivCeil(cachedLen[q])
          /\ PagesOf(handle[q], inputIds[q])
          /\ PageSize * Len(handle[q]) <= cachedLen[q] /\ cachedLen[q] <= MaxSeqLen
      BY <1>1, <2>1 DEF Rows
    <2>3. CASE q = r
      BY <1>3, <2>2, <2>3
    <2>4. CASE q # r
      <3>1. q \in Req \ {r} /\ q \in held \ {r}
        BY <2>4 DEF LockInv, CMTypeOK
      <3> QED
        BY <1>3, <2>2, <3>1
    <2> QED
      BY <2>3, <2>4
  <1> QED
    BY <1>7, <1>8, <1>9, <1>10, <1>11, <1>12, <1>13 DEF LoopInv

\* What cache_req is called with when a result is processed is within the contract.
LEMMA ResultKey ==
  ASSUME LockInv, LoopInv, pc = "process", NEW r \in held, NEW token \in Token,
         NEW ids, ids = Append(inputIds[r], token), NEW key, key = CacheKey(ids, r)
  PROVE  /\ handle[r] \in Seq(Block) /\ PagesOf(handle[r], ids)
            /\ PageSize * Len(handle[r]) <= cachedLen[r]
         /\ Cacheable(r, key) /\ key \in Key
         /\ PagesOf(key, ids) /\ PageSize * Len(key) <= cachedLen[r]
  <1>1. inputIds[r] \in Seq(Token) /\ ids \in Seq(Token) /\ cachedLen[r] \in Nat
    <2>1. r \in Req
      BY DEF LockInv, CMTypeOK
    <2> QED
      BY <2>1 DEF LoopInv, LoopType
  <1>2. handle[r] \in Seq(Block) /\ PagesOf(handle[r], inputIds[r])
        /\ PageSize * Len(handle[r]) <= cachedLen[r]
    BY HandlesCached DEF LoopInv, Rows
  <1>3. PagesOf(handle[r], ids)
    BY <1>1, <1>2, PagesOfAppend
  <1>4. Cacheable(r, key) /\ key \in Key
    BY <1>1, <1>3, CacheKeyInContract
  <1>5. PagesOf(key, ids) /\ PageSize * Len(key) <= cachedLen[r]
    BY <1>1, <1>2, <1>3, CacheKeyFacts
  <1> QED
    BY <1>2, <1>3, <1>4, <1>5

\* A result ends its request at most once; the key it is cached under is within its row.
LEMMA ProcessReqInv ==
  ASSUME LockInv, LoopInv, NEW token \in Token, ProcessReq(token)
  PROVE  [CMNext]_cmVars /\ LoopInv'
  <1>1. LoopType /\ StageBatches /\ FirstPending /\ Queues /\ Owners /\ Limits /\ Rows
    BY DEF LoopInv
  <1>2. PICK r : r = due.reqs[cursor].req
    OBVIOUS
  <1>3. PICK ids : ids = Append(inputIds[r], token)
    OBVIOUS
  <1>4. PICK key : key = CacheKey(ids, r)
    OBVIOUS
  <1>5. /\ pc = "process" /\ cursor <= Len(due.reqs) /\ ~due.reqs[cursor].chunked
        /\ inputIds' = [inputIds EXCEPT ![r] = ids]
        /\ replies' = [replies EXCEPT ![r] = Reply(r, Ends(r, token))]
        /\ \/ r \notin finishedReqs /\ Finish(r, key)
           \/ /\ IF due.phase = "prefill" THEN CacheUnfinished(r, key) ELSE UNCHANGED cmVars
              /\ UNCHANGED <<running, newFinished>>
        /\ cursor' = cursor + 1
    BY <1>2, <1>3, <1>4 DEF ProcessReq, AlreadyFreed
  <1>6. /\ UNCHANGED <<pc, user, aborted, pending, chunked, outputLen, cachedLen, deviceLen,
                       maxDeviceLen>>
        /\ UNCHANGED <<budget, reserved, chunkedList, batch, inFlight, due, finishedReqs>>
    BY DEF ProcessReq, msgVars, adderVars
  <1>7. r \in Req /\ r \in DueLeft
    BY <1>2, <1>5, DueReqFacts
  <1>8. replies' \in [Req -> [sent : Nat, done : BOOLEAN, late : Nat]]
    <2>1. Ends(r, token) \in BOOLEAN
      BY DEF Ends
    <2> QED
      BY <1>1, <1>5, <1>7, <2>1, ReplyType
  <1>9. inputIds[r] \in Seq(Token) /\ ids \in Seq(Token) /\ cachedLen[r] \in Nat
    BY <1>1, <1>3, <1>7 DEF LoopType
  <1>10. ASSUME r \in held
         PROVE  /\ handle[r] \in Seq(Block) /\ PagesOf(handle[r], ids)
                   /\ PageSize * Len(handle[r]) <= cachedLen[r]
                /\ Cacheable(r, key) /\ key \in Key
                /\ PagesOf(key, ids) /\ PageSize * Len(key) <= cachedLen[r]
    BY <1>3, <1>4, <1>5, <1>10, ResultKey
  <1>11. handle \in [Req -> Seq(Block)]
    BY DEF LockInv, CMTypeOK
  <1>12. CASE r \notin finishedReqs /\ Finish(r, key)
    <2>1. r \in held
      BY <1>1, <1>5, <1>7, <1>12 DEF Owners
    <2>2. /\ FreeResources(r, key) /\ running' = running \ {r}
             /\ newFinished' = newFinished \cup {r}
          /\ held' = held \ {r} /\ UNCHANGED <<pageTable, handle, slot>>
      BY <1>12 DEF Finish, FreeResources
    <2>3. CMNext
      BY <1>7, <1>10, <2>1, <2>2 DEF CMNext, Release
    <2>4. LoopInv'
      BY <1>2, <1>3, <1>5, <1>6, <1>8, <2>1, <2>2, ResultInv
    <2> QED
      BY <2>3, <2>4
  <1>13. CASE due.phase = "prefill" /\ CacheUnfinished(r, key) /\ UNCHANGED <<running, newFinished>>
    <2>1. r \in held
      BY <1>1, <1>7, <1>13 DEF Owners
    <2>2. handle' = [handle EXCEPT ![r] = key] /\ UNCHANGED <<tableFree, pageTable, held, slot>>
      BY <1>13 DEF CacheUnfinished
    <2>3. CMNext
      BY <1>7, <1>10, <1>13, <2>1 DEF CMNext, Extend
    <2>4. handle'[r] = key /\ \A q \in held \ {r} : handle'[q] = handle[q]
      <3>1. held \subseteq Req
        BY DEF LockInv, CMTypeOK
      <3> QED
        BY <1>7, <1>11, <2>2, <3>1
    <2>5. LoopInv'
      BY <1>2, <1>3, <1>5, <1>6, <1>8, <1>10, <1>13, <2>1, <2>2, <2>4, ResultInv
    <2> QED
      BY <2>3, <2>5
  <1>14. CASE UNCHANGED cmVars /\ UNCHANGED <<running, newFinished>>
    <2>1. UNCHANGED <<pageTable, held, handle, slot>>
      BY <1>14 DEF cmVars
    <2>2. LoopInv'
      BY <1>2, <1>3, <1>5, <1>6, <1>8, <1>10, <1>14, <2>1, ResultInv
    <2> QED
      BY <1>14, <2>2
  <1> QED
    BY <1>5, <1>12, <1>13, <1>14

\* A chunk that is not the last has no result to process.
LEMMA SkipChunkInv ==
  ASSUME LoopInv, SkipChunk
  PROVE  UNCHANGED cmVars /\ LoopInv'
  <1>1. LoopType /\ StageBatches /\ FirstPending /\ Queues /\ Owners /\ Limits /\ Rows
    BY DEF LoopInv
  <1>2. /\ pc = "process" /\ cursor' = cursor + 1 /\ due.reqs[cursor].chunked
        /\ UNCHANGED <<cmVars, pc, msgVars, queueVars, reqVars, adderVars, batch, inFlight, due,
                       replyVars>>
    BY DEF SkipChunk
  <1>3. /\ UNCHANGED <<tree, freeSlots, tableFree, pageTable, held, handle, slot>>
        /\ UNCHANGED <<outputLen, inputIds, cachedLen, deviceLen, maxDeviceLen>>
        /\ UNCHANGED <<pc, pending, chunked, running, batch, inFlight, due, user, aborted>>
        /\ UNCHANGED <<finishedReqs, newFinished, replies, budget, reserved, chunkedList>>
    BY <1>2 DEF reqVars, replyVars, msgVars, queueVars, adderVars, cmVars
  <1>4. LoopType'
    <2>1. cursor' \in Nat \ {0}
      BY <1>1, <1>2 DEF LoopType
    <2> QED
      BY <1>1, <1>3, <2>1 DEF LoopType, BatchType
  <1>5. StageBatches' /\ FirstPending' /\ Queues' /\ Limits'
    BY <1>1, <1>3, StageFrame, FirstFrame, QueuesFrame, LimitsFrame
  <1>6. Owners'
    <2>1. DueLeft' \subseteq DueLeft
      <3>1. \A j \in Nat : j >= cursor' => j >= cursor
        BY <1>1, <1>2 DEF LoopType
      <3>2. DOMAIN due.reqs \subseteq Nat
        BY <1>1, BatchMembers DEF LoopType
      <3> QED
        BY <1>3, <3>1, <3>2 DEF DueLeft
    <2>2. Whole(inFlight)' = Whole(inFlight) /\ Whole(due)' = Whole(due)
          /\ InBatch(batch)' = InBatch(batch)
          /\ Freed' = Freed
      BY <1>3 DEF Whole, InBatch, Freed
    <2> QED
      BY <1>1, <1>3, <2>1, <2>2 DEF Owners
  <1>7. Rows'
    BY <1>1, <1>2, <1>3 DEF Rows, Row, Covered, Grown, DivCeil, PagesOf
  <1> QED
    BY <1>3, <1>4, <1>5, <1>6, <1>7 DEF LoopInv, cmVars

\* The batch is done: finished_reqs has the requests the batch in flight must skip.
LEMMA EndProcessInv ==
  ASSUME LoopInv, EndProcess
  PROVE  UNCHANGED cmVars /\ LoopInv'
  <1>1. LoopType /\ StageBatches /\ FirstPending /\ Queues /\ Owners /\ Limits /\ Rows
    BY DEF LoopInv
  <1>2. /\ pc = "process" /\ pc' = "receive" /\ cursor' = 1 /\ due' = NoBatch /\ newFinished' = {}
        /\ finishedReqs' = IF due = NoBatch THEN finishedReqs ELSE newFinished
        /\ UNCHANGED <<cmVars, msgVars, queueVars, reqVars, adderVars, batch, inFlight, replies>>
    BY DEF EndProcess
  <1>3. /\ UNCHANGED <<tree, freeSlots, tableFree, pageTable, held, handle, slot>>
        /\ UNCHANGED <<outputLen, inputIds, cachedLen, deviceLen, maxDeviceLen>>
        /\ UNCHANGED <<pending, chunked, running, batch, inFlight, user, aborted>>
        /\ UNCHANGED <<replies, budget, reserved, chunkedList>>
    BY <1>2 DEF reqVars, msgVars, queueVars, adderVars, cmVars
  <1>4. batch = NoBatch /\ chunkedList = <<>> /\ InBatch(batch) = {}
    BY <1>1, <1>2, NoBatchFacts DEF StageBatches
  <1>5. LoopType'
    <2>1. BatchType(due') /\ cursor' \in Nat \ {0} /\ finishedReqs' \subseteq Req
          /\ newFinished' \subseteq Req
      BY <1>1, <1>2, NoBatchFacts DEF LoopType
    <2> QED
      BY <1>1, <1>2, <1>3, <2>1 DEF LoopType, BatchType
  <1>6. StageBatches'
    <2>1. OnceEach(due')
      BY <1>2, NoBatchFacts
    <2> QED
      BY <1>1, <1>2, <1>3, <1>4, <2>1 DEF StageBatches, OnceEach, NoBatch
  <1>7. FirstPending' /\ Limits'
    BY <1>1, <1>2, <1>3, LimitsFrame DEF FirstPending
  <1>8. Whole(inFlight)' = Whole(inFlight) /\ Whole(due)' = {} /\ InBatch(batch)' = InBatch(batch)
    BY <1>2, <1>3, NoBatchFacts DEF Whole, InBatch
  <1>9. Queues'
    <2>1. \A i \in DOMAIN pending : pending[i] \in held => pending[i] \in chunked
      BY <1>1, <1>2 DEF Queues, NotReached
    <2>2. \A q : Received(q)' <=> Received(q)
      BY <1>3 DEF Received
    <2> QED
      BY <1>1, <1>2, <1>3, <1>8, <2>1, <2>2 DEF Queues
  <1>10. Owners'
    <2>1. Whole(inFlight) \subseteq held \cup newFinished
      BY <1>1, <1>2 DEF Owners, Freed
    <2>2. newFinished \subseteq finishedReqs'
      BY <1>1, <1>2 DEF StageBatches
    <2>3. DueLeft' = {}
      BY <1>2, NoBatchFacts DEF DueLeft
    <2>4. Freed' = finishedReqs'
      BY <1>2 DEF Freed
    <2> QED
      BY <1>1, <1>2, <1>3, <1>4, <1>8, <2>1, <2>2, <2>3, <2>4 DEF Owners
  <1>11. Rows'
    BY <1>1, <1>2, <1>3 DEF Rows, Row, Covered, Grown, DivCeil, PagesOf
  <1> QED
    BY <1>3, <1>5, <1>6, <1>7, <1>9, <1>10, <1>11 DEF LoopInv, cmVars

-----------------------------------------------------------------------------
(* The theorems.                                                           *)

\* Where the code keeps to the contract: an abort while a batch is in flight breaks it.
NoAbortInFlight == Overlap => MaxAborts = 0

SchedInv == LockInv /\ LoopInv

\* A step of the loop keeps the invariant, and is a step of the contract or a stutter.
LEMMA SchedStep ==
  ASSUME NoAbortInFlight, SchedInv, [Next]_vars
  PROVE  SchedInv' /\ [CMNext]_cmVars
  <1>1. LockInv /\ LoopInv
    BY DEF SchedInv
  <1>2. [CMNext]_cmVars /\ LoopInv'
    <2>1. CASE UNCHANGED vars
      <3>1. /\ UNCHANGED <<tree, freeSlots, tableFree, pageTable, held, handle, slot>>
            /\ UNCHANGED <<outputLen, inputIds, cachedLen, deviceLen, maxDeviceLen>>
            /\ UNCHANGED <<pc, pending, chunked, running, batch, inFlight, due, cursor, user,
                           aborted>>
            /\ UNCHANGED <<finishedReqs, newFinished, replies, budget, reserved, chunkedList>>
        BY <2>1 DEF vars, cmVars, msgVars, queueVars, reqVars, adderVars, batchVars, replyVars
      <3>2. LoopType /\ StageBatches /\ FirstPending /\ Queues /\ Owners /\ Limits /\ Rows
        BY <1>1 DEF LoopInv
      <3>3. LoopType'
        BY <3>1, <3>2 DEF LoopType, BatchType
      <3>4. LoopInv'
        BY <3>1, <3>2, <3>3, StageFrame, FirstFrame, QueuesFrame, OwnersFrame, LimitsFrame,
           RowsFrame DEF LoopInv
      <3> QED
        BY <3>1, <3>4 DEF cmVars
    <2>2. ASSUME NEW r \in Req, ReceiveUser(r) PROVE [CMNext]_cmVars /\ LoopInv'
      BY <1>1, <2>2, ReceiveUserInv
    <2>3. ASSUME NEW r \in Req, ReceiveAbort(r) PROVE [CMNext]_cmVars /\ LoopInv'
      BY <1>1, <2>3, ReceiveAbortInv DEF NoAbortInFlight
    <2>4. CASE BeginSchedule
      BY <1>1, <2>4, BeginScheduleInv
    <2>5. CASE ContinueChunk
      BY <1>1, <2>5, ContinueChunkInv
    <2>6. CASE AdmitNew
      BY <1>1, <2>6, AdmitNewInv
    <2>7. CASE RefuseNew
      BY <1>1, <2>7, RefuseNewInv
    <2>8. CASE StopAdmitting
      BY <1>1, <2>8, StopAdmittingInv
    <2>9. CASE EvictForBatch
      BY <1>1, <2>9, EvictForBatchInv
    <2>10. CASE GrowOne
      BY <1>1, <2>10, GrowOneInv
    <2>11. CASE Forward
      BY <1>1, <2>11, ForwardInv
    <2>12. CASE SkipChunk
      BY <1>1, <2>12, SkipChunkInv
    <2>13. ASSUME NEW token \in Token, ProcessReq(token) PROVE [CMNext]_cmVars /\ LoopInv'
      BY <1>1, <2>13, ProcessReqInv
    <2>14. CASE EndProcess
      BY <1>1, <2>14, EndProcessInv
    <2>15. CASE Idle
      BY <2>1, <2>15 DEF Idle
    <2> QED
      BY <2>1, <2>2, <2>3, <2>4, <2>5, <2>6, <2>7, <2>8, <2>9, <2>10, <2>11, <2>12, <2>13,
         <2>14, <2>15 DEF Next, Loop
  <1> QED
    BY <1>1, <1>2, StepLockInv DEF SchedInv

\* The inductive invariant.
LEMMA SchedInvariant == NoAbortInFlight /\ Spec => []SchedInv
  <1> SUFFICES ASSUME NoAbortInFlight PROVE Spec => []SchedInv
    OBVIOUS
  <1>1. Init => SchedInv
    BY InitLoopInv DEF SchedInv
  <1>2. SchedInv /\ [Next]_vars => SchedInv'
    BY SchedStep
  <1> QED
    BY <1>1, <1>2, PTL DEF Spec

\* Every call the loop makes on the cache manager and the page table is within the
\* contract these are proved correct for.
THEOREM SchedulerKeepsContract == NoAbortInFlight /\ Spec => CMSpec
  <1> SUFFICES ASSUME NoAbortInFlight PROVE Spec => CMSpec
    OBVIOUS
  <1>1. Init => CMInit
    BY DEF Init
  <1>2. SchedInv /\ [Next]_vars => [CMNext]_cmVars
    BY SchedStep
  <1>3. Spec => []SchedInv
    BY SchedInvariant
  <1> QED
    BY <1>1, <1>2, <1>3, PTL DEF Spec, CMSpec

\* Every variable of the loop and of its memory has its type: no list, length or batch
\* leaves the sets declared for it.
THEOREM SchedulerTypes == NoAbortInFlight /\ Spec => []TypeOK
  <1>1. SchedInv => TypeOK
    BY DEF SchedInv, LockInv, LoopInv, LoopType, BatchType, TypeOK
  <1> QED
    BY <1>1, SchedInvariant, PTL

\* No page is lost or owned twice, and no slot has two users, whatever the clients send.
THEOREM SchedulerPages ==
  NoAbortInFlight /\ Spec => [](OneOwnerPerPage /\ NoPageLost /\ OneUserPerSlot)
  BY SchedulerKeepsContract, PagesOwnedOnce, PagesNeverLost, SlotsApart, PTL
=============================================================================

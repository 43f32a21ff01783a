---------------------------- MODULE CacheManager ----------------------------
(***************************************************************************)
(* scheduler/cache.py (CacheManager) over the radix tree, together with    *)
(* the request slots of scheduler/table.py: everything a request owns on   *)
(* the device, and the only operations that move a page or a slot.         *)
(*                                                                         *)
(* The first half of the module is what each operation does.  The second   *)
(* half is the contract: a caller that admits a request once, grows it,    *)
(* caches ever longer prefixes of it and releases it once.                 *)
(***************************************************************************)
EXTENDS RadixTree

CONSTANTS
  Block,        \* a page worth of tokens
  NumPages,     \* CacheManager.num_pages
  MaxRunning,   \* TableManager._max_running_reqs
  Req,          \* requests (Req objects; all ChunkedReqs of one uid count as one)
  Key,          \* the keys callers use: some sequences of blocks
  MaxRow        \* longest row of the page table, in pages

ASSUME NumPagesAssumption   == NumPages \in Nat
ASSUME MaxRunningAssumption == MaxRunning \in Nat
ASSUME ReqAssumption        == IsFiniteSet(Req)
ASSUME KeyAssumption        == Key \subseteq Seq(Block)
ASSUME MaxRowAssumption     == MaxRow \in Nat

VARIABLES
  tree,       \* prefix_cache
  freeSlots,  \* CacheManager.free_slots: a FIFO list of pages
  tableFree,  \* TableManager._free_slots: a LIFO list of slots
  pageTable,  \* slot -> the pages its present user was given, in order. What a
              \* former user left further right is always rewritten before it is read.
  held,       \* requests that own a slot, a lock and pages
  handle,     \* Req.cache_handle, as the key it locks
  slot        \* Req.table_idx

cmVars == <<tree, freeSlots, tableFree, pageTable, held, handle, slot>>

Page == 0..(NumPages - 1)
Slot == 0..(MaxRunning - 1)
NoSlot == -1

Row(r) == pageTable[slot[r]]

CMInit ==
  /\ tree = EmptyTree
  /\ freeSlots = [i \in 1..NumPages |-> i - 1]
  /\ tableFree = [i \in 1..MaxRunning |-> i - 1]
  /\ pageTable = [s \in Slot |-> <<>>]
  /\ held = {}
  /\ handle = [r \in Req |-> <<>>]
  /\ slot = [r \in Req |-> NoSlot]

-----------------------------------------------------------------------------
(* The operations.                                                         *)

\* match_req for a request that is then refused: the walk may have split a node.
MatchOnly(k) ==
  /\ \E m \in Prefixes(k) : StopsAt(tree, k, m) /\ tree' = SplitAt(tree, m)
  /\ UNCHANGED <<freeSlots, tableFree, pageTable, held, handle, slot>>

\* TableManager.allocate: the slot handed out is Last(tableFree).
TakeSlot == tableFree' = Front(tableFree)

\* TableManager.free
FreeSlot(s) == tableFree' = Append(tableFree, s)

\* _try_allocate_one: match, lock, take the last free slot, copy the matched pages.
AdmitTo(r, k, m) ==
  /\ StopsAt(tree, k, m)
  /\ tree' = Lock(SplitAt(tree, m), m)
  /\ TakeSlot
  /\ pageTable' = [pageTable EXCEPT ![Last(tableFree)] = MatchedPages(tree, m)]
  /\ slot' = [slot EXCEPT ![r] = Last(tableFree)]
  /\ handle' = [handle EXCEPT ![r] = m]
  /\ held' = held \cup {r}
  /\ UNCHANGED freeSlots

\* allocate_paged for one request of a batch: the first n free pages extend its row.
TakePages(r, n) ==
  /\ pageTable' = [pageTable EXCEPT ![slot[r]] = @ \o SubSeq(freeSlots, 1, n)]
  /\ freeSlots' = SubSeq(freeSlots, n + 1, Len(freeSlots))
  /\ UNCHANGED <<tree, tableFree, held, handle, slot>>

\* One round of the loop in evict; _allocate appends what it yields to free_slots.
EvictLeaf ==
  /\ \E n \in tree.nodes : \E b \in Prefixes(n) :
        /\ IsVictim(tree, n)
        /\ IsParent(tree, b, n)
        /\ tree' = RemoveLeaf(tree, n, b)
        /\ freeSlots' = freeSlots \o NodePages(tree, n, b)
  /\ UNCHANGED <<tableFree, pageTable, held, handle, slot>>

\* cache_req up to the unlock of the old handle: insert k, whose walk stops at m.
Inserted(r, k, m) == Unlock(Insert(tree, k, m, Row(r)), handle[r])

DuplicatesFromStart(r, m) == SubSeq(Row(r), 1, Len(m))  \* mutant: the locked prefix too

\* The pages of r that other requests have cached in the meantime.
Duplicates(r, m) == SubSeq(Row(r), Len(handle[r]) + 1, Len(m))

LeftoverKept(r, k) == <<>>  \* mutant: the tail of a finished request is not freed

\* The pages of r behind the last full block of its key.
Leftover(r, k) == SubSeq(Row(r), Len(k) + 1, Len(Row(r)))

\* cache_req(finished=False)
CacheUnfinished(r, k) ==
  /\ \E m \in Prefixes(k) :
        /\ StopsAt(tree, k, m)
        /\ tree' = Lock(Inserted(r, k, m), k)
        /\ freeSlots' = freeSlots \o Duplicates(r, m)
  /\ handle' = [handle EXCEPT ![r] = k]
  /\ UNCHANGED <<tableFree, pageTable, held, slot>>

\* _free_req_resources: the slot goes back, then cache_req(finished=True)
FreeResources(r, k) ==
  /\ \E m \in Prefixes(k) :
        /\ StopsAt(tree, k, m)
        /\ tree' = Inserted(r, k, m)
        /\ freeSlots' = freeSlots \o Duplicates(r, m) \o Leftover(r, k)
  /\ FreeSlot(slot[r])
  /\ held' = held \ {r}
  /\ UNCHANGED <<pageTable, handle, slot>>

-----------------------------------------------------------------------------
(* The contract: how a correct caller uses the operations.                 *)

Refuse(k) == MatchOnly(k)

Admit(r, k) ==
  /\ r \notin held
  /\ Len(tableFree) > 0
  /\ \E m \in Prefixes(k) : AdmitTo(r, k, m)

Grow(r, n) ==
  /\ r \in held
  /\ n <= Len(freeSlots)
  /\ Len(Row(r)) + n <= MaxRow
  /\ TakePages(r, n)

\* A key that extends what the request has locked and whose blocks have pages.
Cacheable(r, k) ==
  /\ r \in held
  /\ IsPrefix(handle[r], k)
  /\ Len(k) <= Len(Row(r))

Extend(r, k)  == Cacheable(r, k) /\ CacheUnfinished(r, k)
Release(r, k) == Cacheable(r, k) /\ FreeResources(r, k)

CMNext ==
  \/ EvictLeaf
  \/ \E k \in Key : Refuse(k)
  \/ \E r \in Req, k \in Key : Admit(r, k)
  \/ \E r \in Req, n \in 1..MaxRow : Grow(r, n)
  \/ \E r \in Req, k \in Key : Extend(r, k)
  \/ \E r \in Req, k \in Key : Release(r, k)

CMSpec == CMInit /\ [][CMNext]_cmVars

-----------------------------------------------------------------------------
(* Properties.                                                             *)

TreeType(t) ==
  /\ t = [page |-> t.page, ref |-> t.ref, nodes |-> t.nodes,
          evictable |-> t.evictable, protected |-> t.protected]
  /\ Cached(t) \subseteq Seq(Block)
  /\ t.page \in [Cached(t) -> Page]
  /\ t.ref \in [Cached(t) -> Int]
  /\ t.nodes \subseteq Cached(t)
  /\ t.evictable \in Int
  /\ t.protected \in Int

CMTypeOK ==
  /\ TreeType(tree)
  /\ freeSlots \in Seq(Page)
  /\ tableFree \in Seq(Slot)
  /\ pageTable \in [Slot -> Seq(Page)]
  /\ held \subseteq Req
  /\ handle \in [Req -> Seq(Block)]
  /\ slot \in [Req -> Slot \cup {NoSlot}]

\* The tree stays a tree, and whatever a request holds a lock on is still the
\* end of a node in it: no eviction removed it (kvcache/base.py: "When a handle
\* is locked, it cannot be evicted").
LockedHandlesStay ==
  /\ WellFormed(tree)
  /\ \A r \in held : handle[r] = <<>> \/ handle[r] \in tree.nodes

\* ref_count of a node is the number of requests whose handle lies at or below it.
RefCountsExact ==
  \A p \in Cached(tree) :
     tree.ref[p] = Cardinality({r \in held : IsPrefix(p, handle[r])})

\* evictable_size and protected_size add up the unreferenced and the referenced
\* blocks: available_size may be trusted by admission.
CountersExact ==
  /\ tree.evictable = Cardinality({p \in Cached(tree) : tree.ref[p] = 0})
  /\ tree.protected = Cardinality({p \in Cached(tree) : tree.ref[p] # 0})

\* The pages a request owns alone: those behind its locked prefix.
Private(r) == (Len(handle[r]) + 1)..Len(Row(r))

NoPageTwiceFree == IsInjective(freeSlots)
NoPageTwiceCached == IsInjective(tree.page)
FreeNotCached == ToSet(freeSlots) \cap Range(tree.page) = {}
PrivatePagesApart ==
  \A r \in held : \A i \in Private(r) :
     /\ Row(r)[i] \notin ToSet(freeSlots)
     /\ Row(r)[i] \notin Range(tree.page)
     /\ \A q \in held : \A j \in Private(q) : Row(q)[j] = Row(r)[i] => q = r /\ j = i

\* No page has two owners: it is free once, or caches one key, or belongs to
\* one position of one request.
OneOwnerPerPage ==
  /\ NoPageTwiceFree
  /\ NoPageTwiceCached
  /\ FreeNotCached
  /\ PrivatePagesApart

\* No page is lost: each is free, cached or owned by a request.
NoPageLost ==
  \A p \in Page :
     \/ p \in ToSet(freeSlots)
     \/ p \in Range(tree.page)
     \/ \E r \in held : \E i \in Private(r) : Row(r)[i] = p

\* A slot is free once or has one user, and a request's row covers its locked prefix.
OneUserPerSlot ==
  /\ IsInjective(tableFree)
  /\ \A r \in held :
        /\ slot[r] \in Slot
        /\ slot[r] \notin ToSet(tableFree)
        /\ Len(handle[r]) <= Len(Row(r))
        /\ \A q \in held : slot[q] = slot[r] => q = r
=============================================================================

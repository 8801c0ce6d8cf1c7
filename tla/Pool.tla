-------------------------------- MODULE Pool --------------------------------
(***************************************************************************)
(* Memory pools, fw/pool.c.  A pool is a list of chunks, the current one   *)
(* first; the oldest one holds the pool itself and is freed with it.       *)
(* Memory is taken from the end of the current chunk.  A pool is used like *)
(* a stack (messages) or like a queue (entries of the HPACK decoder, which *)
(* frees the pages behind the entry it evicts).                            *)
(***************************************************************************)
EXTENDS Integers, Sequences, FiniteSets

CONSTANTS PageLen,    \* bytes of a chunk of order 0
          ChunkDesc,  \* TFW_POOL_ALIGN_SZ(sizeof(TfwPoolChunk))
          HeadOff,    \* TFW_POOL_HEAD_OFF
          CacheSz,    \* TFW_POOL_PGCACHE_SZ
          AllocSizes, \* what is asked for
          MaxPages,   \* bound: pages taken from the kernel
          MaxLive     \* bound: allocations in use
ASSUME PoolSizes == ChunkDesc > 0 /\ HeadOff > ChunkDesc /\ HeadOff < PageLen

VARIABLES chunks,     \* the pool's list: [pg, order, off]
          cached,     \* pg_cache of the CPU: page numbers
          fresh,      \* pages taken from the kernel so far
          live,       \* allocations in use, oldest first: [pg, off, n, last, al]
          usage       \* "stack" or "queue"
pvars == <<chunks, cached, fresh, live, usage>>

ALIGN_SZ(n) == ((n + 1) \div 2) * 2
CHUNK_SZ(order) == PageLen * 2^order
RECURSIVE OrderOf(_, _)
OrderOf(n, o) == IF n <= CHUNK_SZ(o) THEN o ELSE OrderOf(n, o + 1)
get_order(n) == OrderOf(n, 0)

(* [pg, cached, fresh]: a page of the cache, or one of the kernel *)
tfw_pool_alloc_pages(order) ==
  IF cached # <<>> /\ order = 0
  THEN [pg |-> cached[Len(cached)], cached |-> SubSeq(cached, 1, Len(cached) - 1), fresh |-> fresh]
  ELSE [pg |-> fresh + 1, cached |-> cached, fresh |-> fresh + 1]
tfw_pool_free_pages(cache, c) ==
  IF Len(cache) < CacheSz /\ c.order = 0 THEN Append(cache, c.pg) ELSE cache
RECURSIVE FreeAll(_, _)
FreeAll(cache, cs) == IF cs = <<>> THEN cache ELSE FreeAll(tfw_pool_free_pages(cache, Head(cs)), Tail(cs))

__tfw_pool_new ==
  /\ chunks = <<[pg |-> 1, order |-> 0, off |-> HeadOff]>>
  /\ cached = <<>> /\ fresh = 1 /\ live = <<>>
PoolInit == __tfw_pool_new /\ usage \in {"stack", "queue"}

End == chunks[1].off
(* __tfw_pool_alloc(): [chunks, cached, fresh, a, np] *)
__tfw_pool_alloc(n0, align) ==
  LET n == IF align THEN ALIGN_SZ(n0) ELSE n0
      desc == ChunkDesc  \* sizeof(TfwPoolChunk) is a multiple of the alignment
      order == get_order(desc + n)
      p == tfw_pool_alloc_pages(order)
  IN IF End + n > CHUNK_SZ(chunks[1].order)
     THEN [chunks |-> <<[pg |-> p.pg, order |-> order, off |-> desc + n]>> \o chunks,
           cached |-> p.cached, fresh |-> p.fresh, np |-> TRUE,
           a |-> [pg |-> p.pg, off |-> desc, n |-> n, last |-> FALSE, al |-> align]]
     ELSE [chunks |-> [chunks EXCEPT ![1].off = @ + n], cached |-> cached, fresh |-> fresh, np |-> FALSE,
           a |-> [pg |-> chunks[1].pg, off |-> End, n |-> n, last |-> FALSE, al |-> align]]
Take(r, l) == chunks' = r.chunks /\ cached' = r.cached /\ fresh' = r.fresh /\ live' = l

tfw_pool_alloc(n, align) ==
  /\ chunks # <<>> /\ Len(live) < MaxLive /\ fresh < MaxPages
  /\ usage = "queue" => align
  /\ LET r == __tfw_pool_alloc(n, align)
         \* tfw_hpack_add_index(): the entry before the first of a page
         l == IF usage = "queue" /\ r.np /\ live # <<>> THEN [live EXCEPT ![Len(live)].last = TRUE] ELSE live
     IN Take(r, Append(l, r.a))
  /\ UNCHANGED usage

IsLast(a) == a.pg = chunks[1].pg /\ a.off + ALIGN_SZ(a.n) = End
(* __tfw_pool_realloc(): in place at the end of the chunk, or moved; what was
   left behind is lost until the pool is destroyed.  Callers realloc and free
   only what tfw_pool_alloc() gave them, which is aligned. *)
__tfw_pool_realloc(i, n) ==
  /\ usage = "stack" /\ chunks # <<>> /\ fresh < MaxPages
  /\ LET a == live[i]  new == ALIGN_SZ(n)  r == __tfw_pool_alloc(n, TRUE)
     IN /\ n >= a.n /\ a.al
        /\ IF IsLast(a) /\ (End - ALIGN_SZ(a.n)) + new <= CHUNK_SZ(chunks[1].order)
           THEN /\ chunks' = [chunks EXCEPT ![1].off = (@ - ALIGN_SZ(a.n)) + new]
                /\ live' = [live EXCEPT ![i].n = new] /\ UNCHANGED <<cached, fresh>>
           ELSE Take(r, [live EXCEPT ![i] = r.a])
  /\ UNCHANGED usage

Without(i) == SubSeq(live, 1, i - 1) \o SubSeq(live, i + 1, Len(live))
(* tfw_pool_free(): only the last allocation is really freed, and the chunk
   with it when it was the only one, unless it is the pool's own. *)
tfw_pool_free(i) ==
  /\ usage = "stack" /\ chunks # <<>> /\ live[i].al
  /\ live' = Without(i)
  /\ LET off == End - ALIGN_SZ(live[i].n)
     IN IF ~IsLast(live[i]) THEN UNCHANGED <<chunks, cached>>
        ELSE IF off = ChunkDesc
        THEN chunks' = Tail(chunks) /\ cached' = tfw_pool_free_pages(cached, chunks[1])
        ELSE chunks' = [chunks EXCEPT ![1].off = off] /\ UNCHANGED cached
  /\ UNCHANGED <<fresh, usage>>

(* tfw_pool_clean(): the chunk of an allocation and the older ones are freed
   but for the oldest; the list keeps the current chunk and the oldest. *)
(* mutant: the newer chunks are freed as well *)
PoolCleanAll(pg) ==
  LET k == Len(chunks)
  IN [chunks |-> IF k < 2 THEN chunks ELSE <<chunks[1], chunks[k]>>,
      cached |-> FreeAll(cached, SubSeq(chunks, 2, k - 1))]
tfw_pool_clean(pg) ==
  LET k == Len(chunks)
      at == {j \in 2 .. k - 1 : chunks[j].pg = pg}
  IN [chunks |-> IF k < 2 THEN chunks ELSE <<chunks[1], chunks[k]>>,
      cached |-> IF at = {} THEN cached
                 ELSE FreeAll(cached, SubSeq(chunks, CHOOSE j \in at : TRUE, k - 1))]
(* The decoder evicts its oldest entry. *)
EvictOldest ==
  /\ usage = "queue" /\ live # <<>> /\ chunks # <<>>
  /\ live' = Tail(live)
  /\ IF live[1].last
     THEN LET c == tfw_pool_clean(live[1].pg) IN chunks' = c.chunks /\ cached' = c.cached
     ELSE UNCHANGED <<chunks, cached>>
  /\ UNCHANGED <<fresh, usage>>

tfw_pool_destroy ==
  /\ chunks # <<>>
  /\ chunks' = <<>> /\ live' = <<>> /\ cached' = FreeAll(cached, chunks)
  /\ UNCHANGED <<fresh, usage>>

PoolNext ==
  \/ \E n \in AllocSizes, align \in BOOLEAN : tfw_pool_alloc(n, align)
  \/ \E i \in DOMAIN live, n \in AllocSizes : __tfw_pool_realloc(i, n)
  \/ \E i \in DOMAIN live : tfw_pool_free(i)
  \/ EvictOldest \/ tfw_pool_destroy
-----------------------------------------------------------------------------
(* Memory in use is never handed out twice and never freed: two allocations do *)
(* not overlap, none of them is in a page of the page cache, and a page is in  *)
(* the cache or in the pool's list, once.                                      *)
PoolSafe ==
  /\ \A i, j \in DOMAIN live : i < j /\ live[i].pg = live[j].pg =>
       \/ live[i].off + live[i].n <= live[j].off
       \/ live[j].off + live[j].n <= live[i].off
  /\ LET pgs == cached \o [k \in DOMAIN chunks |-> chunks[k].pg]
     IN \A i, j \in DOMAIN pgs : i # j => pgs[i] # pgs[j]
  /\ \A i \in DOMAIN live : \A k \in DOMAIN cached : live[i].pg # cached[k]
  /\ live # <<>> => chunks[Len(chunks)].pg = 1
=============================================================================

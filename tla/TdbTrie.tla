------------------------------ MODULE TdbTrie ------------------------------
(***************************************************************************)
(* The burst hash trie of TempestaDB (db/core/htrie.c, db/core/main.c).    *)
(*                                                                         *)
(* An index node takes the next bits of a key to another index node or to  *)
(* a data bucket.  A bucket holds several small records, one after the     *)
(* other up to TDB_HTRIE_MINDREC, or one large record.  When a bucket has  *)
(* no room for a record it is burst: a new index node takes its place and  *)
(* its records are spread by the next bits; only the first one stays.      *)
(* Buckets of equal keys are chained.  Descending takes no lock, so that a *)
(* writer looks again whether the bucket it has locked is still the one of *)
(* its key.                                                                *)
(*                                                                         *)
(* Memory is the sequence of records of a bucket by their offsets; what is *)
(* not in it is zero.  A step is what is done under the lock of a bucket,  *)
(* or one atomic operation on an index node: index nodes are only ever     *)
(* extended, so that descending is as good as one step.                    *)
(***************************************************************************)
EXTENDS Integers, Sequences, FiniteSets, FiniteSetsExt

CONSTANTS
  KeyBits,     \* bits of a key (BITS_PER_LONG), one per level
  MinRec,      \* TDB_HTRIE_MINDREC
  BcktHdr,     \* sizeof(TdbBucket)
  RecHdr,      \* sizeof(TdbVRec)
  RecLens,     \* lengths of the records
  Keys,        \* keys in use
  TdbCpu,
  MaxOps,      \* bound on the calls
  MaxTfail     \* bound on failed allocations

VARIABLES
  index,    \* index nodes: a link per bit; 0 none, n > 0 node n, n < 0 bucket -n
  bckt,     \* buckets: [recs : offset -> record, next]
  top,      \* the call a CPU is in
  ga,       \* holder of ga_lock
  tmode,    \* the table is used by tdb_rec_get_alloc(), or by lookups and inserts
  done,     \* the records that were created: [rec, at]
  tfails, nops,
  thit      \* a burst has lost a record or left stale ones
trieVars == <<index, bckt, top, ga, tmode, done, tfails, nops, thit>>

None == 0
TIdle == [pc |-> "idle", key |-> 0, len |-> 0, node |-> 1, bits |-> 0, o |-> 0, held |-> 0, ga |-> FALSE]
TDB_HTRIE_IDX(key, bits) == (key \div 2^bits) % 2
TDB_HTRIE_RESOLVED(bits) == bits + 1 > KeyBits
RecLen(r) == RecHdr + r.len
At(b, o) == IF o \in DOMAIN bckt[b].recs THEN bckt[b].recs[o] ELSE [key |-> 0, len |-> 0, id |-> 0]
Live(r) == r.len > 0
NoRecs == [o \in {} |-> 0]
With(recs, o, r) == [x \in DOMAIN recs \cup {o} |-> IF x = o THEN r ELSE recs[x]]

TrieInit ==
  /\ index = <<<<0, 0>>>> /\ bckt = <<>>
  /\ top = [c \in TdbCpu |-> TIdle] /\ ga = None /\ tmode \in {"get_alloc", "plain"}
  /\ done = {} /\ tfails = 0 /\ nops = 0 /\ thit = FALSE

RECURSIVE tdb_htrie_descend(_, _, _)
tdb_htrie_descend(node, bits, key) ==
  LET o == index[node][TDB_HTRIE_IDX(key, bits) + 1]
  IN IF o > 0 THEN tdb_htrie_descend(o, bits + 1, key)
     ELSE [node |-> node, bits |-> IF o < 0 THEN bits + 1 ELSE bits, o |-> -o]

(* TDB_HTRIE_FOREACH_REC: the offsets of the records of a bucket. *)
RECURSIVE Offsets(_, _)
Offsets(b, o) ==
  IF o + RecHdr > MinRec /\ o # BcktHdr THEN {}
  ELSE IF o + RecLen(At(b, o)) > MinRec /\ o # BcktHdr THEN {}
  ELSE {o} \cup Offsets(b, o + RecLen(At(b, o)))
RECURSIVE Chain(_)
Chain(b) == IF b = None THEN {} ELSE {b} \cup Chain(bckt[b].next)
RECURSIVE Last(_)
Last(b) == IF bckt[b].next = None THEN b ELSE Last(bckt[b].next)
Scan(b) == {<<x, o>> \in Chain(b) \X (BcktHdr .. MinRec) : o \in Offsets(x, BcktHdr) /\ Live(At(x, o))}
RecsOf(b, key) == {p \in Scan(b) : At(p[1], p[2]).key = key}

(* Room for a small record in a bucket of the chain, the first that fits. *)
tdb_htrie_smallrec_link(b, n) ==
  LET fits(x) == {o \in Offsets(x, BcktHdr) : /\ o + RecLen(At(x, o)) <= MinRec
                                              /\ ~Live(At(x, o)) /\ o + RecHdr + n <= MinRec}
      RECURSIVE first(_)
      first(x) == IF x = None THEN <<>>
                  ELSE IF fits(x) # {} THEN <<x, Min(fits(x))>> ELSE first(bckt[x].next)
  IN first(b)

(* MOVE_RECORDS and what follows it, for two branches per node: st = [o, off,
   new, stay, lost], off the ends of what the old and the new bucket hold. *)
RECURSIVE Move(_, _, _, _)
Move(b, k0, bits, st) ==
  LET r == At(b, st.o)
      n == RecLen(r)
      k == TDB_HTRIE_IDX(r.key, bits)
      on == [st EXCEPT !.o = @ + n]
  IN IF RecHdr + st.o >= MinRec THEN st
     ELSE IF n + st.o >= MinRec THEN [st EXCEPT !.lost = Live(r)]
     ELSE IF ~Live(r) THEN Move(b, k0, bits, on)
     ELSE IF k = k0
     THEN Move(b, k0, bits, [on EXCEPT !.stay = With(@, st.off, r), !.off = @ + n])
     ELSE Move(b, k0, bits, [on EXCEPT !.new = With(@, st.noff, r), !.noff = @ + n])
MoveRecords(b, bits) ==
  LET r == At(b, BcktHdr)
      e == BcktHdr + RecLen(r)
  IN Move(b, TDB_HTRIE_IDX(r.key, bits), bits,
          [o |-> e, off |-> e, noff |-> BcktHdr, stay |-> With(NoRecs, BcktHdr, r), new |-> NoRecs,
           lost |-> FALSE])
(* The new index node replaces the bucket in its node.  The old bucket is
   cleared behind the records that stay, but not when these have index 0
   (free_nb is 0 then), and not when nothing was copied to another bucket. *)
tdb_htrie_burst(c, b, u) ==
  LET k0 == TDB_HTRIE_IDX(At(b, BcktHdr).key, u.bits)
      mv == MoveRecords(b, u.bits)
      copied == DOMAIN mv.new # {}
      nb == Len(bckt) + 1
      ni == Len(index) + 1
      links == [j \in 1 .. 2 |-> IF j = k0 + 1 THEN -b ELSE IF copied THEN -nb ELSE 0]
      place == TDB_HTRIE_IDX(u.key, u.bits - 1) + 1
  IN /\ index' = Append([index EXCEPT ![u.node][place] = ni], links)
     /\ bckt' = IF copied THEN Append([bckt EXCEPT ![b].recs = mv.stay], [recs |-> mv.new, next |-> None])
                ELSE bckt
     /\ thit' = (thit \/ (mv.lost /\ copied) \/ (mv.lost /\ TDB_HTRIE_IDX(At(b, mv.o).key, u.bits) # k0)
                 \/ (copied /\ k0 = 0))
     /\ top' = [top EXCEPT ![c] = [u EXCEPT !.node = ni, !.pc = "descend"]]

Return(c) == /\ top' = [top EXCEPT ![c] = TIdle]
             /\ ga' = IF top[c].ga THEN None ELSE ga
TFail(c) == /\ tfails < MaxTfail /\ tfails' = tfails + 1
            /\ Return(c) /\ UNCHANGED <<index, bckt, tmode, done, nops, thit>>
Rec(u) == [key |-> u.key, len |-> u.len, id |-> Cardinality(done) + 1]
Created(c, b, o) == done' = done \cup {[rec |-> Rec(top[c]), at |-> <<b, o>>]}
-----------------------------------------------------------------------------
(* tdb_entry_alloc(), tdb_entry_create() *)
InsertStart(c, key, len) ==
  /\ top[c].pc = "idle" /\ tmode = "plain" /\ nops < MaxOps /\ nops' = nops + 1
  /\ top' = [top EXCEPT ![c] = [TIdle EXCEPT !.pc = "descend", !.key = key, !.len = len]]
  /\ UNCHANGED <<index, bckt, ga, tmode, done, tfails, thit>>

Descend(c) ==
  LET u == top[c]
      d == tdb_htrie_descend(u.node, u.bits, u.key)
  IN /\ u.pc = "descend"
     /\ top' = [top EXCEPT ![c] = [u EXCEPT !.node = d.node, !.bits = d.bits, !.o = d.o,
                                            !.pc = IF d.o = 0 THEN "create" ELSE "lock"]]
     /\ UNCHANGED <<index, bckt, ga, tmode, done, tfails, nops, thit>>

(* A new bucket, linked with cmpxchg; it is lost when another CPU has come
   first. *)
CreateBucket(c) ==
  LET u == top[c]
      j == TDB_HTRIE_IDX(u.key, u.bits) + 1
  IN /\ u.pc = "create"
     /\ \/ TFail(c)
        \/ /\ index[u.node][j] = 0
           /\ index' = [index EXCEPT ![u.node][j] = -(Len(bckt) + 1)]
           /\ bckt' = Append(bckt, [recs |-> With(NoRecs, BcktHdr, Rec(u)), next |-> None])
           /\ Created(c, Len(bckt) + 1, BcktHdr) /\ Return(c)
           /\ UNCHANGED <<tmode, tfails, nops, thit>>
        \/ /\ index[u.node][j] # 0
           /\ top' = [top EXCEPT ![c].pc = "descend"]
           /\ UNCHANGED <<index, bckt, ga, tmode, done, tfails, nops, thit>>

Unread(b) == \A d \in TdbCpu : top[d].held # b
(* mutant: the bucket that was found is taken for the one of the key *)
RecheckedNot(u) == TRUE
Rechecked(u) ==
  TDB_HTRIE_RESOLVED(u.bits) \/ index[u.node][TDB_HTRIE_IDX(u.key, u.bits - 1) + 1] = -u.o
(* Under the write lock of the bucket. *)
tdb_htrie_insert(c) ==
  LET u == top[c]
      room == IF u.len < MinRec THEN tdb_htrie_smallrec_link(u.o, u.len) ELSE <<>>
      l == Last(u.o)
  IN /\ u.pc = "lock" /\ \A b \in Chain(u.o) : Unread(b)
     /\ \/ /\ ~Rechecked(u)
           /\ top' = [top EXCEPT ![c].bits = @ - 1, ![c].pc = "descend"]
           /\ UNCHANGED <<index, bckt, ga, tmode, done, tfails, nops, thit>>
        \/ /\ Rechecked(u) /\ room # <<>>
           /\ bckt' = [bckt EXCEPT ![room[1]].recs = With(@, room[2], Rec(u))]
           /\ Created(c, room[1], room[2]) /\ Return(c)
           /\ UNCHANGED <<index, tmode, tfails, nops, thit>>
        \/ /\ Rechecked(u) /\ room = <<>> /\ TDB_HTRIE_RESOLVED(u.bits)
           /\ bckt' = Append([bckt EXCEPT ![l].next = Len(bckt) + 1],
                             [recs |-> With(NoRecs, BcktHdr, Rec(u)), next |-> None])
           /\ Created(c, Len(bckt) + 1, BcktHdr) /\ Return(c)
           /\ UNCHANGED <<index, tmode, tfails, nops, thit>>
        \/ /\ Rechecked(u) /\ room = <<>> /\ ~TDB_HTRIE_RESOLVED(u.bits)
           /\ tdb_htrie_burst(c, u.o, u)
           /\ UNCHANGED <<ga, tmode, done, tfails, nops>>
        \/ Rechecked(u) /\ room = <<>> /\ TFail(c)

(* tdb_rec_get() and tdb_rec_next(): the bucket that is left is read-locked
   until tdb_rec_put(). *)
LookupStart(c, key) ==
  /\ top[c].pc = "idle" /\ tmode = "plain" /\ nops < MaxOps /\ nops' = nops + 1
  /\ top' = [top EXCEPT ![c] = [TIdle EXCEPT !.pc = "lookup", !.key = key]]
  /\ UNCHANGED <<index, bckt, ga, tmode, done, tfails, thit>>
tdb_htrie_lookup(c) ==
  /\ top[c].pc = "lookup"
  /\ LET d == tdb_htrie_descend(1, 0, top[c].key)
     IN top' = [top EXCEPT ![c] = IF d.o = 0 THEN TIdle ELSE [@ EXCEPT !.o = d.o, !.pc = "scan"]]
  /\ UNCHANGED <<index, bckt, ga, tmode, done, tfails, nops, thit>>
tdb_htrie_bscan_for_rec(c) ==
  /\ top[c].pc = "scan"
  /\ LET found == RecsOf(top[c].o, top[c].key)
     IN \/ found = {} /\ top' = [top EXCEPT ![c] = TIdle]
        \/ \E p \in found : top' = [top EXCEPT ![c].held = p[1], ![c].pc = "hold"]
  /\ UNCHANGED <<index, bckt, ga, tmode, done, tfails, nops, thit>>
tdb_rec_put(c) ==
  /\ top[c].pc = "hold"
  /\ top' = [top EXCEPT ![c] = TIdle]
  /\ UNCHANGED <<index, bckt, ga, tmode, done, tfails, nops, thit>>

(* tdb_rec_get_alloc(): lookup and insert under ga_lock.  One record per key
   is looked for (eq_rec tells records of one key apart in the same way). *)
tdb_rec_get_alloc(c, key, len) ==
  /\ top[c].pc = "idle" /\ tmode = "get_alloc" /\ ga = None /\ nops < MaxOps /\ nops' = nops + 1
  /\ LET d == tdb_htrie_descend(1, 0, key)
         found == IF d.o = 0 THEN {} ELSE RecsOf(d.o, key)
     IN \/ \E p \in found :
             /\ top' = [top EXCEPT ![c] = [TIdle EXCEPT !.held = p[1], !.pc = "hold"]]
             /\ ga' = ga
        \/ /\ found = {} /\ ga' = c
           /\ top' = [top EXCEPT ![c] = [TIdle EXCEPT !.pc = "descend", !.key = key, !.len = len,
                                                      !.ga = TRUE]]
  /\ UNCHANGED <<index, bckt, tmode, done, tfails, thit>>

TrieNext ==
  \E c \in TdbCpu :
    \/ \E k \in Keys, n \in RecLens : InsertStart(c, k, n) \/ tdb_rec_get_alloc(c, k, n)
    \/ Descend(c) \/ CreateBucket(c) \/ tdb_htrie_insert(c)
    \/ \E k \in Keys : LookupStart(c, k)
    \/ tdb_htrie_lookup(c) \/ tdb_htrie_bscan_for_rec(c) \/ tdb_rec_put(c)
-----------------------------------------------------------------------------
(* tdb_htrie_node_visit() from the root: the buckets of the trie. *)
RECURSIVE tdb_htrie_walk(_)
tdb_htrie_walk(node) ==
  UNION {LET o == index[node][j]
         IN IF o = 0 THEN {} ELSE IF o > 0 THEN tdb_htrie_walk(o) ELSE Scan(-o) : j \in 1 .. 2}

(* Whatever inserts have interleaved, a record that was created is found by
   its key and met once by a walk; a large record, of which clients and
   sessions keep a pointer, stays where it was created; and
   tdb_rec_get_alloc() makes no second record for what is stored already. *)
TrieSound ==
  ~thit =>
    /\ \A x \in done :
         LET d == tdb_htrie_descend(1, 0, x.rec.key)
         IN /\ d.o # 0
            /\ \E p \in RecsOf(d.o, x.rec.key) :
                 /\ At(p[1], p[2]) = x.rec
                 /\ x.rec.len >= MinRec => p = x.at
    /\ Cardinality(tdb_htrie_walk(1)) = Cardinality(done)
    /\ tmode = "get_alloc" => \A x, y \in done : x.rec.key = y.rec.key => x = y
=============================================================================

------------------------------ MODULE HpackEnc ------------------------------
(***************************************************************************)
(* The HPACK encoder of fw/hpack.c: a dynamic table in a ring buffer,      *)
(* searched through a red-black tree whose links are offsets in the same   *)
(* buffer.  Responses of one HTTP/2 connection are encoded on several CPUs *)
(* at once; tbl->guard lets one of them add entries or many of them use    *)
(* the entries there are.  The client's table is part of the model: what   *)
(* it decodes must be what was encoded.                                    *)
(***************************************************************************)
EXTENDS Integers, Sequences, FiniteSets, SequencesExt

CONSTANTS Resps,      \* responses of the connection
          Headers,    \* [name, val, st, full]: strings, static index or 0, TFW_STR_FULL_INDEX
          StaticN,    \* HPACK_STATIC_ENTRIES
          NodeLen,    \* sizeof(TfwHPackNode)
          EntryOver,  \* HPACK_ENTRY_OVERHEAD
          Align,      \* the alignment of a node
          RbMax,      \* HPACK_ENC_TABLE_MAX_SIZE
          MaxEvict,   \* HPACK_MAX_ENC_EVICTION
          MaxHdrs,    \* bound: headers of one response
          MaxIdx,     \* bound: entries ever added
          Sizes       \* window sizes a client may set
ASSUME EncSizes == NodeLen <= EntryOver /\ Align > 0 /\ MaxEvict > 0 /\ RbMax > EntryOver

VARIABLES etbl,       \* TfwHPackETbl: first, last, rb_len, rb_size, size, window, idx_acc, guard, root
          mem,        \* the nodes of the ring buffer by their offsets
          resp,       \* a response: its headers, their representations, TFW_HTTP_B_H2_TRANS_ENTERED
          ctbl,       \* the client's dynamic table, newest entry first
          garbled,    \* the client could not decode a response, or got other headers
          ehit,       \* a recorded defect has been met
          panic       \* BUG_ON(), or a node overwritten while the tree links it
evars == <<etbl, mem, resp, ctbl, garbled, ehit, panic>>

Nil == 0 - 1
HdrStr(h) == h.name \o h.val
RoundUp(n) == ((n + Align - 1) \div Align) * Align
NODE_SIZE(h) == RoundUp(NodeLen + Len(HdrStr(h)))
EntrySize(h) == EntryOver + Len(HdrStr(h))
-----------------------------------------------------------------------------
(* write_int(): an integer with a prefix of max; a client's way back *)
RECURSIVE Rest7(_)
Rest7(n) == IF n > 127 THEN <<128 + (n % 128)>> \o Rest7(n \div 128) ELSE <<n>>
write_int(n, max) == IF n < max THEN <<n>> ELSE <<max>> \o Rest7(n - max)
RECURSIVE Sum7(_, _)
Sum7(s, m) == IF s = <<>> THEN 0 ELSE (s[1] % 128) * m + Sum7(Tail(s), 128 * m)
ReadInt(s, max) == IF s[1] < max THEN s[1] ELSE IF Len(s) = 1 THEN Nil ELSE max + Sum7(Tail(s), 1)
-----------------------------------------------------------------------------
(* The red-black tree t = [root, m, bug]; "l" and "r" are the two sides. *)
Opp(s) == IF s = "l" THEN "r" ELSE "l"
Up(t, x) == t.m[x].p
Ch(t, x, s) == t.m[x].ch[s]
IsRed(t, x) == x # Nil /\ ~t.m[x].black
Paint(t, x, black) == [t EXCEPT !.m[x].black = black]
BugOn(t) == [t EXCEPT !.bug = TRUE]
SideOf(t, px, x) == IF Ch(t, px, "l") = x THEN "l" ELSE "r"
(* parent's link to old, or the root, becomes new *)
Relink(t, px, old, new) ==
  IF px = Nil THEN [t EXCEPT !.root = new] ELSE [t EXCEPT !.m[px].ch[SideOf(t, px, old)] = new]
Rotate(t, x, s) ==
  LET y == Ch(t, x, Opp(s))
      c == Ch(t, y, s)
      t1 == [Relink(t, Up(t, x), x, y) EXCEPT !.m[y].p = Up(t, x), !.m[x].ch[Opp(s)] = c]
      t2 == IF c = Nil THEN t1 ELSE [t1 EXCEPT !.m[c].p = x]
  IN IF y = Nil THEN BugOn(t) ELSE [t2 EXCEPT !.m[y].ch[s] = x, !.m[x].p = y]
tfw_hpack_rbtree_left_rt(t, x) == Rotate(t, x, "l")
tfw_hpack_rbtree_right_rt(t, x) == Rotate(t, x, "r")
Turn(t, x, s) == IF s = "l" THEN tfw_hpack_rbtree_left_rt(t, x) ELSE tfw_hpack_rbtree_right_rt(t, x)

RECURSIVE tfw_hpack_rbtree_ins_rebalance(_, _)
tfw_hpack_rbtree_ins_rebalance(t, new) ==
  LET px == Up(t, new)  g == Up(t, px)
  IN IF t.bug \/ px = Nil \/ ~IsRed(t, px)
     THEN IF t.root = Nil THEN BugOn(t) ELSE Paint(t, t.root, TRUE)
     ELSE IF g = Nil THEN BugOn(t)
     ELSE LET s == SideOf(t, g, px)
              uncle == Ch(t, g, Opp(s))
              inner == Ch(t, px, Opp(s)) = new
              t1 == IF inner THEN Turn(t, px, s) ELSE t
              top == IF inner THEN new ELSE px
          IN IF IsRed(t, uncle)
             THEN tfw_hpack_rbtree_ins_rebalance(Paint(Paint(Paint(t, px, TRUE), uncle, TRUE), g, FALSE), g)
             ELSE LET t2 == Turn(Paint(Paint(t1, top, TRUE), g, FALSE), g, Opp(s))
                  IN IF t2.bug THEN t2 ELSE Paint(t2, t2.root, TRUE)

RECURSIVE tfw_hpack_rbtree_del_rebalance(_, _, _)
tfw_hpack_rbtree_del_rebalance(t, nchild, px) ==
  IF t.bug THEN t
  ELSE IF nchild # Nil /\ (nchild = t.root \/ IsRed(t, nchild)) THEN Paint(t, nchild, TRUE)
  ELSE LET s == SideOf(t, px, nchild)
           b0 == Ch(t, px, Opp(s))
           t1 == IF IsRed(t, b0) THEN Turn(Paint(Paint(t, b0, TRUE), px, FALSE), px, s) ELSE t
           b == Ch(t1, px, Opp(s))
           near == Ch(t1, b, s)  far == Ch(t1, b, Opp(s))
       IN IF b0 = Nil \/ b = Nil THEN BugOn(t)
          ELSE IF ~IsRed(t1, near) /\ ~IsRed(t1, far)
          THEN tfw_hpack_rbtree_del_rebalance(Paint(t1, b, FALSE), px, Up(t1, px))
          ELSE LET t2 == IF IsRed(t1, far) THEN t1
                         ELSE Turn(Paint(Paint(t1, near, TRUE), b, FALSE), b, Opp(s))
                   b2 == Ch(t2, px, Opp(s))
                   far2 == IF IsRed(t1, far) THEN far ELSE b
                   t3 == Paint(Paint(Paint(t2, b2, t2.m[px].black), px, TRUE), far2, TRUE)
                   rooted(t4) == Paint(t4, t4.root, TRUE)
               IN rooted(Turn(t3, px, s))

RECURSIVE tfw_hpack_rbtree_min(_, _)
tfw_hpack_rbtree_min(t, x) == IF Ch(t, x, "l") = Nil THEN x ELSE tfw_hpack_rbtree_min(t, Ch(t, x, "l"))
(* mutant: the child does not learn its new parent *)
ReplaceHalf(t, old, new) == Relink(t, Up(t, old), old, new)
tfw_hpack_rbtree_replace(t, old, new) ==
  LET t1 == Relink(t, Up(t, old), old, new)
  IN IF new = Nil THEN t1 ELSE [t1 EXCEPT !.m[new].p = Up(t, old)]
tfw_hpack_rbtree_erase(t, x) ==
  LET l == Ch(t, x, "l")  rt == Ch(t, x, "r")
      sv == IF l = Nil \/ rt = Nil THEN x ELSE tfw_hpack_rbtree_min(t, rt)
      nchild == IF l = Nil THEN rt ELSE IF rt = Nil THEN l ELSE Ch(t, sv, "r")
      direct == sv = x \/ Up(t, sv) = x
      px == IF sv = x THEN Up(t, x) ELSE IF Up(t, sv) = x THEN sv ELSE Up(t, sv)
      t1 == IF direct THEN t
            ELSE LET u == tfw_hpack_rbtree_replace(t, sv, nchild)
                     v == Ch(u, x, "r")
                 IN [u EXCEPT !.m[v].p = sv, !.m[sv].ch["r"] = v]
      t2 == IF sv = x THEN tfw_hpack_rbtree_replace(t, x, nchild)
            ELSE [tfw_hpack_rbtree_replace(t1, x, sv) EXCEPT
                    !.m[l].p = sv, !.m[sv].ch["l"] = l, !.m[sv].black = t.m[x].black]
  IN IF t.m[sv].black /\ t2.root # Nil THEN tfw_hpack_rbtree_del_rebalance(t2, nchild, px) ELSE t2

(* tfw_hpack_node_compare(): a node keeps its name and value as one string, and
   the header's name is found in every node whose string begins with it. *)
RECURSIVE Lex(_, _)
Lex(a, b) ==
  IF a = <<>> THEN IF b = <<>> THEN 0 ELSE 0 - 1
  ELSE IF b = <<>> THEN 1
  ELSE IF a[1] # b[1] THEN (IF a[1] < b[1] THEN 0 - 1 ELSE 1)
  ELSE Lex(Tail(a), Tail(b))
tfw_hpack_node_compare(h, node) ==
  [res |-> Lex(HdrStr(h), HdrStr(node.h)), nm |-> IsPrefix(h.name, HdrStr(node.h))]

(* tfw_hpack_rbtree_find(): [res, node, px, side] *)
RECURSIVE Descend(_, _, _, _, _, _)
Descend(t, h, x, px, side, nm) ==
  IF x = Nil
  THEN [res |-> IF nm = Nil THEN "NOT_FOUND" ELSE "NM_FOUND", node |-> nm, px |-> px, side |-> side]
  ELSE LET c == tfw_hpack_node_compare(h, t.m[x])
           s == IF c.res < 0 THEN "l" ELSE "r"
       IN IF c.res = 0 THEN [res |-> "FOUND", node |-> x, px |-> Nil, side |-> "l"]
          ELSE Descend(t, h, Ch(t, x, s), x, s, IF nm = Nil /\ c.nm THEN x ELSE nm)
tfw_hpack_rbtree_find(t, h) == Descend(t, h, t.root, Nil, "l", Nil)
tfw_hpack_rbtree_add(t, new, place) ==
  LET t1 == [t EXCEPT !.m[new].p = place.px]
      t2 == IF place.px = Nil THEN [t1 EXCEPT !.root = new]
            ELSE [t1 EXCEPT !.m[place.px].ch[place.side] = new]
      t3 == [t2 EXCEPT !.m[new].ch = [l |-> Nil, r |-> Nil], !.m[new].black = FALSE]
  IN IF place.px = Nil /\ t.root # Nil THEN BugOn(t) ELSE tfw_hpack_rbtree_ins_rebalance(t3, new)
-----------------------------------------------------------------------------
(* The ring buffer.  it = [first, last, rb_len, rb_size, size]; t is the tree. *)
Tree == [root |-> etbl.root, m |-> mem, bug |-> FALSE]
tfw_hpack_rbuf_iter(tbl) ==
  [first |-> tbl.first, last |-> tbl.last, rb_len |-> tbl.rb_len, rb_size |-> tbl.rb_size, size |-> tbl.size]
SizeAt(o) == NODE_SIZE(mem[o].h)

(* tfw_hpack_rbuf_calc(): the oldest entries go until the size is small enough.
   At most max of them when a list of them is kept.  The last entry of the
   table leaves the ring, and not the tree (stale). *)
RECURSIVE Calc(_, _, _, _)
Calc(it, new_size, del, max) ==
  IF Len(del) >= max THEN [r |-> "E2BIG", it |-> it, del |-> <<>>, stale |-> FALSE]
  ELSE IF it.last = it.first
  THEN [r |-> "ok", it |-> [it EXCEPT !.first = Nil, !.last = Nil, !.rb_len = 0, !.size = 0],
        del |-> del, stale |-> TRUE]
  ELSE LET f == SizeAt(it.first)
           wrap == it.last < it.first /\ it.rb_len - f = it.last + SizeAt(it.last)
           nxt == [it EXCEPT !.first = IF wrap THEN 0 ELSE @ + f,
                             !.rb_size = IF wrap THEN RbMax ELSE @,
                             !.rb_len = @ - f, !.size = @ - EntrySize(mem[it.first].h)]
           d == Append(del, it.first)
       IN IF nxt.size > new_size THEN Calc(nxt, new_size, d, max)
          ELSE [r |-> "ok", it |-> nxt, del |-> d, stale |-> FALSE]
tfw_hpack_rbuf_calc(new_size, max) == Calc(tfw_hpack_rbuf_iter(etbl), new_size, <<>>, max)

(* what an unlinked node holds is not read again *)
FreeNode == [ch |-> [l |-> Nil, r |-> Nil], p |-> Nil, black |-> FALSE, rindex |-> 0,
             h |-> [name |-> <<>>, val |-> <<>>, st |-> 0, full |-> FALSE]]
RECURSIVE EraseAll(_, _)
EraseAll(t, del) ==
  IF del = <<>> THEN t
  ELSE EraseAll([tfw_hpack_rbtree_erase(t, Head(del)) EXCEPT !.m[Head(del)] = FreeNode], Tail(del))

(* Where a node of len bytes goes: offset and the buffer's size, or no room. *)
Placed(it, len) ==
  LET end == RbMax - (it.last + SizeAt(it.last))
  IN IF it.rb_size < it.rb_len + len THEN [ok |-> FALSE]
     ELSE IF it.first = Nil THEN [ok |-> TRUE, off |-> 0, first |-> 0, rb_size |-> it.rb_size]
     ELSE IF it.first <= it.last /\ end < len
     THEN IF it.rb_size - end < it.rb_len + len THEN [ok |-> FALSE]
          ELSE [ok |-> TRUE, off |-> 0, first |-> it.first, rb_size |-> it.rb_size - end]
     ELSE [ok |-> TRUE, off |-> it.last + SizeAt(it.last), first |-> it.first, rb_size |-> it.rb_size]
(* The new node is written before the evicted ones leave the tree: the links
   of a node in the way, evicted already or stale, are lost. *)
RECURSIVE Linked(_, _)
Linked(t, x) == IF x = Nil THEN {} ELSE {x} \cup Linked(t, Ch(t, x, "l")) \cup Linked(t, Ch(t, x, "r"))
Overwrites(t, off, h, del) ==
  \E x \in Linked(t, t.root) :
    /\ x < off + NodeLen + Len(HdrStr(h)) /\ off < x + NODE_SIZE(t.m[x].h)
    /\ x # off \/ x \notin ToSet(del)

(* tfw_hpack_rbuf_commit(): the evicted nodes leave the tree, the place is
   looked for again, and the new node is linked. *)
tfw_hpack_rbuf_commit(t, h, del, off, place) ==
  LET t1 == [EraseAll(t, del) EXCEPT !.m[off].h = h, !.m[off].rindex = etbl.idx_acc + 1]
  IN IF Overwrites(t, off, h, del) THEN BugOn(t)
     ELSE tfw_hpack_rbtree_add(t1, off, IF del # <<>> THEN tfw_hpack_rbtree_find(t1, h) ELSE place)

(* tfw_hpack_add_node(): [ok, tbl, t, stale]; nothing changes when it fails. *)
tfw_hpack_add_node(h, place) ==
  LET size == EntrySize(h)
      full == etbl.size + size > etbl.window
      c == IF full THEN tfw_hpack_rbuf_calc(etbl.window - size, MaxEvict)
           ELSE [r |-> "ok", it |-> tfw_hpack_rbuf_iter(etbl), del |-> <<>>, stale |-> FALSE]
      pl == Placed(c.it, NODE_SIZE(h))
      added(t) == [ok |-> TRUE, t |-> t, stale |-> c.stale,
                   tbl |-> [etbl EXCEPT !.first = pl.first, !.last = pl.off, !.rb_size = pl.rb_size,
                                        !.rb_len = c.it.rb_len + NODE_SIZE(h), !.size = c.it.size + size,
                                        !.idx_acc = @ + 1, !.root = t.root]]
  IN IF size > etbl.window \/ c.r # "ok" \/ ~pl.ok THEN [ok |-> FALSE]
     ELSE added(tfw_hpack_rbuf_commit(Tree, h, c.del, pl.off, place))
-----------------------------------------------------------------------------
EncInit ==
  /\ etbl = [first |-> Nil, last |-> Nil, rb_len |-> 0, rb_size |-> RbMax, size |-> 0,
             window |-> RbMax, idx_acc |-> 0, guard |-> 0, root |-> Nil]
  /\ mem = [o \in 0 .. RbMax |-> FreeNode]
  /\ resp = [x \in Resps |-> [hdrs |-> <<>>, out |-> <<>>, entered |-> FALSE, st |-> "encode"]]
  /\ ctbl = <<>> /\ garbled = FALSE /\ ehit = FALSE /\ panic = FALSE

HPACK_NODE_GET_INDEX(x) == (etbl.idx_acc - mem[x].rindex) + StaticN + 1

(* tfw_hpack_encoder_index(): [res, index, add, guard, entered] under the lock *)
(* mutant: entries are added while others use the table *)
MayAddAlways(entered) == TRUE
MayAdd(entered) == IF entered THEN etbl.guard <= 1 ELSE etbl.guard = 0
IndexFound(h, entered, f, a) ==
  LET i == IF f.node = Nil THEN 0 ELSE HPACK_NODE_GET_INDEX(f.node)
      none == [res |-> "NOT_FOUND", index |-> 0, add |-> FALSE, guard |-> etbl.guard,
               entered |-> entered, node |-> Nil, new |-> a]
  IN IF ~entered /\ etbl.guard < 0 THEN none
     ELSE IF f.res # "FOUND" /\ MayAdd(entered) /\ a.ok
     THEN [none EXCEPT !.res = f.res, !.index = i, !.add = TRUE, !.guard = 0 - 1,
                       !.entered = TRUE, !.node = f.node]
     ELSE IF ~entered /\ f.res # "NOT_FOUND"
     THEN [none EXCEPT !.res = f.res, !.index = i, !.guard = @ + 1, !.entered = TRUE, !.node = f.node]
     ELSE [none EXCEPT !.res = f.res, !.index = i, !.node = f.node]
tfw_hpack_encoder_index(h, entered) ==
  LET with(f) == IndexFound(h, entered, f, tfw_hpack_add_node(h, f))
  IN with(tfw_hpack_rbtree_find(Tree, h))

(* tfw_hpack_encode(): how a header goes to the wire.  tfw_hpack_hdr_add(),
   tfw_hpack_hdr_inplace() and, when there is no room, tfw_hpack_hdr_expand()
   write the same bytes; without an index the strings are written too. *)
Rep(h, e) ==
  IF h.full \/ e.res = "FOUND"
  THEN [kind |-> "indexed", idx |-> write_int(IF e.index = 0 THEN h.st ELSE e.index, 127)]
  ELSE LET i == IF h.st > 0 THEN h.st ELSE IF e.res = "NM_FOUND" THEN e.index ELSE 0
       IN [kind |-> IF e.add THEN "add" ELSE "literal", val |-> h.val,
           idx |-> IF i = 0 THEN <<0>> ELSE write_int(i, IF e.add THEN 63 ELSE 15),
           name |-> IF i = 0 THEN h.name ELSE <<>>]
tfw_hpack_encode(x, h) ==
  /\ resp[x].st = "encode" /\ Len(resp[x].hdrs) < MaxHdrs /\ ~panic
  /\ etbl.idx_acc < MaxIdx
  /\ \E e \in {IF h.full THEN [res |-> "NOT_FOUND", index |-> 0, add |-> FALSE, guard |-> etbl.guard,
                              entered |-> resp[x].entered, node |-> Nil]
              ELSE tfw_hpack_encoder_index(h, resp[x].entered)} :
       /\ resp' = [resp EXCEPT ![x].hdrs = Append(@, h), ![x].out = Append(@, Rep(h, e)),
                               ![x].entered = e.entered]
       /\ etbl' = [(IF e.add THEN e.new.tbl ELSE etbl) EXCEPT !.guard = e.guard]
       /\ mem' = IF e.add THEN e.new.t.m ELSE mem
       /\ panic' = (e.add /\ e.new.t.bug)
       /\ ehit' = (ehit \/ (e.add /\ (e.new.stale \/ e.new.t.bug)) \/ (e.node # Nil /\ mem[e.node].h.name # h.name))
  /\ UNCHANGED <<ctbl, garbled>>

(* The client (external): its table follows RFC 7541. *)
SumSizes(s) == LET f[i \in 0 .. Len(s)] == IF i = 0 THEN 0 ELSE f[i - 1] + EntrySize(s[i]) IN f[Len(s)]
RECURSIVE Fit(_, _)
Fit(s, w) == IF SumSizes(s) <= w THEN s ELSE Fit(SubSeq(s, 1, Len(s) - 1), w)
StaticHdr(i) == CHOOSE h \in Headers : h.st = i
NV(h) == [name |-> h.name, val |-> h.val]
RECURSIVE ClientDecode(_, _, _)
ClientDecode(reps, tab, out) ==
  IF reps = <<>> THEN [ok |-> TRUE, tab |-> tab, hdrs |-> out]
  ELSE LET rp == Head(reps)
           i == ReadInt(rp.idx, CASE rp.kind = "indexed" -> 127 [] rp.kind = "add" -> 63 [] OTHER -> 15)
           known == i <= StaticN \/ i - StaticN <= Len(tab)
           ref == IF i <= StaticN THEN NV(StaticHdr(i)) ELSE tab[i - StaticN]
           new == IF rp.kind = "indexed" THEN ref
                  ELSE [name |-> IF i = 0 THEN rp.name ELSE ref.name, val |-> rp.val]
       IN IF i = Nil \/ (i > 0 /\ ~known) THEN [ok |-> FALSE, tab |-> tab, hdrs |-> out]
          ELSE ClientDecode(Tail(reps), IF rp.kind = "add" THEN Fit(<<new>> \o tab, etbl.window) ELSE tab,
                            Append(out, new))

(* tfw_hpack_enc_release() *)
Release(x) ==
  etbl' = [etbl EXCEPT !.guard = IF ~resp[x].entered THEN @ ELSE IF @ < 0 THEN 0 ELSE @ - 1]
(* tfw_h2_resp_fwd(): the response is queued to the socket and only then the
   table is released. *)
tfw_h2_resp_fwd(x) ==
  /\ resp[x].st = "encode" /\ resp[x].hdrs # <<>> /\ ~panic
  /\ LET d == ClientDecode(resp[x].out, ctbl, <<>>)
     IN /\ ctbl' = d.tab
        /\ garbled' = (garbled \/ ~d.ok \/ d.hdrs # [k \in 1 .. Len(resp[x].hdrs) |-> NV(resp[x].hdrs[k])])
  /\ Release(x)
  /\ resp' = [resp EXCEPT ![x] = [hdrs |-> <<>>, out |-> <<>>, entered |-> FALSE, st |-> "encode"]]
  /\ UNCHANGED <<mem, ehit, panic>>
(* tfw_h2_resp_adjust_fwd(), label clean: the response is dropped, its entries
   stay in the table. *)
Dropped(x) ==
  /\ resp[x].st = "encode" /\ resp[x].hdrs # <<>> /\ ~panic
  /\ Release(x)
  /\ ehit' = (ehit \/ \E k \in 1 .. Len(resp[x].out) : resp[x].out[k].kind = "add")
  /\ resp' = [resp EXCEPT ![x] = [hdrs |-> <<>>, out |-> <<>>, entered |-> FALSE, st |-> "encode"]]
  /\ UNCHANGED <<mem, ctbl, garbled, panic>>

(* tfw_hpack_set_rbuf_size(): the client's SETTINGS_HEADER_TABLE_SIZE; the
   client's own table shrinks with the acknowledgement. *)
tfw_hpack_set_rbuf_size(n) ==
  /\ n < etbl.window /\ ~panic
  /\ LET c == IF etbl.size > n THEN tfw_hpack_rbuf_calc(n, MaxIdx + 1)
              ELSE [r |-> "ok", it |-> tfw_hpack_rbuf_iter(etbl), del |-> <<>>, stale |-> FALSE]
         t == EraseAll(Tree, c.del)
     IN /\ etbl' = [etbl EXCEPT !.first = c.it.first, !.last = c.it.last, !.rb_len = c.it.rb_len,
                                !.rb_size = c.it.rb_size, !.size = c.it.size, !.root = t.root,
                                !.window = n]
        /\ mem' = t.m
        /\ ehit' = (ehit \/ c.stale \/ (etbl.guard # 0 /\ c.del # <<>>))
  /\ ctbl' = Fit(ctbl, n)
  /\ UNCHANGED <<resp, garbled, panic>>

EncNext ==
  \/ \E x \in Resps : tfw_h2_resp_fwd(x) \/ Dropped(x)
  \/ \E x \in Resps, h \in Headers : tfw_hpack_encode(x, h)
  \/ \E n \in Sizes : tfw_hpack_set_rbuf_size(n)
-----------------------------------------------------------------------------
(* The entries of the ring, newest first. *)
RECURSIVE Ring(_, _)
Ring(o, acc) ==
  IF o = etbl.last THEN <<NV(mem[o].h)>> \o acc
  ELSE LET nxt == o + SizeAt(o)
       IN Ring(IF etbl.last < o /\ (nxt >= RbMax \/ mem[nxt].rindex # mem[o].rindex + 1) THEN 0 ELSE nxt,
               <<NV(mem[o].h)>> \o acc)
RingSeq == IF etbl.first = Nil THEN <<>> ELSE Ring(etbl.first, <<>>)
RECURSIVE BlackHeight(_)
BlackHeight(x) ==
  IF x = Nil THEN 1
  ELSE LET a == BlackHeight(mem[x].ch["l"])  b == BlackHeight(mem[x].ch["r"])
       IN IF a = 0 \/ a # b THEN 0 ELSE a + (IF mem[x].black THEN 1 ELSE 0)
RbTree ==
  LET nodes == Linked(Tree, etbl.root)
  IN /\ Cardinality(nodes) = Len(RingSeq)
     /\ {NV(mem[x].h) : x \in nodes} = {RingSeq[k] : k \in 1 .. Len(RingSeq)}
     /\ BlackHeight(etbl.root) > 0
     /\ \A x \in nodes : \A s \in {"l", "r"} :
          LET c == mem[x].ch[s]
          IN c # Nil => /\ mem[c].p = x /\ (mem[x].black \/ mem[c].black)
                        /\ \A y \in Linked(Tree, c) :
                             Lex(HdrStr(mem[y].h), HdrStr(mem[x].h)) = (IF s = "l" THEN 0 - 1 ELSE 1)

(* Whatever responses are encoded at once, in whatever order they are sent and  *)
(* whatever the ring evicts or has no room for, the client decodes the headers  *)
(* of the response, except after a recorded defect.                             *)
EncoderInSync ==
  ~ehit => /\ ~garbled /\ ~panic
           /\ etbl.guard >= 0 => ctbl = RingSeq

(* The ring and the red-black tree hold the same entries, each once, in order   *)
(* and balanced, through every insertion and eviction.                          *)
TreeIsRing == ~ehit => RbTree

(* The encoder's table is what the client's decoder has, and its tree is a
   binary tree of the ring's entries. *)
EncoderSound == EncoderInSync /\ TreeIsRing
=============================================================================

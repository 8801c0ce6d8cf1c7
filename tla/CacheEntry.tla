----------------------------- MODULE CacheEntry -----------------------------
(***************************************************************************)
(* How a response is stored in a record of TempestaDB and how it is built  *)
(* again from it (cache.c: tfw_cache_copy_resp(), tfw_cache_build_resp(),  *)
(* tfw_cache_send_304(), tfw_cache_entry_key_eq()).                        *)
(*                                                                         *)
(* A record is a chain of chunks whose sizes TempestaDB chooses.  What is  *)
(* written are cells: letters, encoded integers and the descriptors (TfwCStr) *)
(* in front of headers.  The size of the entry is computed before anything *)
(* is written, by a function of its own; what is left of it is the size    *)
(* asked for each further chunk.                                           *)
(*                                                                         *)
(* tdb_entry_get_room() moves on to a new chunk when a small header does   *)
(* not fit, and then sets the length of the chunk it leaves to the room    *)
(* that was left there instead of to what was used; descriptors of         *)
(* repeated headers are written without looking for room at all.  Entries  *)
(* with such headers (chop) cannot be read again.                          *)
(***************************************************************************)
EXTENDS Integers, Sequences, FiniteSets, SequencesExt

CONSTANTS
  LineSize,     \* L1_CACHE_BYTES, in cells
  FirstCaps,    \* room of the first chunk behind TfwCacheEntry
  NextCaps,     \* room of a further chunk
  BodyLens,
  MaxHdrs       \* headers of a response

VARIABLES
  cresp,    \* the response of a server
  centry,   \* the entry it is stored in
  cout      \* what was built from the entry
entryVars == <<cresp, centry, cout>>

(* A header: the table entry it is in, the index of its name in the static
   table (0: none), name and values (more than one: duplicates). *)
Word(x, n) == [i \in 1 .. n |-> <<x, i>>]
Hdr(name, idx, vals) == [name |-> name, idx |-> idx, vals |-> vals]
Quote == <<<<"quote", 0>>>>
Hdrs == {Hdr("etag", 34, <<Quote \o Word("e", 2) \o Quote>>),
         Hdr("content-type", 31, <<Word("t", 1)>>),
         Hdr("date", 33, <<Word("d", LineSize + 1)>>),
         Hdr("last-modified", 44, <<Word("l", 1)>>),
         Hdr("x", 0, <<Word("x", 1)>>),
         Hdr("set-cookie", 55, <<Word("a", 1), Word("b", 1)>>),
         Hdr("connection", 0, <<Word("c", 1)>>),
         Hdr("server", 54, <<Word("s", 1)>>)}
TFW_STR_HBH_HDR(h) == h.name = "connection"
HdrsOf(n) == {s \in UNION {[1 .. k -> Hdrs] : k \in 0 .. n} :
                \A i, j \in DOMAIN s : i < j => s[i] # s[j]}
ServerHdr == Hdr("server", 54, <<Word("T", 1)>>)
ViaHdr == Hdr("via", 60, <<Word("V", 2)>>)
Key == Word("u", 1) \o Word("h", 2)
OtherKeys == {Word("u", 1) \o Word("g", 2), Word("u", 2) \o Word("h", 2), Word("u", 1)}
StoredResps == {r \in [status : {200, 201}, rph : {Word("r", 1)}, hdrs : HdrsOf(MaxHdrs),
                 body : {Word("B", n) : n \in BodyLens}, first : FirstCaps, next : NextCaps] :
            r.status = 201 => Len(r.hdrs) < 2}

NoEntry == [mem |-> <<>>]
Nothing == [kind |-> "none"]
EntryInit == cresp \in StoredResps /\ centry = NoEntry /\ cout = Nothing
-----------------------------------------------------------------------------
(* Encoding: integers with the prefix max, and the three forms of a header. *)
tfw_hpack_int_size(n, max) == IF n < max THEN 1 ELSE 2
write_int(n, max) == [i \in 1 .. tfw_hpack_int_size(n, max) |-> <<"int", n, i>>]
NameLen(h) == 1
tfw_h2_hdr_size(h, val) ==
  (IF h.idx # 0 THEN tfw_hpack_int_size(h.idx, 15) ELSE 1 + tfw_hpack_int_size(NameLen(h), 127) + NameLen(h))
    + tfw_hpack_int_size(Len(val), 127) + Len(val)
Coded(h, val) ==
  (IF h.idx # 0 THEN write_int(h.idx, 15)
   ELSE write_int(0, 15) \o write_int(NameLen(h), 127) \o <<<<"name", h.name>>>>)
    \o write_int(Len(val), 127) \o val
tfw_h2_pseudo_index(status) == IF status = 200 THEN 8 ELSE 0
StatusCells(status) ==
  IF tfw_h2_pseudo_index(status) # 0 THEN write_int(tfw_h2_pseudo_index(status), 127)
  ELSE write_int(8, 15) \o write_int(3, 127) \o [i \in 1 .. 3 |-> <<"status", status, i>>]
Skipped(h) == TFW_STR_HBH_HDR(h) \/ h.name = "server"
Stored(r) == SelectSeq(r.hdrs, LAMBDA h : ~Skipped(h))
SumSeq(s) == FoldSeq(LAMBDA x, acc : x + acc, 0, s)

(* mutant: the descriptor of a set of duplicates is not counted *)
EntrySizeDup(r) ==
  LET size(h) == SumSeq([i \in DOMAIN h.vals |-> 1 + tfw_h2_hdr_size(h, h.vals[i])])
  IN Len(Key) + 1 + (IF tfw_h2_pseudo_index(r.status) = 0 THEN 4 ELSE 0)
       + SumSeq([i \in DOMAIN Stored(r) |-> size(Stored(r)[i])])
       + 1 + tfw_h2_hdr_size(ServerHdr, ServerHdr.vals[1]) + 1 + tfw_h2_hdr_size(ViaHdr, ViaHdr.vals[1])
       + Len(r.body) + Len(r.rph)
__cache_entry_size(r) ==
  LET size(h) == IF Len(h.vals) = 1 THEN 1 + tfw_h2_hdr_size(h, h.vals[1])
                 ELSE 1 + SumSeq([i \in DOMAIN h.vals |-> 1 + tfw_h2_hdr_size(h, h.vals[i])])
  IN Len(Key) + 1 + (IF tfw_h2_pseudo_index(r.status) = 0 THEN 4 ELSE 0)
       + SumSeq([i \in DOMAIN Stored(r) |-> size(Stored(r)[i])])
       + 1 + 2 + tfw_hpack_int_size(1, 127) + 1 + 1 + 2 + tfw_hpack_int_size(2, 127) + 2
       + Len(r.body) + Len(r.rph)
-----------------------------------------------------------------------------
(* Writing: w = [mem, tot, next, chop]; the place is behind the last cell of
   the last chunk. *)
Smaller(a, b) == IF a < b THEN a ELSE b
LastChunk(w) == w.mem[Len(w.mem)]
Room(w) == LastChunk(w).len - Len(LastChunk(w).cells)
Place(w) == [c |-> Len(w.mem), o |-> Len(LastChunk(w).cells)]
tdb_htrie_extend_rec(w) ==
  [w EXCEPT !.mem = Append(@, [len |-> Smaller(w.tot, w.next), cells |-> <<>>])]
PutCell(w, x) ==
  LET v == IF Room(w) = 0 THEN tdb_htrie_extend_rec(w) ELSE w
  IN [v EXCEPT !.mem[Len(v.mem)].cells = Append(@, x), !.tot = @ - 1]
__tfw_cache_strcpy(w, cells) == FoldLeft(PutCell, w, cells)
tdb_entry_get_room(w, n) ==
  IF Room(w) >= n THEN w
  ELSE tdb_htrie_extend_rec([w EXCEPT !.mem[Len(w.mem)].len = @ - Len(LastChunk(w).cells), !.chop = TRUE])
(* CSTR_MOVE_HDR() and CSTR_WRITE_HDR() *)
Descr(w, dup, n) ==
  [w EXCEPT !.mem[Len(w.mem)].cells = Append(@, <<"cs", dup, n>>), !.tot = @ - 1,
            !.chop = @ \/ Room(w) = 0]
CopyVal(h, w, val) ==
  __tfw_cache_strcpy(Descr(w, FALSE, tfw_h2_hdr_size(h, val)), Coded(h, val))
tfw_cache_h2_copy_hdr(w, h) ==
  LET size == tfw_h2_hdr_size(h, h.vals[1])
      dup == Len(h.vals) > 1
      v == tdb_entry_get_room(w, IF ~dup /\ 1 + size <= LineSize THEN 1 + size ELSE 1)
  IN FoldLeft(LAMBDA u, val : CopyVal(h, u, val), IF dup THEN Descr(v, TRUE, Len(h.vals)) ELSE v, h.vals)
tfw_cache_h2_add_hdr(w, h) ==
  LET size == tfw_h2_hdr_size(h, h.vals[1])
  IN CopyVal(h, tdb_entry_get_room(w, IF 1 + size <= LineSize THEN 1 + size ELSE 1), h.vals[1])

(* The place of a header that a 304 repeats; last-modified only without an
   etag, the slots in the order of tfw_cache_raw_headers_304. *)
Raw304 == <<"etag", "cache-control", "content-location", "date", "expires", "last-modified", "vary">>
__save_hdr_304_off(offs, r, h, place) ==
  IF h.name \in Range(Raw304) /\ ~(h.name = "last-modified" /\ \E i \in DOMAIN r.hdrs : r.hdrs[i].name = "etag")
  THEN [offs EXCEPT ![CHOOSE i \in DOMAIN Raw304 : Raw304[i] = h.name] = place]
  ELSE offs
None304 == [i \in DOMAIN Raw304 |-> [c |-> 0, o |-> 0]]
CopyHdrs(w, r) ==
  FoldLeft(LAMBDA acc, h : [w |-> tfw_cache_h2_copy_hdr(acc.w, h),
                            offs |-> __save_hdr_304_off(acc.offs, r, h, Place(acc.w))],
           [w |-> w, offs |-> None304], Stored(r))

(* Advance over n cells (CHECK_REC_SPACE). *)
RECURSIVE Advance(_, _, _)
Advance(mem, p, n) ==
  LET tail == mem[p.c].len - p.o
  IN IF n <= tail THEN [p EXCEPT !.o = @ + n] ELSE Advance(mem, [c |-> p.c + 1, o |-> 0], n - tail)
(* mutant: the index of etag is taken for one cell *)
SetEtagShort(w, r, place) ==
  LET h == r.hdrs[CHOOSE i \in DOMAIN r.hdrs : r.hdrs[i].name = "etag"]
      p == [place EXCEPT !.o = @ + 1]
      e == Advance(w.mem, p, 1 + tfw_hpack_int_size(Len(h.vals[1]), 127) + Len(Quote))
  IN [w |-> IF w.mem[e.c].len - e.o >= 2 THEN w ELSE tdb_entry_get_room(w, 1), at |-> e, len |-> 2]
(* The etag is a string over the chunks of its value; descriptors of several
   pieces are put behind the body, for which the last chunk has no room. *)
__set_etag(w, r, place) ==
  LET h == r.hdrs[CHOOSE i \in DOMAIN r.hdrs : r.hdrs[i].name = "etag"]
      p == IF place.o + 1 > w.mem[place.c].len THEN [c |-> place.c + 1, o |-> 1] ELSE [place EXCEPT !.o = @ + 1]
      v == Advance(w.mem, p, 2 + tfw_hpack_int_size(Len(h.vals[1]), 127))
      e == Advance(w.mem, v, Len(Quote))
      len == Len(h.vals[1]) - 2 * Len(Quote)
  IN [w |-> IF w.mem[e.c].len - e.o >= len THEN w ELSE tdb_entry_get_room(w, 1), at |-> e, len |-> len]

tfw_cache_copy_resp(r) ==
  LET tot == __cache_entry_size(r)
      w0 == [mem |-> <<[len |-> Smaller(tot, r.first), cells |-> <<>>]>>, tot |-> tot, next |-> r.next,
             chop |-> FALSE]
      wk == __tfw_cache_strcpy(w0, Key)
      ws == __tfw_cache_strcpy(__tfw_cache_strcpy(wk, StatusCells(r.status)), r.rph)
      wh == CopyHdrs(ws, r)
      wv == tfw_cache_h2_add_hdr(tfw_cache_h2_add_hdr(wh.w, ServerHdr), ViaHdr)
      wb == __tfw_cache_strcpy(wv, r.body)
      et == IF \E i \in DOMAIN r.hdrs : r.hdrs[i].name = "etag" /\ ~wb.chop
            THEN __set_etag(wb, r, wh.offs[1]) ELSE [w |-> wb, at |-> Place(wb), len |-> 0]
  IN [mem |-> et.w.mem, chop |-> et.w.chop, left |-> wb.tot, key_len |-> Len(Key), status |-> Place(wk),
      status_len |-> Len(StatusCells(r.status)), rph_len |-> Len(r.rph), body |-> Place(wv),
      body_len |-> Len(r.body), hdr_num |-> Len(Stored(r)) + 2, hdr_h2_off |-> Len(Stored(r)) + 1,
      hdrs_304 |-> wh.offs, etag |-> [at |-> et.at, len |-> et.len]]
-----------------------------------------------------------------------------
(* Reading: rd = [mem, c, o, text] *)
RECURSIVE tfw_cache_h2_write(_, _, _)
tfw_cache_h2_write(rd, n, skip) ==
  LET m == Smaller(rd.mem[rd.c].len - rd.o, n)
      s == SubSeq(rd.mem[rd.c].cells, rd.o + 1, rd.o + m)
      nx == [rd EXCEPT !.o = @ + m, !.text = IF skip THEN @ ELSE @ \o s]
  IN IF m = n THEN nx ELSE tfw_cache_h2_write([nx EXCEPT !.c = @ + 1, !.o = 0], n - m, skip)
CellAt(rd) == rd.mem[rd.c].cells[rd.o + 1]
tfw_cache_build_resp_hdr(rd, skip) ==
  LET val(x) == tfw_cache_h2_write([x EXCEPT !.o = @ + 1], CellAt(x)[3], skip)
      RECURSIVE vals(_, _)
      vals(x, n) == IF n = 0 THEN x ELSE vals(val(x), n - 1)
  IN IF CellAt(rd)[2] THEN vals([rd EXCEPT !.o = @ + 1], CellAt(rd)[3]) ELSE val(rd)
RECURSIVE ReadHdrs(_, _, _, _)
ReadHdrs(rd, h, e, h2) ==
  IF h = e.hdr_num THEN rd
  ELSE ReadHdrs(tfw_cache_build_resp_hdr(rd, ~h2 /\ h >= e.hdr_h2_off), h + 1, e, h2)
(* The first chunk that holds the place. *)
RECURSIVE SeekFrom(_, _, _)
SeekFrom(mem, c, p) ==
  IF p.c > c \/ (p.c = c /\ p.o > mem[c].len) THEN SeekFrom(mem, c + 1, p) ELSE c
(* An HTTP/2 client gets the encoded status, an HTTP/1 client the status in
   digits and the reason phrase; "via" is not taken from the entry for it. *)
tfw_cache_set_status(rd, e, r, h2) ==
  LET a == tfw_cache_h2_write(rd, e.status_len, ~h2)
      b == IF h2 THEN a ELSE [a EXCEPT !.text = @ \o <<<<"line", r.status>>>>]
  IN tfw_cache_h2_write(b, e.rph_len, h2)
tfw_cache_build_resp(e, h2) ==
  LET rd == [mem |-> e.mem, c |-> SeekFrom(e.mem, 1, e.status), o |-> e.status.o, text |-> <<>>]
      hd == ReadHdrs(tfw_cache_set_status(rd, e, cresp, h2), 0, e, h2)
      bd == tfw_cache_h2_write(hd, e.body_len, FALSE)
  IN [text |-> bd.text, body |-> [c |-> hd.c, o |-> hd.o]]
(* Chunks are only ever searched forward from the one reached: a header that
   is found behind it is read as if it lay in one piece. *)
RECURSIVE Send304From(_, _, _)
Send304From(e, i, rd) ==
  LET p == e.hdrs_304[i]
      c == SeekFrom(rd.mem, rd.c, p)
      at == [rd EXCEPT !.c = p.c, !.o = p.o]
      nx == tfw_cache_build_resp_hdr(at, FALSE)
      back == [nx EXCEPT !.c = c, !.text = IF nx.c = p.c THEN @ ELSE <<"garbage">>]
  IN IF i > Len(e.hdrs_304) THEN rd
     ELSE IF p.c = 0 THEN Send304From(e, i + 1, rd)
     ELSE Send304From(e, i + 1, IF c = p.c THEN nx ELSE back)
tfw_cache_send_304(e) == Send304From(e, 1, [mem |-> e.mem, c |-> 1, o |-> 0, text |-> <<>>]).text

(* The key of an entry against the pieces of a request's key. *)
RECURSIVE KeyFrom(_, _, _, _)
KeyFrom(e, c, o, key) ==
  LET n == Smaller(Len(key), e.mem[c].len - o)
  IN IF key = <<>> THEN TRUE
     ELSE IF c > Len(e.mem) THEN FALSE
     ELSE IF SubSeq(e.mem[c].cells, o + 1, o + n) # SubSeq(key, 1, n) THEN FALSE
     ELSE IF n = e.mem[c].len - o THEN KeyFrom(e, c + 1, 0, SubSeq(key, n + 1, Len(key)))
     ELSE KeyFrom(e, c, o + n, SubSeq(key, n + 1, Len(key)))
tfw_cache_entry_key_eq(e, key) == Len(key) = e.key_len /\ KeyFrom(e, 1, 0, key)
-----------------------------------------------------------------------------
__cache_add_node ==
  /\ centry = NoEntry
  /\ centry' = tfw_cache_copy_resp(cresp)
  /\ UNCHANGED <<cresp, cout>>
Built(h2) ==
  /\ centry # NoEntry /\ cout = Nothing /\ ~centry.chop
  /\ cout' = [kind |-> IF h2 THEN "h2" ELSE "h1", got |-> tfw_cache_build_resp(centry, h2)]
  /\ UNCHANGED <<cresp, centry>>
Sent304 ==
  /\ centry # NoEntry /\ cout = Nothing /\ ~centry.chop
  /\ cout' = [kind |-> "304", got |-> [text |-> tfw_cache_send_304(centry), body |-> centry.body]]
  /\ UNCHANGED <<cresp, centry>>
EntryNext == __cache_add_node \/ (\E h2 \in BOOLEAN : Built(h2)) \/ Sent304
-----------------------------------------------------------------------------
HdrText(h) == FlattenSeq([i \in DOMAIN h.vals |-> Coded(h, h.vals[i])])
HdrsText(s) == FlattenSeq([i \in DOMAIN s |-> HdrText(s[i])])
Wanted(kind) ==
  IF kind = "h2" THEN StatusCells(cresp.status) \o HdrsText(Stored(cresp) \o <<ServerHdr, ViaHdr>>) \o cresp.body
  ELSE IF kind = "h1"
  THEN <<<<"line", cresp.status>>>> \o cresp.rph \o HdrsText(Append(Stored(cresp), ServerHdr)) \o cresp.body
  ELSE LET has(n) == \E i \in DOMAIN cresp.hdrs : cresp.hdrs[i].name = n
           the(n) == cresp.hdrs[CHOOSE i \in DOMAIN cresp.hdrs : cresp.hdrs[i].name = n]
           names == SelectSeq(Raw304, LAMBDA n : has(n) /\ ~(n = "last-modified" /\ has("etag")))
       IN HdrsText([i \in DOMAIN names |-> the(names[i])])
EtagText(e) == tfw_cache_h2_write([mem |-> e.mem, c |-> e.etag.at.c, o |-> e.etag.at.o, text |-> <<>>],
                                  e.etag.len, FALSE).text

(* the headers of a 304 lie in the order they are asked for *)
Forward(e) ==
  \A i, j \in DOMAIN e.hdrs_304 : i < j /\ e.hdrs_304[j].c # 0 => e.hdrs_304[i].c <= e.hdrs_304[j].c

(* The size computed in advance is exactly what is written, wherever the
   database cuts the record; and unless a small header met the end of a
   chunk, the response that is built for an HTTP/1 or an HTTP/2 client, the
   headers of a 304 (none of them behind one asked for later) and the etag are those of the stored response, and the
   entry is found by its own key only. *)
EntryRebuilt ==
  centry # NoEntry =>
    /\ centry.left = 0
    /\ ~centry.chop =>
         /\ cout # Nothing /\ (cout.kind = "304" => Forward(centry)) =>
              cout.got.text = Wanted(cout.kind) /\ cout.got.body = centry.body
         /\ centry.etag.len > 0 => EtagText(centry) = Word("e", 2)
         /\ tfw_cache_entry_key_eq(centry, Key)
         /\ \A k \in OtherKeys : ~tfw_cache_entry_key_eq(centry, k)
=============================================================================

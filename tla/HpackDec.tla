------------------------------ MODULE HpackDec ------------------------------
(***************************************************************************)
(* The HPACK decoder of fw/hpack.c.  A header block arrives in fragments   *)
(* of any size and tfw_hpack_decode() is re-entered with each of them in   *)
(* the state it stopped in.  One action is one state of the FSM.  Where    *)
(* the code's result is not the one of RFC 7541 because of how the block   *)
(* is cut or of the table's history, `hit' remembers it.                   *)
(***************************************************************************)
EXTENDS Integers, Sequences, FiniteSets, Bitwise

CONSTANTS Wires,       \* header blocks, as sequences of bytes
          Static,      \* static_table: [name, val, tag], val <<>> when there is none
          Methods,     \* indexes of the static table that are methods known by index
          Codes,       \* ht_encode, ht_length: symbol -> its code, a sequence of bits
          SmallTables, \* the prefixes whose table has HT_MBITS index bits
          HPACK_LIMIT, \* the greatest integer of a block
          Overhead,    \* HPACK_ENTRY_OVERHEAD
          RingLen,     \* the first length of the dynamic table, 32 in the code
          MaxWindow    \* hp->max_window
ASSUME DecSizes == HPACK_LIMIT > 127 /\ HPACK_LIMIT < 2^21 /\ RingLen > 0 /\ Overhead > 0

VARIABLES wire, src, last, hp, tbl, hdr, hdrs, r, hit
dvars == <<wire, src, last, hp, tbl, hdr, hdrs, r, hit>>

NBITS == 7                  \* HT_NBITS
MBITS == 3                  \* HT_MBITS
LowerOf(a, b) == IF a < b THEN a ELSE b
NoHdr == [name |-> <<>>, val |-> <<>>, tag |-> "raw"]
SizeOf(e) == Overhead + Len(e.name) + Len(e.val)
-----------------------------------------------------------------------------
(* tfw_huffman_init(), tfw_hpack_reinit(), tfw_hpack_init() *)
tfw_huffman_init(h) == [h EXCEPT !.curr = 0 - NBITS]
tfw_hpack_reinit(h) == [h EXCEPT !.st = "READY", !.fl = {}, !.shift = 0, !.index = 0]
tfw_hpack_init ==
  /\ hp = tfw_huffman_init([st |-> "READY", fl |-> {}, shift |-> 0, index |-> 0,
                            length |-> 0, hctx |-> <<>>, curr |-> 0])
  /\ tbl = [e |-> <<>>, n |-> 0, curr |-> 0, length |-> 0, size |-> 0, window |-> MaxWindow]

DecInit ==
  /\ wire \in Wires /\ src = 0 /\ last = 0 /\ hdr = NoHdr /\ hdrs = <<>>
  /\ r = "postpone" /\ hit = FALSE
  /\ tfw_hpack_init

(* (__c & 127) << __m in 32 bits; HPACK_LIMIT + 1 stands for all that is above it *)
Shl32(c, m) ==
  LET k == m % 32  w == IF k > 24 THEN c % 2^(32 - k) ELSE c
  IN IF w = 0 THEN 0 ELSE IF k > 20 THEN HPACK_LIMIT + 1 ELSE w * 2^k
Truncated(c, m) == c % 128 > 0 /\ (m > 31 \/ (m > 24 /\ c % 128 >= 2^(32 - m)))

(* GET_FLEXIBLE(): <<value, next byte, shift, "done" | "more" | "drop", hit>> *)
RECURSIVE Flexible(_, _, _, _)
Flexible(x, q, m, h) ==
  IF q >= last THEN <<x, q, m, "more", h>>
  ELSE LET c == wire[q + 1]
           y == x + Shl32(c % 128, m)
           g == h \/ Truncated(c, m)
       IN IF y > HPACK_LIMIT THEN <<y, q + 1, m + 7, "drop", g>>
          ELSE IF c > 127 THEN Flexible(y, q + 1, m + 7, g)
          ELSE <<y, q + 1, m + 7, "done", g>>
GET_FLEXIBLE(x, q) == Flexible(x, q, 0, FALSE)

(* GET_CONTINUE(): the first byte is added, the following ones are or-ed. *)
Bit(x, i) == (x \div 2^i) % 2
RECURSIVE OredBytes(_, _, _, _)
OredBytes(x, q, m, h) ==
  IF q >= last THEN <<x, q, m, "more", h>>
  ELSE LET c == wire[q + 1]
           y == x | Shl32(c % 128, m)
           g == h \/ Truncated(c, m) \/ y # x + Shl32(c % 128, m)
       IN IF y > HPACK_LIMIT THEN <<y, q + 1, m + 7, "drop", g>>
          ELSE IF c > 127 THEN OredBytes(y, q + 1, m + 7, g)
          ELSE <<y, q + 1, m + 7, "done", g>>
GET_CONTINUE(x, q) ==
  LET c == wire[q + 1]
      y == x + Shl32(c % 128, hp.shift)
      g == Truncated(c, hp.shift)
  IN IF y > HPACK_LIMIT THEN <<y, q + 1, 0, "drop", g>>
     ELSE IF c > 127 THEN OredBytes(y, q + 1, hp.shift + 7, g)
     ELSE <<y, q + 1, 0, "done", g>>
-----------------------------------------------------------------------------
(* The Huffman decoder.  A table of ht_decode is named by the prefix that
   leads to it; `curr' is the number of unread bits less the bits of the
   table's index.  ht_decode[offset + i]: the symbol whose code the prefix
   and the index begin with, or a further table, or nothing. *)
Begins(s, t) == Len(s) <= Len(t) /\ SubSeq(t, 1, Len(s)) = s
ht_decode(off, i) ==
  LET path == off \o i
      syms == {s \in DOMAIN Codes : Begins(off, Codes[s]) /\ Begins(Codes[s], path)}
  IN IF syms # {}
     THEN LET s == CHOOSE s \in syms : TRUE
          IN [sym |-> s, shift |-> Len(Codes[s]) - Len(off), off |-> <<>>]
     ELSE [sym |-> 0,
           shift |-> IF \E s \in DOMAIN Codes : Begins(path, Codes[s]) THEN 0 - NBITS ELSE 0,
           off |-> path]
ByteBits(c) == [j \in 1 .. 8 |-> Bit(c, 8 - j)]
SET_NEXT(z) == [z EXCEPT !.hctx = @ \o ByteBits(wire[z.q + 1]), !.curr = @ + 8,
                         !.q = @ + 1, !.len = @ - 1]
(* (hctx >> curr) & mask with w bits of mask; a negative shift fills with zeros *)
Index(z, w) ==
  LET b == z.hctx \o [j \in 1 .. w |-> 0]
      n == Len(z.hctx) - z.curr
  IN SubSeq(b, n - w + 1, n)
Unread(z) == LowerOf(z.curr + NBITS, NBITS)
tfw_hpack_huffman_write(z, s) == [z EXCEPT !.out = Append(@, s)]
Padding(i, k) == \A j \in 1 .. k : i[j] = 1

RECURSIVE huffman_decode_tail(_, _)
huffman_decode_tail(z, off) ==
  IF z.curr = 0 - NBITS THEN [z EXCEPT !.r = IF off = <<>> THEN "ok" ELSE "drop"]
  ELSE LET i == Index(z, NBITS)  d == ht_decode(off, i)
       IN IF d.shift > 0 /\ d.shift <= z.curr + NBITS
          THEN huffman_decode_tail([tfw_hpack_huffman_write(z, d.sym) EXCEPT !.curr = @ - d.shift], <<>>)
          ELSE [z EXCEPT !.r = IF d.shift # 0 /\ off = <<>> /\ Padding(i, Unread(z))
                               THEN "ok" ELSE "drop"]
huffman_decode_tail_s(z, off) ==
  IF z.curr = 0 - MBITS THEN [z EXCEPT !.r = "drop"]
  ELSE LET d == ht_decode(off, Index(z, MBITS))
           shift == d.shift + NBITS - MBITS        \* pre-added in a small table
       IN IF d.shift > 0 /\ shift <= z.curr + NBITS
          THEN huffman_decode_tail([tfw_hpack_huffman_write(z, d.sym) EXCEPT !.curr = @ - shift], <<>>)
          ELSE [z EXCEPT !.r = "drop"]

(* tfw_huffman_decode(): z.q runs to lim, z.len bytes of the string are left *)
RECURSIVE HuffBig(_, _, _)
RECURSIVE HuffSmall(_, _, _)
HuffBig(z0, off, lim) ==
  LET z == IF z0.curr <= 0 /\ z0.q < lim THEN SET_NEXT(z0) ELSE z0
  IN IF z0.curr <= 0 /\ z0.q >= lim
     THEN IF z0.len > 0 THEN [z0 EXCEPT !.r = "postpone", !.lost = off # <<>>]
          ELSE huffman_decode_tail(z0, off)
     ELSE LET d == ht_decode(off, Index(z, NBITS))
          IN IF d.shift > 0
             THEN HuffBig([tfw_hpack_huffman_write(z, d.sym) EXCEPT !.curr = @ - d.shift], <<>>, lim)
             ELSE IF d.shift = 0 THEN [z EXCEPT !.r = "drop"]
             ELSE IF d.off \in SmallTables
             THEN HuffSmall([z EXCEPT !.curr = @ - MBITS], d.off, lim)
             ELSE HuffBig([z EXCEPT !.curr = @ - NBITS], d.off, lim)
HuffSmall(z0, off, lim) ==
  LET z == IF z0.curr < 0 /\ z0.q < lim THEN SET_NEXT(z0) ELSE z0
  IN IF z0.curr < 0 /\ z0.q >= lim
     THEN IF z0.len > 0 THEN [z0 EXCEPT !.r = "postpone", !.lost = TRUE]
          ELSE huffman_decode_tail_s(z0, off)
     ELSE LET d == ht_decode(off, Index(z, MBITS))
          IN IF d.shift > 0
             THEN HuffBig([tfw_hpack_huffman_write(z, d.sym) EXCEPT
                             !.curr = @ - (d.shift + NBITS - MBITS)], <<>>, lim)
             ELSE [z EXCEPT !.r = "drop"]
tfw_huffman_decode(q, n) ==
  LET z == [hctx |-> hp.hctx, curr |-> hp.curr, q |-> q, len |-> hp.length,
            out |-> <<>>, r |-> "ok", lost |-> FALSE]
  IN IF n = 0 THEN z ELSE HuffBig(SET_NEXT(z), <<>>, q + n)
-----------------------------------------------------------------------------
(* The dynamic table: a ring of `length' slots, `curr' is the next one. *)
Earliest(t) == IF t.curr >= t.n THEN t.curr - t.n ELSE t.curr + t.length - t.n
RECURSIVE EvictTo(_, _)
EvictTo(t, room) ==
  IF t.size <= room THEN t
  ELSE EvictTo([t EXCEPT !.size = @ - SizeOf(t.e[Earliest(t)]), !.n = @ - 1], room)

(* A full ring grows to twice its length.  The pieces to copy are measured
   in bytes and used as distances in entries: only a ring that begins at its
   first slot keeps its entries (GrowsWrapped: what else happens is undefined). *)
Grow(t) ==
  [t EXCEPT !.e = [i \in 0 .. 2 * t.length - 1 |-> IF i < t.length THEN t.e[i] ELSE NoHdr],
            !.length = 2 * @, !.curr = t.n]
tfw_hpack_set_entry(t, h) ==
  [t EXCEPT !.e[t.curr] = h, !.curr = (@ + 1) % t.length, !.n = @ + 1, !.size = @ + SizeOf(h)]
tfw_hpack_add_index(h) ==
  LET delta == SizeOf(h)
  IN IF tbl.size + delta > tbl.window
     THEN IF delta <= tbl.window
          THEN tfw_hpack_set_entry(EvictTo(tbl, tbl.window - delta), h)
          ELSE IF tbl.n > 0 THEN [tbl EXCEPT !.n = 0, !.curr = 0, !.size = 0] ELSE tbl
     ELSE IF tbl.n < tbl.length THEN tfw_hpack_set_entry(tbl, h)
     ELSE IF tbl.length > 0 THEN tfw_hpack_set_entry(Grow(tbl), h)
     ELSE tfw_hpack_set_entry([tbl EXCEPT !.length = RingLen,
                                          !.e = [i \in 0 .. RingLen - 1 |-> NoHdr]], h)
GrowsWrapped(h) ==
  /\ tbl.size + SizeOf(h) <= tbl.window
  /\ tbl.n = tbl.length /\ tbl.curr # 0

Found(i) == i >= 1 /\ i <= Len(Static) + tbl.n
tfw_hpack_find_index(i) ==
  IF i <= Len(Static) THEN Static[i]
  ELSE LET k == i - Len(Static)
       IN tbl.e[IF k <= tbl.curr THEN tbl.curr - k ELSE tbl.curr + tbl.length - k]

(* tfw_hpack_set_length(), not above hp->max_window *)
(* mutant: the entries above the new size stay until the next one is added *)
SetLengthLazy(w) == [tbl EXCEPT !.window = w]
tfw_hpack_set_length(w) == [EvictTo(tbl, w) EXCEPT !.window = w]

(* tfw_hpack_hdr_name_set(): the name of an entry; tfw_hpack_hdr_set(): the
   whole entry, refused without a value and, for a method, unless it is one
   of the two of the static table. *)
tfw_hpack_hdr_name_set(e) == [NoHdr EXCEPT !.name = e.name, !.tag = e.tag]
tfw_hpack_hdr_set_ok(i, e) ==
  /\ i <= Len(Static) => e.val # <<>>
  /\ e.tag = "method" => i \in Methods
-----------------------------------------------------------------------------
(* The states of tfw_hpack_decode().  Go: on with state s, or out when the
   fragment is over and the code tests it. *)
In(s) == r = "run" /\ hp.st = s
Stop(why) == r' = why /\ UNCHANGED <<wire, src, last, hp, tbl, hdr, hdrs, hit>>
Drop == Stop("drop")
Bug == r' = "bug" /\ hit' = TRUE /\ UNCHANGED <<wire, src, last, hp, tbl, hdr, hdrs>>
Go(h, q, x, test) ==
  /\ hp' = h /\ src' = q /\ hdr' = x
  /\ r' = IF test /\ q >= last THEN "postpone" ELSE "run"
  /\ UNCHANGED <<wire, last, tbl, hdrs>>

(* One header, or a new window, is done: what the FSM keeps is cleared. *)
NextHdr(t, out, q) ==
  /\ tbl' = t /\ hdrs' = out /\ src' = q /\ hdr' = NoHdr
  /\ hp' = [tfw_hpack_reinit(hp) EXCEPT !.hctx = <<>>, !.curr = 0 - NBITS, !.length = 0]
  /\ r' = IF q >= last THEN "ok" ELSE "run"
  /\ UNCHANGED <<wire, last>>

Fragment ==
  /\ r \in {"ok", "postpone"} /\ last < Len(wire)
  /\ \E l \in last + 1 .. Len(wire) : last' = l
  /\ r' = "run"
  /\ UNCHANGED <<wire, src, hp, tbl, hdr, hdrs, hit>>

(* An integer g read by GET_FLEXIBLE or GET_CONTINUE is used (h), kept for the
   next fragment (wait), or too big. *)
WithInt(g, wait, Use(_, _)) ==
  IF g[4] = "drop" THEN r' = "drop" /\ hit' = (hit \/ g[5])
                        /\ UNCHANGED <<wire, src, last, hp, tbl, hdr, hdrs>>
  ELSE /\ hit' = (hit \/ g[5])
       /\ IF g[4] = "more"
          THEN Go([wait EXCEPT !.shift = g[3]], g[2], hdr, TRUE)
          ELSE Use(g[1], g[2])

All_Indexed(i, q) ==
  IF Found(i) /\ tfw_hpack_hdr_set_ok(i, tfw_hpack_find_index(i))
  THEN NextHdr(tbl, Append(hdrs, tfw_hpack_find_index(i)), q)
  ELSE r' = "drop" /\ UNCHANGED <<wire, src, last, hp, tbl, hdr, hdrs>>
Set_Window(w, q) ==
  IF w <= MaxWindow THEN NextHdr(tfw_hpack_set_length(w), hdrs, q)
  ELSE r' = "drop" /\ UNCHANGED <<wire, src, last, hp, tbl, hdr, hdrs>>
ToIndexedName(i, q, test) == Go([hp EXCEPT !.st = "INDEXED_NAME_TEXT", !.index = i], q, hdr, test)

Ready ==
  /\ In("READY")
  /\ LET c == wire[src + 1]
         add == {f \in {"ADD"} : c \div 64 = 1}
         i == IF c >= 128 THEN c % 128 ELSE IF c >= 64 THEN c % 64
              ELSE IF c >= 32 THEN c % 32 ELSE c % 16
         max == IF c >= 128 THEN 127 ELSE IF c >= 64 THEN 63 ELSE IF c >= 32 THEN 31 ELSE 15
         long == GET_FLEXIBLE(i, src + 1)
         more == [hp EXCEPT !.index = long[1]]
     IN CASE c >= 128 ->
               IF i = max
               THEN WithInt(long, [more EXCEPT !.st = "INDEX", !.fl = {"NO_VALUE"}], All_Indexed)
               ELSE All_Indexed(i, src + 1) /\ UNCHANGED hit
          [] c \in 32 .. 63 ->
               IF i = max THEN WithInt(long, [more EXCEPT !.st = "WINDOW"], Set_Window)
               ELSE Set_Window(i, src + 1) /\ UNCHANGED hit
          [] OTHER ->
               IF i = max
               THEN WithInt(long, [more EXCEPT !.st = "INDEX", !.fl = add],
                            LAMBDA x, q : Go([hp EXCEPT !.st = "INDEXED_NAME_TEXT", !.index = x,
                                                        !.fl = add], q, hdr, FALSE))
               ELSE Go([hp EXCEPT !.st = IF i > 0 THEN "INDEXED_NAME_TEXT" ELSE "NAME",
                                  !.index = i, !.fl = add], src + 1, hdr, TRUE)
                    /\ UNCHANGED hit

(* BUFFER_NAME_OPEN(), BUFFER_VAL_OPEN(): the text of a string begins *)
TextOpen(s, fl, n, q) == Go([hp EXCEPT !.st = s, !.length = n, !.fl = fl], q, hdr, TRUE)
Name ==
  /\ In("NAME")
  /\ LET c == wire[src + 1]
         fl == hp.fl \cup {f \in {"HUF_NAME"} : c >= 128}
         long == GET_FLEXIBLE(127, src + 1)
     IN IF c % 128 = 127
        THEN WithInt(long, [hp EXCEPT !.st = "NAME_LENGTH", !.fl = fl, !.length = long[1]],
                     LAMBDA n, q : TextOpen("NAME_TEXT", fl, n, q))
        ELSE IF c % 128 = 0 THEN Drop
        ELSE TextOpen("NAME_TEXT", fl, c % 128, src + 1) /\ UNCHANGED hit

(* A piece of a string.  The parser gets it at once (HPACK_PROCESS_STRING) or,
   decoded, at the end of the string (HPACK_DECODE_PROCESS_STRING); the string
   goes on with the next fragment unless the piece ends it. *)
Piece(huff) ==
  LET n == LowerOf(last - src, hp.length)
      z == tfw_huffman_decode(src, n)
  IN IF huff THEN [z EXCEPT !.q = src + n]
     ELSE [hctx |-> hp.hctx, curr |-> hp.curr, q |-> src + n, len |-> hp.length - n,
           out |-> SubSeq(wire, src + 1, src + n), lost |-> FALSE,
           r |-> IF n = hp.length THEN "ok" ELSE "postpone"]
Unfinished(z, h) ==
  /\ r' = z.r /\ src' = z.q /\ hdr' = h /\ hit' = (hit \/ z.lost)
  /\ hp' = [hp EXCEPT !.hctx = z.hctx, !.curr = z.curr, !.length = z.len]
  /\ UNCHANGED <<wire, last, tbl, hdrs>>
NameText ==
  /\ In("NAME_TEXT")
  /\ LET z == Piece("HUF_NAME" \in hp.fl)
         h == [hdr EXCEPT !.name = @ \o z.out]
     IN IF z.r # "ok" THEN Unfinished(z, h)
        ELSE /\ Go([tfw_huffman_init(hp) EXCEPT !.st = "VALUE", !.hctx = <<>>, !.length = 0],
                   z.q, h, TRUE)
             /\ UNCHANGED hit
IndexedNameText ==
  /\ In("INDEXED_NAME_TEXT")
  /\ IF ~Found(hp.index) THEN Drop
     ELSE /\ Go([hp EXCEPT !.st = "VALUE"], src,
                tfw_hpack_hdr_name_set(tfw_hpack_find_index(hp.index)), FALSE)
          /\ UNCHANGED hit
(* After a long index the next byte is read although the fragment may be over. *)
Value ==
  /\ In("VALUE")
  /\ IF src >= last THEN Bug
     ELSE LET c == wire[src + 1]
              fl == hp.fl \cup {f \in {"HUF_VALUE"} : c >= 128}
              long == GET_FLEXIBLE(127, src + 1)
          IN IF c % 128 = 127
             THEN WithInt(long, [hp EXCEPT !.st = "VALUE_LENGTH", !.fl = fl, !.length = long[1]],
                          LAMBDA n, q : TextOpen("VALUE_TEXT", fl, n, q))
             ELSE IF c = 128 THEN Bug              \* BUFFER_GET() of no bytes
             ELSE TextOpen("VALUE_TEXT", fl, c % 128, src + 1) /\ UNCHANGED hit
ToAdd == "ADD" \in hp.fl
ValueText ==
  /\ In("VALUE_TEXT")
  /\ IF hp.length = 0 THEN Drop
     ELSE LET z == Piece("HUF_VALUE" \in hp.fl)
              h == [hdr EXCEPT !.val = @ \o z.out]
          IN IF z.r # "ok" THEN Unfinished(z, h)
             ELSE IF ToAdd /\ GrowsWrapped(h) THEN Bug
             ELSE /\ NextHdr(IF ToAdd THEN tfw_hpack_add_index(h) ELSE tbl, Append(hdrs, h), z.q)
                  /\ UNCHANGED hit
Index_ ==
  /\ In("INDEX")
  /\ LET g == GET_CONTINUE(hp.index, src)
     IN WithInt(g, [hp EXCEPT !.index = g[1]],
                LAMBDA x, q : IF "NO_VALUE" \in hp.fl THEN All_Indexed(x, q)
                              ELSE ToIndexedName(x, q, TRUE))
Window ==
  /\ In("WINDOW")
  /\ LET g == GET_CONTINUE(hp.index, src)
     IN WithInt(g, [hp EXCEPT !.index = g[1]], Set_Window)
NameLength ==
  /\ In("NAME_LENGTH")
  /\ LET g == GET_CONTINUE(hp.length, src)
     IN WithInt(g, [hp EXCEPT !.length = g[1]], LAMBDA n, q : TextOpen("NAME_TEXT", hp.fl, n, q))
ValueLength ==
  /\ In("VALUE_LENGTH")
  /\ LET g == GET_CONTINUE(hp.length, src)
     IN WithInt(g, [hp EXCEPT !.length = g[1]], LAMBDA n, q : TextOpen("VALUE_TEXT", hp.fl, n, q))

DecNext ==
  \/ Fragment \/ Ready \/ Name \/ NameText \/ IndexedNameText \/ Value \/ ValueText
  \/ Index_ \/ Window \/ NameLength \/ ValueLength
-----------------------------------------------------------------------------
(* RFC 7541: the headers of the whole block, with a table that is a sequence,
   newest entry first.  Tempesta also refuses an empty literal value, an
   indexed header without a value and an indexed method it does not know. *)
RECURSIVE RefInt(_, _, _)
RefInt(x, q, m) ==
  IF q >= Len(wire) THEN <<x, q, "more">>
  ELSE LET c == wire[q + 1]
           y == IF m > 14 /\ c % 128 > 0 THEN HPACK_LIMIT + 1 ELSE x + (c % 128) * 2^LowerOf(m, 14)
       IN IF y > HPACK_LIMIT THEN <<y, q, "drop">>
          ELSE IF c > 127 THEN RefInt(y, q + 1, m + 7) ELSE <<y, q + 1, "done">>
Prefixed(c, max, q) == IF c % (max + 1) = max THEN RefInt(max, q, 0) ELSE <<c % (max + 1), q, "done">>
RECURSIVE RefHuff(_)
RefHuff(b) ==
  LET s == {x \in DOMAIN Codes : Begins(Codes[x], b)}
  IN IF s # {}
     THEN LET x == CHOOSE x \in s : TRUE
              rest == RefHuff(SubSeq(b, Len(Codes[x]) + 1, Len(b)))
          IN IF rest[2] THEN <<<<x>> \o rest[1], TRUE>> ELSE rest
     ELSE <<<<>>, Len(b) < 8 /\ \A j \in 1 .. Len(b) : b[j] = 1>>
AllBits(q, n) == [j \in 1 .. 8 * n |-> ByteBits(wire[q + 1 + ((j - 1) \div 8)])[1 + ((j - 1) % 8)]]
(* <<string, next byte, "done" | "more" | "drop">> *)
RefStr(q) ==
  IF q >= Len(wire) THEN <<<<>>, q, "more">>
  ELSE LET n == Prefixed(wire[q + 1] % 128, 127, q + 1)
           h == RefHuff(AllBits(n[2], n[1]))
       IN IF n[3] # "done" THEN n
          ELSE IF n[1] = 0 THEN <<<<>>, q, "drop">>
          ELSE IF n[2] + n[1] > Len(wire) THEN <<<<>>, q, "more">>
          ELSE IF wire[q + 1] < 128 THEN <<SubSeq(wire, n[2] + 1, n[2] + n[1]), n[2] + n[1], "done">>
          ELSE <<h[1], n[2] + n[1], IF h[2] THEN "done" ELSE "drop">>
RefSum(tab) == LET sum[i \in 0 .. Len(tab)] == IF i = 0 THEN 0 ELSE sum[i - 1] + SizeOf(tab[i])
               IN sum[Len(tab)]
RECURSIVE RefFit(_, _)
RefFit(tab, w) == IF RefSum(tab) <= w THEN tab ELSE RefFit(SubSeq(tab, 1, Len(tab) - 1), w)
RECURSIVE RefDecode(_, _, _, _)
RefDecode(q, tab, w, out) ==
  IF q >= Len(wire) THEN [r |-> "ok", hdrs |-> out, tab |-> tab, w |-> w]
  ELSE
  LET c == wire[q + 1]
      i == Prefixed(c, IF c >= 128 THEN 127 ELSE IF c >= 64 THEN 63 ELSE IF c >= 32 THEN 31 ELSE 15, q + 1)
      all == Static \o tab
      end(why) == [r |-> why, hdrs |-> out, tab |-> tab, w |-> w]
      nm == IF i[1] = 0 THEN RefStr(i[2]) ELSE <<all[i[1]].name, i[2], "done">>
      v == RefStr(nm[2])
      h == [name |-> nm[1], val |-> v[1], tag |-> IF i[1] = 0 THEN "raw" ELSE all[i[1]].tag]
  IN IF i[3] # "done" THEN end(i[3])
     ELSE IF c \in 32 .. 63
     THEN IF i[1] > MaxWindow THEN end("drop") ELSE RefDecode(i[2], RefFit(tab, i[1]), i[1], out)
     ELSE IF i[1] > Len(all) \/ (i[1] = 0 /\ c >= 128) THEN end("drop")
     ELSE IF c >= 128
     THEN IF tfw_hpack_hdr_set_ok(i[1], all[i[1]]) THEN RefDecode(i[2], tab, w, Append(out, all[i[1]]))
          ELSE end("drop")
     ELSE IF nm[3] # "done" THEN end(nm[3])
     ELSE IF v[3] # "done" THEN end(v[3])
     ELSE RefDecode(v[2], IF c >= 64 THEN RefFit(<<h>> \o tab, w) ELSE tab, w, Append(out, h))
Reference == RefDecode(0, <<>>, MaxWindow, <<>>)
Table == [k \in 1 .. tbl.n |-> tfw_hpack_find_index(Len(Static) + k)]
AgreesWith(ref) ==
  CASE r = "ok" /\ last = Len(wire) -> ref.r = "ok" /\ hdrs = ref.hdrs
                                            /\ Table = ref.tab /\ tbl.window = ref.w
    [] r = "postpone" /\ last = Len(wire) -> ref.r # "ok"
    [] r = "drop" -> ref.r = "drop"
    [] OTHER -> r # "bug"
Agrees == AgreesWith(Reference)

(* However a block is cut into fragments, tfw_hpack_decode() gives the headers  *)
(* of RFC 7541, refuses what it must refuse, and leaves the dynamic table with  *)
(* the entries the peer has in its own, except where one of the recorded        *)
(* defects has been met.                                                        *)
DecoderAgrees == ~hit => Agrees

=============================================================================

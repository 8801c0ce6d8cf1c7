----------------------------- MODULE HttpValue ------------------------------
(***************************************************************************)
(* What the macros of fw/http_parser.c do when a header value arrives in   *)
(* fragments, and the parsers of HTTP/1 and HTTP/2 run on them.  A text is *)
(* cut anywhere; every fragment is parsed in one call that stops at its    *)
(* end (POSTPONE) and goes on from parser->_i_st with the next one.        *)
(***************************************************************************)
EXTENDS HttpH2Value, SequencesExt

CONSTANTS MaxCuts,      \* how often a value is cut
          Cases         \* the values: [f, ctx, vals, want]

VARIABLES vcase,        \* the case under test
          vz,           \* the parser: see Fresh
          vcuts         \* the cuts made so far

valueVars == <<vcase, vz, vcuts>>

LOCAL P(tab, init) == [tab |-> tab, init |-> init]
LOCAL PDate(tab) == P(tab, "I_WDate1")

__parse_http_date == DateWeekDay @@ DateTime
__req_parse_content_type == __req_parse_content_type_media @@ __req_parse_content_type_other
   @@ __req_parse_content_type_param @@ __req_parse_content_type_value @@ __req_parse_content_type_boundary
__h2_req_parse_content_type == __h2_req_parse_content_type_media @@ __h2_req_parse_content_type_other
   @@ __h2_req_parse_content_type_param @@ __h2_req_parse_content_type_value @@ __h2_req_parse_content_type_boundary

__h2_req_parse_cache_control == CacheControlNames @@ CacheControlValues

__req_parse_if_msince == PDate(__parse_http_date)
__resp_parse_expires == PDate(__parse_http_date)
__resp_parse_date == PDate(__parse_http_date)
__resp_parse_if_modified == PDate(__parse_http_date)
__h2_req_parse_if_msince == PDate(__h2_parse_http_date)

(* The callers: which header is given to which parser. *)
Parsers ==
  [connection |-> P(__parse_connection, "I_Conn"),
   content_length |-> P(__parse_content_length, "I_ContLen"),
   resp_content_type |-> P(__resp_parse_content_type, "I_ContType"),
   content_type |-> P(__req_parse_content_type, "I_ContType"),
   transfer_encoding |-> P(__req_parse_transfer_encoding, "I_TransEncod"),
   resp_transfer_encoding |-> P(__resp_parse_transfer_encoding, "I_TransEncod"),
   accept |-> P(__req_parse_accept, "Req_I_WSAccept"),
   authorization |-> P(__req_parse_authorization, "Req_I_Auth"),
   cache_control |-> P(__req_parse_cache_control, "Req_I_CC"),
   cookie |-> P(__req_parse_cookie, "Req_I_CookieStart"),
   etag |-> P(__parse_etag, "I_Etag"),
   host |-> P(__req_parse_host, "Req_I_H_Start"),
   referer |-> P(__req_parse_referer, "Req_I_Referer"),
   pragma |-> P(__parse_pragma, "I_Pragma"),
   user_agent |-> P(__req_parse_user_agent, "Req_I_UserAgent"),
   x_forwarded_for |-> P(__req_parse_x_forwarded_for, "Req_I_XFF"),
   keep_alive |-> P(__parse_keep_alive, "I_KeepAlive"),
   uri_mark |-> P(__parse_uri_mark, "Req_I_UriMarkStart"),
   m_override |-> P(__parse_m_override, "I_Meth_Start"),
   age |-> P(__resp_parse_age, "Resp_I_Age"),
   resp_cache_control |-> P(__resp_parse_cache_control, "Resp_I_CC"),
   server |-> P(__resp_parse_server, "Resp_I_Server"),
   set_cookie |-> P(__resp_parse_set_cookie, "Resp_I_CookieStart"),
   if_msince |-> __req_parse_if_msince,
   expires |-> __resp_parse_expires, date |-> __resp_parse_date,
   last_modified |-> __resp_parse_if_modified,
   h2_authority |-> P(__h2_req_parse_authority, "Req_I_A_Start"),
   h2_accept |-> P(__h2_req_parse_accept, "Req_I_WSAccept"),
   h2_authorization |-> P(__h2_req_parse_authorization, "Req_I_Auth"),
   h2_cache_control |-> P(__h2_req_parse_cache_control, "Req_I_CC"),
   h2_content_length |-> P(__h2_req_parse_content_length, "I_ContLen"),
   h2_content_type |-> P(__h2_req_parse_content_type, "I_ContType"),
   h2_cookie |-> P(__h2_req_parse_cookie, "Req_I_CookieStart"),
   h2_etag |-> P(__h2_req_parse_if_nmatch, "I_Etag"),
   h2_referer |-> P(__h2_req_parse_referer, "Req_I_Referer"),
   h2_pragma |-> P(__h2_req_parse_pragma, "I_Pragma"),
   h2_user_agent |-> P(__h2_req_parse_user_agent, "Req_I_UserAgent"),
   h2_x_forwarded_for |-> P(__h2_req_parse_x_forwarded_for, "Req_I_XFF"),
   h2_m_override |-> P(__h2_req_parse_m_override, "I_Meth_Start"),
   h2_mark |-> P(__h2_req_parse_mark, "Req_I_UriMarkStart"),
   h2_if_msince |-> __h2_req_parse_if_msince]

(* The parsers that store the value themselves; for the others the caller
   does it (saveval). *)
StoringParsers ==
  {"content_type", "transfer_encoding", "resp_transfer_encoding", "cookie", "etag", "host",
   "pragma", "x_forwarded_for", "keep_alive", "uri_mark", "age", "resp_cache_control",
   "set_cookie", "h2_authority", "h2_content_type", "h2_cookie", "h2_etag",
   "h2_x_forwarded_for", "h2_mark"}

(* Dates: kept in a field of the message unless it is set already; a date
   that cannot be parsed is skipped to the end of the line (Dated). *)
DateField == [if_msince |-> "m_date", h2_if_msince |-> "m_date", expires |-> "expires", date |-> "date",
              last_modified |-> "last_modified"]
IsDate(f) == f \in DOMAIN DateField

(***************************************************************************)
(* The parser.  t: the text; lo..hi: the fragment; p, n: the cursor and    *)
(* the length of the last match; cur, i: the operation at hand; st:        *)
(* parser->_i_st ("" when NULL); cs, cl: the literal being tried; hdr: the *)
(* stored pieces <<from, to, flag>>.                                       *)
(***************************************************************************)
NoDate == [type |-> "RFC_822", pos |-> 1, day |-> 0, month |-> "    ", year |-> 0, hour |-> 0,
           min |-> 0, sec |-> 0]
Fresh(f, t, ctx) ==
  [f |-> f, t |-> t, lo |-> 1, hi |-> 0, fin |-> FALSE, p |-> 1, n |-> 0, cur |-> "", i |-> 1,
   st |-> "", cs |-> 0, cl |-> 0, acc |-> 0, accf |-> "", fl |-> ctx, num |-> << >>, hdr |-> <<>>,
   hbh |-> <<"">>, d |-> NoDate, date |-> <<0, 0>>, br |-> [at |-> 0, cnt |-> 0, raw |-> 0, val |-> 0],
   rd |-> 0, bnd |-> "", res |-> ""]

At(z, k) == SubSeq(z.t, k, k)
Store(z, a, b, fg) == IF b < a THEN z ELSE [z EXCEPT !.hdr = Append(@, <<a, b, fg>>)]
Fail(z) == [z EXCEPT !.res = "NEQ"]
TRY_STR_INIT(z) == [z EXCEPT !.cs = 0, !.cl = 0]
Text(z, flags) ==
  FoldLeft(LAMBDA s, h : IF h[3] \in flags THEN s \o SubSeq(z.t, h[1], h[2]) ELSE s, "", z.hdr)

__check_date(y, m, d, h, mi, s) ==
  LET mday == <<31, 28, 31, 30, 31, 30, 31, 31, 30, 31, 30, 31>>
  IN  /\ h <= 23 /\ mi <= 59 /\ s <= 59
      /\ IF d = 29 /\ m = 2 THEN y % 4 = 0 /\ ~(y % 100 = 0 /\ y % 400 # 0)
         ELSE d <= mday[m]

DateSecsMarch(year, m, d, h, mi, s) ==
  LET days(z) == z * 365 + z \div 4 - z \div 100 + z \div 400
  IN  <<(153 * (m + (IF m > 2 THEN -3 ELSE 9)) + 2) \div 5 + d - 1 + days(year) - days(1970) + 31 + 28,
        h * 3600 + mi * 60 + s>>

(* Days and seconds of the day, since a product of both exceeds 32 bits. *)
__date_secs(year, m, d, h, mi, s) ==
  LET y == IF m <= 2 THEN year - 1 ELSE year
      days(z) == z * 365 + z \div 4 - z \div 100 + z \div 400
  IN  <<(153 * (m + (IF m > 2 THEN -3 ELSE 9)) + 2) \div 5 + d - 1 + days(y) - days(1970) + 31 + 28,
        h * 3600 + mi * 60 + s>>

Months == <<" Jan", " Feb", " Mar", " Apr", " May", " Jun", " Jul", " Aug", " Sep", " Oct", " Nov",
            " Dec">>
__parse_month(s) == IF \E m \in 1..12 : Months[m] = s
                    THEN CHOOSE m \in 1..12 : Months[m] = s ELSE -2

(* I_Res: an unknown month is not noticed, __check_date() reads past mday[]. *)
DateResult(z) ==
  LET m == __parse_month(z.d.month)
      y == IF z.d.year < 70 THEN z.d.year + 2000
           ELSE IF z.d.year < 100 THEN z.d.year + 1900 ELSE z.d.year
      r == __date_secs(y, m, z.d.day, z.d.hour, z.d.min, z.d.sec)
  IN  IF m < 0 THEN [z EXCEPT !.res = "UB"]
      ELSE IF ~__check_date(y, m, z.d.day, z.d.hour, z.d.min, z.d.sec) \/ r[1] < 0 THEN Fail(z)
      ELSE [z EXCEPT !.date = r]

__strdup_multipart_boundaries(z) ==
  LET ch == SubSeq(z.hdr, z.br.at, z.br.at + z.br.cnt - 1)
      len(fs) == FoldLeft(LAMBDA k, h : IF h[3] \in fs THEN k + h[2] - h[1] + 1 ELSE k, 0, ch)
  IN  IF z.br.raw = 0 THEN z
      ELSE IF len({"", "VALUE"}) # z.br.raw \/ len({"VALUE"}) # z.br.val THEN Fail(z)
      ELSE [z EXCEPT !.bnd = Text([z EXCEPT !.hdr = ch], {"VALUE"})]

hbh_block == {"age", "authorization", "cache-control", "connection", "content-length",
              "content-type", "cookie", "date", "etag", "expires", "host", "pragma", "server",
              "transfer-encoding", "user-agent", "x-forwarded-for"}
LcText(s) == FoldLeft(LAMBDA r, k : r \o TFW_LC(SubSeq(s, k, k)), "", [k \in 1..Len(s) |-> k])

__hbh_parser_add_data(z, a, b, last) ==
  LET name == z.hbh[Len(z.hbh)] \o SubSeq(z.t, a, b)
      y == [z EXCEPT !.hbh[Len(z.hbh)] = name]
  IN  IF ~last THEN y
      ELSE IF LcText(name) \in hbh_block THEN Fail(y)
      ELSE [y EXCEPT !.hbh = Append(@, "")]

SetNum(z, x, v) == [z EXCEPT !.num = [k \in DOMAIN @ \cup {x} |-> IF k = x THEN v ELSE @[k]]]

(* One effect of an operation. *)
Effect(z, e) ==
  LET k == e[1] x == e[2] IN
  CASE z.res # "" -> z
    [] k = "set" -> [z EXCEPT !.fl = @ \cup {x}]
    [] k = "clr" -> [z EXCEPT !.fl = @ \ {x}]
    [] k = "not" -> IF x \in z.fl THEN Fail(z) ELSE z
    [] k = "accf" -> [z EXCEPT !.accf = x]
    [] k = "or" -> [z EXCEPT !.fl = @ \cup {z.accf}]
    [] k = "acc0" -> [z EXCEPT !.acc = 0, !.accf = "", !.d = [NoDate EXCEPT !.month = z.d.month]]
    [] k = "put" -> SetNum(z, x, z.acc)
    [] k = "top" -> SetNum(z, x, UINT_MAX)
    [] k = "zero" -> SetNum(z, x, 0)
    [] k = "pos" -> IF x \in DOMAIN z.num /\ z.num[x] # 0 THEN z ELSE Fail(z)
    [] k = "val" -> SetNum(z, x, e[3])
    [] k = "hbh" -> __hbh_parser_add_data(z, z.p, z.p + z.n - 1, TRUE)
    [] k = "init" -> TRY_STR_INIT(z)
    [] k = "boundary" -> __strdup_multipart_boundaries(z)
    [] k = "eat" -> [Store(z, z.p, z.p + z.n - 1, x) EXCEPT !.p = z.p + z.n, !.n = 0]
    [] k = "bopen" -> [z EXCEPT !.br = [at |-> Len(z.hdr) + 1, cnt |-> 0, raw |-> 0, val |-> 0]]
    [] k = "bclose" -> [z EXCEPT !.br.cnt = Len(z.hdr) + x - z.br.at + 1]
    [] k = "raw" -> [z EXCEPT !.br.raw = @ + 1]
    [] k = "bval" -> [z EXCEPT !.br.val = @ + 1]
    [] k = "both" -> [z EXCEPT !.br.raw = @ + z.n, !.br.val = @ + z.n]
    [] k = "flush" -> Store(z, z.lo, z.hi, x)
    [] k = "month0" -> [z EXCEPT !.d.month = "    "]
    [] k = "type" -> [z EXCEPT !.d.type = x]
    [] k = "res" -> DateResult(z)
    [] k = "toread" -> [z EXCEPT !.rd = x]
    [] k = "unmark" -> [z EXCEPT !.hdr = <<>>]

Effects(z, es) == FoldLeft(Effect, z, es)

(* What is done when the fragment ends inside an operation. *)
Partial(z, pe) ==
  IF pe = <<>> THEN z
  ELSE CASE pe[1] = "data" -> __hbh_parser_add_data(z, z.lo, z.hi, FALSE)
         [] pe[1] = "run"  -> __hbh_parser_add_data(z, z.p, z.hi, FALSE)
         [] pe[1] = "both" -> Effect(z, <<"both", 0>>)
         [] pe[1] = "port" -> SetNum(z, "port", z.acc)

(* The names of the HTTP/2 parsers start with h2_. *)
H2(z) == SubSeq(z.f, 1, 3) = "h2_"
Goto(z, to) == [z EXCEPT !.cur = to, !.i = 1, !.n = 0]
Target(z, to) == CASE to = "@" -> DateTemplate[z.d.type][z.d.pos]
                   [] to = "@+" -> DateTemplate[z.d.type][z.d.pos + 1]
                   [] OTHER -> to
PostponeFresh(z, st) == [TRY_STR_INIT(z) EXCEPT !.st = st, !.res = "POSTPONE"]
Postpone(z, st) == [z EXCEPT !.st = st, !.res = "POSTPONE"]
EndValue(z, op) == LET with(y) == IF y.res # "" THEN y ELSE [y EXCEPT !.res = op.end]
                   IN  with(Effects(z, op.ee))
Flushed(z, op) == IF op.fx THEN z ELSE Store(z, z.lo, z.hi, op.fg)

(* __FSM_I_MOVE*, __FSM_H2_I_MOVE*: over k characters to the next state. *)
Move(z, op, k) ==
  LET to == Target(z, op.to)
      y == [(IF op.fx THEN Store(z, z.p, z.p + k - 1, op.fg) ELSE z) EXCEPT !.p = z.p + k, !.n = 0]
  IN  IF z.p + k < z.lo \/ (k < 0 /\ op.fx) THEN [z EXCEPT !.res = "UB"]
      ELSE IF z.p + k <= z.hi THEN [Goto(y, to) EXCEPT !.st = IF H2(z) THEN @ ELSE to]
      ELSE IF H2(z) /\ z.fin /\ op.end # "POSTPONE" THEN EndValue(y, op)
      ELSE Postpone(Flushed(y, op), to)

(* __FSM_I_MATCH_MOVE*: the longest run of an alphabet. *)
Match(z, op) ==
  LET out == {k \in z.p..z.hi : At(z, k) \notin op.c}
      y == [(IF op.fx THEN Store(z, z.p, z.hi, op.fg) ELSE z) EXCEPT !.n = z.hi - z.p + 1]
  IN  IF out # {} THEN [z EXCEPT !.n = (CHOOSE k \in out : \A j \in out : k <= j) - z.p, !.i = @ + 1]
      ELSE IF H2(z) /\ z.fin /\ op.end # "POSTPONE" THEN EndValue(y, op)
      ELSE Postpone(Partial(Flushed(y, [op EXCEPT !.fg = ""]), op.pe), op.to)

(* __try_str() and the TRY_STR* macros around it. *)
SameText(z, a, s, b, len) == \A j \in 0..(len - 1) : TFW_LC(At(z, a + j)) = SubSeq(s, b + j, b + j)
Less(a, b) == IF a < b THEN a ELSE b
__try_str(z, op) ==
  LET s == op.s
      len == Less(z.hi - z.p + 1, Len(s) - z.cl)
      y == [z EXCEPT !.cs = IF @ = 0 THEN z.p ELSE @]
      full(w) == IF w.res # "" THEN w ELSE Move(w, op, len)
      part == [y EXCEPT !.cl = @ + len]
  IN  IF \/ len <= 0 \/ ~SameText(z, z.p, s, z.cl + 1, len) \/ ~SameText(z, y.cs, s, 1, z.cl)
      THEN [y EXCEPT !.i = @ + 1]
      ELSE IF z.cl + len = Len(s) THEN full(Effects(TRY_STR_INIT(y), op.e))
      ELSE IF H2(z) /\ z.fin THEN Fail(z)
      ELSE Postpone(Partial(Flushed(IF op.fx THEN Store(part, z.p, z.hi, op.fg) ELSE part, op), op.pe),
                    z.cur)

(* __parse_ulong(): <<how it ended, where, the value>>. *)
RECURSIVE __parse_ulong(_, _, _, _, _)
__parse_ulong(z, delim, lim, q, acc) ==
  IF q > z.hi THEN <<"POSTPONE", q, acc>>
  ELSE IF At(z, q) \in delim THEN <<"", q, acc>>
  ELSE IF At(z, q) \notin Digit THEN <<"NEQ", q, acc>>
  ELSE IF acc > (lim - 10) \div 10 THEN <<"BADLEN", q, acc>>
  ELSE __parse_ulong(z, delim, lim, q + 1,
         acc * 10 + (CHOOSE v \in 0..9 : SubSeq("0123456789", v + 1, v + 1) = At(z, q)))

(* The number is complete: r what was read, y what its effects make of z. *)
NumberRead(z, op, r, y) ==
  IF y.res # "" THEN y
  ELSE IF op.to = "" THEN [y EXCEPT !.p = r[2], !.res = "RET"]
  ELSE IF op.to = "@neq" THEN Fail(z)
  ELSE IF op.by = "jump" THEN Goto([Store(y, z.p, r[2] - 1, op.fg) EXCEPT !.p = r[2]], op.to)
  ELSE Move(y, op, IF r[1] = "BADLEN" THEN -3
                   ELSE IF op.by = "all" THEN z.hi - z.p + 1 ELSE r[2] - z.p)

(* The fragment ends inside the number. *)
NumberCut(z, op, y) ==
  IF H2(z) /\ z.fin
  THEN LET w == IF op.fx THEN Store(y, z.p, z.hi, op.fg) ELSE y
       IN  EndValue(IF op.pe = <<>> THEN Effects(w, op.e) ELSE Partial(w, op.pe), op)
  ELSE Postpone(Partial(IF op.fx THEN Store(y, z.p, z.hi, op.fg) ELSE Store(y, z.lo, z.hi, ""), op.pe),
                IF op.pe = <<>> THEN z.st ELSE op.to)

Number(z, op) ==
  LET clamp == op.bad = "CLAMP"
      read(r) == CASE r[1] = "NEQ" -> Fail(z)
                   [] r[1] = "BADLEN" /\ ~clamp -> [z EXCEPT !.res = op.bad]
                   [] r[1] = "POSTPONE" -> NumberCut(z, op, [z EXCEPT !.acc = r[3]])
                   [] OTHER -> NumberRead(z, op, r, Effects([z EXCEPT !.acc = IF r[1] = "" THEN r[3]
                                                                              ELSE UINT_MAX], op.e))
  IN  read(__parse_ulong(z, op.c, op.lim, z.p, z.acc))

LOCAL DigitAt(z) == CHOOSE v \in 0..9 : SubSeq("0123456789", v + 1, v + 1) = At(z, z.p)

(* __NEXT_TEMPL_STATE(): one character of a date. *)
Template(z, op) ==
  LET f == op.s
      y == IF f = "" \/ At(z, z.p) = " " THEN z
           ELSE IF f = "month" THEN [z EXCEPT !.d.month = SubSeq(@, 2, 4) \o At(z, z.p)]
           ELSE [z EXCEPT !.d[f] = @ * 10 + DigitAt(z)]
  IN  Move([y EXCEPT !.d.pos = @ + 1], [op EXCEPT !.to = "@"], 1)

(* The part of the host read so far is stored as one piece. *)
HostFlush(z, op) ==
  LET over == IF op.by = "over" THEN 1 ELSE 0
      y == [Store(z, z.lo, z.p - 1 + over, op.fg) EXCEPT !.p = @ + over, !.st = op.to]
  IN  IF y.p <= z.hi THEN Goto(y, op.to)
      ELSE [y EXCEPT !.res = IF H2(z) /\ z.fin THEN "EQ" ELSE "POSTPONE"]

ReadMark(z, op) ==
  LET k == Less(z.rd, z.hi - z.p + 1)
      y == [Store(z, z.p, z.p + k - 1, op.fg) EXCEPT !.rd = @ - k, !.p = @ + k]
  IN  IF z.rd > k THEN IF H2(z) /\ z.fin THEN Fail(z) ELSE Postpone(y, op.to)
      ELSE [y EXCEPT !.res = "RET"]

Holds(z, w) ==
  \/ w = <<>>
  \/ w[1] = "fl" /\ w[2] \in z.fl
  \/ w[1] = "nofl" /\ w[2] \notin z.fl
  \/ w[1] = "accf" /\ w[2] = z.accf
  \/ w[1] = "some" /\ z.n > 0
  \/ w[1] = "chunk" /\ z.cl >= w[2]

(* One operation of the current state, y what its effects make of z. *)
Operate(z, op, y) ==
  LET hit == At(z, z.p + z.n) \in op.c
      skip == [z EXCEPT !.i = @ + 1]
  IN  IF ~Holds(z, op.w) THEN skip
      ELSE CASE op.k = "str" -> __try_str(z, op)
             [] op.k = "init" -> TRY_STR_INIT(skip)
             [] op.k \in {"mv", "mn"} ->
                  IF ~hit THEN skip ELSE IF y.res # "" THEN y
                  ELSE Move(y, op, IF op.k = "mv" THEN z.n + 1 ELSE z.n)
             [] op.k = "jp" ->
                  IF ~hit THEN skip ELSE IF y.res # "" THEN y
                  ELSE Goto([(IF op.fx THEN Store(y, z.p, z.p + z.n - 1, op.fg) ELSE y)
                               EXCEPT !.p = IF op.fx THEN @ + z.n ELSE @], op.to)
             [] op.k = "rt" ->
                  IF ~hit THEN skip
                  ELSE IF y.res # "" THEN y
                  ELSE [(IF op.fx THEN Store(y, z.p, z.p + z.n - 1, op.fg) ELSE y)
                         EXCEPT !.p = @ + z.n, !.res = "RET"]
             [] op.k = "go" -> IF y.res # "" THEN y ELSE Goto(y, op.to)
             [] op.k = "do" -> [y EXCEPT !.i = @ + 1]
             [] op.k = "run" -> Match(z, op)
             [] op.k = "first" -> [skip EXCEPT !.n = 0]
             [] op.k = "need" -> IF At(z, z.p) \in op.c THEN skip ELSE Fail(z)
             [] op.k = "num" -> Number(z, op)
             [] op.k = "flush" -> HostFlush(z, op)
             [] op.k = "two" ->
                  IF z.p = z.hi THEN Move(z, [op EXCEPT !.to = op.s], 1)
                  ELSE IF At(z, z.p + 1) \in op.c THEN Move(z, op, 2) ELSE Fail(z)
             [] op.k = "read" -> ReadMark(z, op)
             [] op.k = "templ" -> IF hit THEN Template(z, op) ELSE skip

(* A state without a match refuses. *)
Exec(z) ==
  LET at(body) == IF z.i > Len(body) THEN Fail(z) ELSE Operate(z, body[z.i], Effects(z, body[z.i].e))
  IN  at(Parsers[z.f].tab[z.cur])

(* __req_parse_if_msince() and its likes: what is not a date is skipped to
   the end of the line. *)
NotADate(z) == z.res = "NEQ" /\ IsDate(z.f) /\ z.cur # "I_EoL"
SkipDate(z) == [z EXCEPT !.cur = "I_EoL", !.i = 1, !.n = 0, !.p = z.lo, !.date = <<0, 0>>, !.acc = 0,
                         !.d = NoDate, !.res = ""]

RECURSIVE Parse(_)
Parse(z) == IF z.res = "" THEN Parse(Exec(z))
            ELSE IF NotADate(z) THEN Parse(SkipDate(z)) ELSE z

(* A call of the parser for the fragment up to hi. *)
Begin(z, hi) ==
  LET y == IF z.st = "" THEN TRY_STR_INIT(z) ELSE z
  IN  [y EXCEPT !.hi = hi, !.fin = hi = Len(z.t), !.p = z.lo, !.n = 0, !.i = 1, !.res = "",
                !.cur = IF z.st = "" THEN Parsers[z.f].init ELSE z.st]

(* A second date of the message is not parsed. *)
SecondDate(z) ==
  IF ~IsDate(z.f) \/ DateField[z.f] \notin DOMAIN z.num THEN z
  ELSE IF z.f = "expires" THEN [z EXCEPT !.cur = "I_EoL"] ELSE SkipDate(z)

Dated(z) == IF IsDate(z.f) /\ z.res \in {"RET", "EQ"} /\ z.date # <<0, 0>>
            THEN [SetNum(z, DateField[z.f], z.date) EXCEPT !.res = IF H2(z) THEN "EQ" ELSE @] ELSE z

FinishSaving(z) == IF z.res \in {"RET", "EQ"} THEN Store(z, z.lo, z.p - 1, "") ELSE z

(* __TFW_HTTP_PARSE_SPECHDR_VAL, TFW_H2_PARSE_HDR_VAL: the value ends; the
   caller stores it unless the parser did, and forgets the number. *)
Finish(z) ==
  LET save == z.f \notin StoringParsers
  IN  CASE z.res = "RET" /\ ~H2(z) ->
             [IF save THEN Store(z, z.lo, z.p - 1, "") ELSE z EXCEPT !.acc = 0, !.accf = "",
                                                                   !.d = NoDate]
        [] z.res = "EQ" -> IF save THEN Store(z, z.lo, z.hi, "") ELSE z
        [] z.res = "RET" /\ z.f # "h2_mark" -> Fail(z)
        [] OTHER -> z

Feed(z, hi) == [Finish(Dated(Parse(SecondDate(Begin(z, hi))))) EXCEPT !.lo = hi + 1]

(* A further header of the same message: what belongs to the message stays. *)
NextValue(z, t) ==
  [Fresh(z.f, t, z.fl) EXCEPT !.num = z.num, !.hbh = z.hbh, !.date = z.date, !.acc = z.acc,
                              !.d = z.d, !.accf = z.accf]

(***************************************************************************)
(* The specification: a value arrives in fragments.                        *)
(***************************************************************************)
ValueInit ==
  /\ \E c \in Cases :
       vcase = [vals |-> c.vals, all |-> c.vals, want |-> c.want, start |-> Fresh(c.f, c.vals[1], c.ctx)]
  /\ vz = vcase.start
  /\ vcuts = 0

Fragment ==
  /\ vz.res \in {"", "POSTPONE"} /\ vz.lo <= Len(vz.t)
  /\ \E hi \in vz.lo..Len(vz.t) :
       /\ vcuts' = IF hi < Len(vz.t) THEN vcuts + 1 ELSE vcuts
       /\ vcuts' <= MaxCuts
       /\ vz' = Feed(vz, hi)
  /\ UNCHANGED vcase

(* RGen_RWS, RGen_EoL: after an HTTP/1 value only white space may follow. *)
Accepted(z) ==
  \/ z.res = "EQ"
  \/ z.res = "RET" /\ \A k \in z.p..Len(z.t) : At(z, k) \in WS \cup (IF k = Len(z.t) THEN CRLF ELSE {})

(* The next header of the message with the same name. *)
NextHeader ==
  /\ Accepted(vz) /\ Len(vcase.vals) > 1
  /\ vcase' = [vcase EXCEPT !.vals = Tail(@)]
  /\ vz' = NextValue(vz, vcase.vals[2])
  /\ UNCHANGED vcuts

ValueNext == Fragment \/ NextHeader
Over(z) == z.res \notin {"", "POSTPONE"} \/ z.lo > Len(z.t)

(* The values whose flagged pieces are looked for later: cookies by the
   sessions, entity tags by the cache, the host and the client's address. *)
Flagged == {"cookie", "set_cookie", "etag", "host", "x_forwarded_for", "h2_cookie", "h2_etag",
            "h2_authority", "h2_x_forwarded_for"}

(* What a parser makes of a message: the outcome, the flags and numbers, the
   hop-by-hop names, the boundary and the characters stored with each flag. *)
Outcome(z) ==
  IF ~Accepted(z) THEN <<"refused">>
  ELSE <<z.fl, z.num, z.hbh, z.bnd,
         IF z.f \in Flagged THEN [fg \in {"NAME", "VALUE", "WVALUE"} |-> Text(z, {fg})] ELSE "">>

RECURSIVE Whole(_, _)
Whole(z, vals) ==
  LET rest(y) == IF ~Accepted(y) \/ Len(vals) = 1 THEN y ELSE Whole(NextValue(y, vals[2]), Tail(vals))
  IN  rest(Feed(z, Len(z.t)))

-----------------------------------------------------------------------------
(* Wherever the fragments of a value are cut, the parser comes to the same
   result: the same verdict, flags, numbers, names and flagged characters
   (fw/http_parser.c, parser->_i_st, _acc and the chunk of TRY_STR carry the
   state over the gap). *)
CutsDontMatter ==
  (Over(vz) /\ Len(vcase.vals) = 1) => Outcome(vz) = Outcome(Whole(vcase.start, vcase.all))

(* The pieces of an accepted value are stored in order and every character
   once, whatever macro stored them (__msg_hdr_chunk_fixup(), saveval). *)
StoredOnce ==
  LET h == vz.hdr
      last == IF vz.res = "POSTPONE" THEN vz.hi ELSE IF H2(vz) THEN Len(vz.t) ELSE vz.p - 1
  IN  vz.res \in {"POSTPONE", "RET", "EQ"} /\ vz.f \notin {"uri_mark", "h2_mark"} =>
        /\ \A k \in 1..Len(h) : h[k][1] = IF k = 1 THEN 1 ELSE h[k - 1][2] + 1
        /\ last = IF h = <<>> THEN 0 ELSE h[Len(h)][2]

Twin == [h2_accept |-> "accept", h2_authorization |-> "authorization",
         h2_cache_control |-> "cache_control", h2_content_length |-> "content_length",
         h2_content_type |-> "content_type", h2_cookie |-> "cookie", h2_etag |-> "etag",
         h2_referer |-> "referer", h2_pragma |-> "pragma", h2_user_agent |-> "user_agent",
         h2_x_forwarded_for |-> "x_forwarded_for", h2_m_override |-> "m_override",
         h2_authority |-> "host", h2_if_msince |-> "if_msince"]

(* A value means the same in HTTP/2 and in HTTP/1: the two parsers of a
   header, written apart, accept the same texts and set the same flags,
   numbers and boundary. *)
TwinsAgree ==
  (Over(vz) /\ vz.f \in DOMAIN Twin /\ Len(vcase.all) = 1) =>
    LET same(h1) == /\ Accepted(vz) <=> Accepted(h1)
                    /\ Accepted(vz) => <<vz.fl, vz.num, vz.bnd>> = <<h1.fl, h1.num, h1.bnd>>
    IN  same(Whole(Fresh(Twin[vz.f], vz.t \o "\r", vcase.start.fl), <<"">>))

(* The days from 1970 to a date, counted year by year and month by month. *)
LeapYear(y) == y % 4 = 0 /\ (y % 100 # 0 \/ y % 400 = 0)
DaysIn(y, m) == IF m = 2 THEN IF LeapYear(y) THEN 29 ELSE 28
                ELSE IF m \in {4, 6, 9, 11} THEN 30 ELSE 31
DaysTo(y, m) ==
  LET years == {k \in 1970..2100 : k < y}
      leap == {k \in years : LeapYear(k)}
      RECURSIVE months(_)
      months(k) == IF k = 1 THEN 0 ELSE months(k - 1) + DaysIn(y, k - 1)
  IN  365 * (y - 1970) + Cardinality(leap) + months(m)

(* A date in any of the three forms, cut anywhere, is the day the calendar
   says (__parse_http_date(), __date_secs()); one the calendar does not
   have is ignored, not refused. *)
DateIsRight ==
  (Over(vz) /\ vcase.want # <<>> /\ Len(vcase.vals) = 1) =>
    LET into == DateField[vz.f]
    IN  /\ Accepted(vz)
        /\ IF vcase.want[1] < 0 THEN into \notin DOMAIN vz.num
           ELSE into \in DOMAIN vz.num /\ vz.num[into] = vcase.want

(* A header value is read, stored and converted alike however it is cut, and
   alike by both versions of HTTP. *)
ValuesRead == CutsDontMatter /\ StoredOnce /\ DateIsRight /\ TwinsAgree
=============================================================================

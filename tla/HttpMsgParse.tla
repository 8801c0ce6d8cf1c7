---------------------------- MODULE HttpMsgParse ----------------------------
(***************************************************************************)
(* tfw_http_parse_req() and tfw_http_parse_resp() (fw/http_parser.c): the  *)
(* first line, the header lines and the body of an HTTP/1 message that     *)
(* arrives in fragments.  A name is read in one of two ways: compared as a *)
(* whole if the fragment holds enough of it (the fast path), or character  *)
(* by character along the tree of the known names.  A value is given to    *)
(* its parser, which HttpValue runs.                                       *)
(***************************************************************************)
EXTENDS HttpValue

CONSTANTS MsgCases,     \* the messages: [who, t, ctx, want]
          MsgCuts       \* how often a message is cut

VARIABLES mcase,        \* the message under test
          mm,           \* the parser: see NewMsg
          mcuts         \* the cuts made so far

msgVars == <<mcase, mm, mcuts>>

(* The known names: <<name, parser of the value, identifier>>. *)
ReqNamesA_C ==
  {<<"accept", "accept", "RAW">>, <<"authorization", "authorization", "RAW">>,
   <<"cache-control", "cache_control", "RAW">>, <<"connection", "connection", "CONNECTION">>,
   <<"content-length", "content_length", "CONTENT_LENGTH">>,
   <<"content-type", "content_type", "CONTENT_TYPE">>, <<"cookie", "cookie", "COOKIE">>}
ReqNamesH_R ==
  {<<"host", "host", "HOST">>, <<"if-modified-since", "if_msince", "RAW">>,
   <<"if-none-match", "etag", "IF_NONE_MATCH">>, <<"keep-alive", "keep_alive", "KEEP_ALIVE">>,
   <<"pragma", "pragma", "RAW">>, <<"referer", "referer", "REFERER">>}
ReqNamesT_X ==
  {<<"transfer-encoding", "transfer_encoding", "TRANSFER_ENCODING">>,
   <<"x-forwarded-for", "x_forwarded_for", "X_FORWARDED_FOR">>,
   <<"x-method-override", "m_override", "RAW">>, <<"x-http-method", "m_override", "RAW">>,
   <<"x-http-method-override", "m_override", "RAW">>, <<"user-agent", "user_agent", "USER_AGENT">>}
ReqNames == ReqNamesA_C \cup ReqNamesH_R \cup ReqNamesT_X

LOCAL Plain(S) == {<<n, "other", "RAW">> : n \in S}
RespNamesA_C ==
  Plain({"access-control-allow-origin", "accept-ranges", "allow"})
  \cup {<<"age", "age", "RAW">>, <<"cache-control", "resp_cache_control", "RAW">>,
        <<"connection", "connection", "CONNECTION">>}
RespNamesContent ==
  Plain({"content-disposition", "content-encoding", "content-language", "content-location",
         "content-range"})
  \cup {<<"content-length", "content_length", "CONTENT_LENGTH">>,
        <<"content-type", "resp_content_type", "CONTENT_TYPE">>}
RespNamesD_P ==
  Plain({"link", "location", "proxy-authenticate"})
  \cup {<<"date", "date", "RAW">>, <<"etag", "etag", "ETAG">>, <<"expires", "expires", "RAW">>,
        <<"keep-alive", "keep_alive", "KEEP_ALIVE">>, <<"last-modified", "last_modified", "RAW">>,
        <<"pragma", "pragma", "RAW">>}
RespNamesR_W ==
  Plain({"retry-after", "strict-transport-security", "vary", "via", "www-authenticate"})
  \cup {<<"server", "server", "SERVER">>, <<"set-cookie", "set_cookie", "SET_COOKIE">>,
        <<"transfer-encoding", "resp_transfer_encoding", "TRANSFER_ENCODING">>}
RespNames == RespNamesA_C \cup RespNamesContent \cup RespNamesD_P \cup RespNamesR_W
Other == <<"", "other", "RAW">>

(* http.h, TFW_HTTP_HDR_NONSINGULAR: the headers that come at most once. *)
Singular == {"HOST", "CONTENT_LENGTH", "CONTENT_TYPE", "USER_AGENT", "SERVER", "COOKIE",
             "SET_COOKIE", "REFERER", "IF_NONE_MATCH", "ETAG", "STATUS_LINE"}

ReqMethods == {"GET", "HEAD", "POST", "COPY", "DELETE", "LOCK", "MKCOL", "MOVE", "OPTIONS", "PATCH",
               "PROPFIND", "PROPPATCH", "PURGE", "PUT", "TRACE", "UNLOCK"}

(***************************************************************************)
(* The parser.  t: the text; lo..hi: the fragment; p: the cursor; st, pre, *)
(* row: parser->state, the part of a name read so far and the header found *)
(* for it; fld: the strings of the message; heads: the closed headers; z:  *)
(* the parser of values, open while it reads one; hbh, listed: the headers *)
(* marked hop-by-hop and the names to be marked; ended: the header part is *)
(* complete; rd: parser->to_read.                                          *)
(***************************************************************************)
NoStr == [from |-> 0, s |-> ""]
NewMsg(who, t, ctx) ==
  [who |-> who, t |-> t, lo |-> 1, hi |-> 0, p |-> 1, st |-> who, pre |-> "", row |-> Other,
   fld |-> [f \in {"hdr", "host", "userinfo", "uri_path", "crlf", "body"} |-> NoStr],
   id |-> "RAW", heads |-> <<>>, open |-> FALSE, hbh |-> {}, listed |-> {}, ended |-> FALSE,
   z |-> Fresh("host", t, IF who = "Req_0" THEN {"CLNT"} ELSE ctx), method |-> "", ver |-> "", status |-> 0, rd |-> -1, acc |-> 0,
   cnt |-> 0, res |-> ""]

C(m) == SubSeq(m.t, m.p, m.p)
Ahead(m, k) == SubSeq(m.t, m.p, m.p + k - 1)
__data_available(m, k) == m.hi - m.p + 1 >= k
Block(m) == [m EXCEPT !.res = "BLOCK"]
Jmp(m, st) == [m EXCEPT !.st = st]

(* __tfw_http_msg_add_str_data(): the first piece of a string starts where
   the string was opened, a further one at the given place. *)
tfw_http_msg_add_str_data(m, f, a, b) ==
  LET s == m.fld[f]
      from == IF s.from = 0 THEN a ELSE s.from
  IN  [m EXCEPT !.fld[f] = [from |-> from,
         s |-> IF s.s = "" THEN SubSeq(m.t, from, b) ELSE s.s \o SubSeq(m.t, a, b)]]
Open(m, f) == [m EXCEPT !.fld[f] = [from |-> m.p, s |-> ""]]

__FSM_MOVE_nofixup_n(m, st, n) ==
  [m EXCEPT !.p = @ + n, !.st = st, !.res = IF m.p + n > m.hi THEN "POSTPONE" ELSE @]
MoveLosing(m, st, n, f) == __FSM_MOVE_nofixup_n(m, st, n)
__FSM_MOVE_nf(m, st, n, f) ==
  LET y == __FSM_MOVE_nofixup_n(m, st, n)
  IN  IF y.res = "POSTPONE" THEN tfw_http_msg_add_str_data(y, f, m.lo, m.hi) ELSE y
__FSM_MOVE_hdr_fixup(m, st, n) ==
  __FSM_MOVE_nofixup_n(tfw_http_msg_add_str_data(m, "hdr", m.p, m.p + n - 1), st, n)

(* The length of the run of an alphabet at the cursor. *)
MatchLen(m, S) ==
  LET out == {k \in m.p..m.hi : SubSeq(m.t, k, k) \notin S}
  IN  Min(out \cup {m.hi + 1}) - m.p

Starts(n, s) == Len(s) <= Len(n) /\ SubSeq(n, 1, Len(s)) = s

(***************************************************************************)
(* The first line of a request.                                            *)
(***************************************************************************)
Req_0(m) == IF C(m) \in CRLF THEN __FSM_MOVE_nofixup_n(m, "Req_0", 1) ELSE Jmp(m, "Req_Method")

SetMethod(m, s) == [m EXCEPT !.method = s, !.z.fl = IF s = "POST" THEN @ \cup {s} ELSE @]

Req_MethodStep(m) ==
  LET s == m.pre \o C(m)
  IN  IF s \in ReqMethods THEN __FSM_MOVE_nofixup_n(SetMethod(m, s), "Req_MUSpace", 1)
      ELSE IF \E n \in ReqMethods : Starts(n, s)
           THEN __FSM_MOVE_nofixup_n([m EXCEPT !.pre = s], "Req_MethodStep", 1)
      ELSE __FSM_MOVE_nofixup_n(m, "Req_MethodUnknown", 1)

(* Req_Method, Req_Method_RareMethods: nine characters are compared. *)
Req_Method(m) ==
  LET spaced == {n \in {"GET", "PUT", "OPTIONS"} : Ahead(m, Len(n) + 1) = n \o " "}
      plain == {n \in ReqMethods \ {"GET", "PUT", "OPTIONS"} : Ahead(m, Len(n)) = n}
      known == {n \in ReqMethods : Len(n) > 4 /\ Starts(n, Ahead(m, 4))}
      Is1(S) == CHOOSE n \in S : TRUE
  IN  IF ~__data_available(m, 9) THEN Req_MethodStep([m EXCEPT !.pre = ""])
      ELSE IF spaced # {}
           THEN __FSM_MOVE_nofixup_n(SetMethod(m, Is1(spaced)), "Req_Uri", Len(Is1(spaced)) + 1)
      ELSE IF plain # {}
           THEN __FSM_MOVE_nofixup_n(SetMethod(m, Is1(plain)), "Req_MUSpace", Len(Is1(plain)))
      ELSE IF known # {}
           THEN __FSM_MOVE_nofixup_n([m EXCEPT !.pre = Ahead(m, 4)], "Req_MethodStep", 4)
      ELSE __FSM_MOVE_nofixup_n(m, "Req_MethodUnknown", 1)

Req_MethodUnknown(m) ==
  LET y == __FSM_MOVE_nofixup_n(m, "Req_MethodUnknown", MatchLen(m, token))
  IN  IF y.res # "" THEN y ELSE Jmp([y EXCEPT !.method = "UNKNOWN"], "Req_MUSpace")

Req_MUSpace(m) == IF C(m) # " " THEN Block(m) ELSE __FSM_MOVE_nofixup_n(m, "Req_Uri", 1)

Req_Uri(m) ==
  IF C(m) = "/" THEN Jmp(m, "Req_UriMark")
  ELSE IF __data_available(m, 7) /\ LcText(Ahead(m, 7)) = "http://"
       THEN __FSM_MOVE_nofixup_n(m, "Req_UriAuthorityStart", 7)
  ELSE IF TFW_LC(C(m)) = "h" THEN __FSM_MOVE_nofixup_n([m EXCEPT !.pre = "h"], "Req_UriSch", 1)
  ELSE Block(m)

Req_UriSch(m) ==
  LET s == m.pre \o TFW_LC(C(m))
  IN  IF ~Starts("http://", s) THEN Block(m)
      ELSE __FSM_MOVE_nofixup_n([m EXCEPT !.pre = s],
                                IF s = "http://" THEN "Req_UriAuthorityStart" ELSE "Req_UriSch", 1)

LOCAL HostChar == Alnum \cup {".", "-"}
Req_UriAuthorityStart(m) ==
  IF C(m) \in HostChar THEN __FSM_MOVE_nf(Open(m, "host"), "Req_UriAuthority", 1, "host")
  ELSE IF C(m) = "/" THEN Jmp(m, "Req_UriMark")
  ELSE IF C(m) = "[" THEN __FSM_MOVE_nf(Open(m, "host"), "Req_UriAuthorityIPv6", 1, "host")
  ELSE Block(m)

Req_UriAuthority(m) ==
  LET y == tfw_http_msg_add_str_data(m, "host", m.lo, m.p - 1)
  IN  IF C(m) \in HostChar THEN __FSM_MOVE_nf(m, "Req_UriAuthority", 1, "host")
      ELSE IF C(m) # "@" THEN Jmp(m, "Req_UriAuthorityEnd")
      ELSE IF m.fld.userinfo.s # "" THEN Block(m)
      ELSE __FSM_MOVE_nofixup_n([y EXCEPT !.fld.userinfo = y.fld.host, !.fld.host = NoStr],
                                "Req_UriAuthorityResetHost", 1)

Req_UriAuthorityIPv6(m) ==
  IF C(m) \in Xdigit \cup {":"} THEN __FSM_MOVE_nf(m, "Req_UriAuthorityIPv6", 1, "host")
  ELSE IF C(m) = "]" THEN __FSM_MOVE_nf(m, "Req_UriAuthorityEnd", 1, "host") ELSE Block(m)

Req_UriAuthorityResetHost(m) ==
  IF C(m) \in HostChar THEN __FSM_MOVE_nf(Open(m, "host"), "Req_UriAuthority", 1, "host")
  ELSE IF C(m) = "[" THEN __FSM_MOVE_nf(Open(m, "host"), "Req_UriAuthorityIPv6", 1, "host")
  ELSE Jmp(m, "Req_UriAuthorityEnd")

(* Req_UriAuthorityEnd (":" begins a port) and Req_UriPort (digits). *)
Req_UriAuthorityEnd(m, more) ==
  LET y == tfw_http_msg_add_str_data(m, "host", m.lo, m.p - 1)
  IN  IF C(m) \in more THEN __FSM_MOVE_nf(m, "Req_UriPort", 1, "host")
      ELSE IF C(m) = "/" THEN Jmp(y, "Req_UriMark")
      ELSE IF C(m) = " " THEN __FSM_MOVE_nofixup_n([y EXCEPT !.pre = ""], "Req_HttpVer", 1)
      ELSE Block(m)

(* Req_UriMark with no limit of misses: there is no mark in the path. *)
Req_UriMark(m) == __FSM_MOVE_nf(Open(m, "uri_path"), "Req_UriAbsPath", 1, "uri_path")

Req_UriAbsPath(m) ==
  LET n == MatchLen(m, uri)
      y == tfw_http_msg_add_str_data(m, "uri_path", m.p, m.p + n - 1)
  IN  IF m.p + n > m.hi THEN __FSM_MOVE_nofixup_n(y, "Req_UriAbsPath", n)
      ELSE IF SubSeq(m.t, m.p + n, m.p + n) # " " THEN Block(m)
      ELSE __FSM_MOVE_nofixup_n([y EXCEPT !.pre = ""], "Req_HttpVer", n + 1)

(* Req_HttpVer and the states of its characters. *)
Req_HttpVer(m) ==
  LET s == m.pre \o C(m)
  IN  IF m.pre = "" /\ __data_available(m, 8) THEN
        IF Ahead(m, 8) \in {"HTTP/1.1", "HTTP/1.0"}
        THEN __FSM_MOVE_nofixup_n([m EXCEPT !.ver = Ahead(m, 8)], "RGen_EoL", 8) ELSE Block(m)
      ELSE IF s \in {"HTTP/1.1", "HTTP/1.0"}
           THEN __FSM_MOVE_nofixup_n([m EXCEPT !.ver = s], "RGen_EoL", 1)
      ELSE IF Starts("HTTP/1.", s) THEN __FSM_MOVE_nofixup_n([m EXCEPT !.pre = s], "Req_HttpVer", 1)
      ELSE Block(m)

(***************************************************************************)
(* The first line of a response, kept as a header.                         *)
(***************************************************************************)
Resp_0(m) ==
  IF C(m) \in CRLF THEN __FSM_MOVE_nofixup_n(m, "Resp_0", 1)
  ELSE Jmp([m EXCEPT !.pre = "", !.z.fl = IF "HEAD" \in @ THEN @ \cup {"VOID_BODY"} ELSE @], "Resp_HttpVer")

Resp_HttpVer(m) ==
  LET s == m.pre \o C(m)
      y == IF m.pre = "" THEN Open(m, "hdr") ELSE m
      Ver(v) == SubSeq(v, 1, 8)
      Full == {"HTTP/1.1 ", "HTTP/1.0 "}
  IN  IF m.pre = "" /\ __data_available(m, 9) THEN
        IF Ahead(m, 9) \in Full
        THEN __FSM_MOVE_nf([y EXCEPT !.ver = Ver(Ahead(m, 9))], "Resp_StatusCode", 9, "hdr") ELSE Block(m)
      ELSE IF s \in Full THEN __FSM_MOVE_nf([y EXCEPT !.ver = Ver(s)], "Resp_StatusCode", 1, "hdr")
      ELSE IF \E v \in Full : Starts(v, s)
           THEN __FSM_MOVE_nf([y EXCEPT !.pre = s], "Resp_HttpVer", 1, "hdr")
      ELSE Block(m)

StatusMax == 99999
Resp_StatusCode(m) ==
  LET r == __parse_ulong(m, CRLFWS \cup {","}, StatusMax, m.p, m.acc)
      none == r[3] \in 100..199 \cup {204}
      flags == (IF none \/ r[3] = 304 THEN {"VOID_BODY"} ELSE {}) \cup (IF none THEN {"BODYLESS"} ELSE {})
  IN  IF r[1] = "POSTPONE"
      THEN __FSM_MOVE_nf([m EXCEPT !.acc = r[3]], "Resp_StatusCode", m.hi - m.p + 1, "hdr")
      ELSE IF r[1] # "" THEN Block(m)
      ELSE __FSM_MOVE_nf([m EXCEPT !.status = r[3], !.acc = 0,
                                   !.z.fl = @ \cup flags],
                         "Resp_ReasonPhrase", r[2] - m.p, "hdr")

Resp_ReasonPhrase(m) ==
  LET n == MatchLen(m, ctext_vchar)
      x == tfw_http_msg_add_str_data(m, "hdr", m.lo, m.p - 1)
      y == tfw_http_msg_add_str_data(x, "hdr", m.p, m.p + n - 1)
  IN  IF m.p + n > m.hi THEN __FSM_MOVE_nofixup_n(y, "Resp_ReasonPhrase", n)
      ELSE IF SubSeq(m.t, m.p + n, m.p + n) \notin CRLF THEN Block(m)
      ELSE Jmp([y EXCEPT !.id = "STATUS_LINE", !.p = @ + n], "RGen_EoL")

(***************************************************************************)
(* Header lines: the name.                                                 *)
(***************************************************************************)
Names(m) == IF m.who = "Req_0" THEN ReqNames ELSE RespNames

(* Names compared with every character or-ed with 0x20, where CR passes for
   the dash. *)
LooseNames == {"access-control-allow-origin", "accept-ranges", "proxy-authenticate", "retry-after",
               "strict-transport-security", "www-authenticate"}
FastMatch(m, r) ==
  LET rest == SubSeq(r[1], Len(m.pre) + 1, Len(r[1])) \o ":"
      same(k) == LET c == SubSeq(m.t, m.p + k - 1, m.p + k - 1)
                     n == SubSeq(rest, k, k)
                 IN  TFW_LC(c) = n \/ (c = "\r" /\ n = "-" /\ r[1] \in LooseNames)
  IN  Starts(r[1], m.pre) /\ __data_available(m, Len(rest)) /\ \A k \in 1..Len(rest) : same(k)

(* The name ends at a colon n characters ahead: name and colon are stored. *)
NameRead(m, r, n) ==
  LET y == tfw_http_msg_add_str_data([m EXCEPT !.row = r], "hdr", m.lo, m.p + n - 1)
  IN  __FSM_MOVE_hdr_fixup([y EXCEPT !.p = @ + n], "RGen_LWS", 1)

(* A state of the tree of names: one character further. *)
TX_AF(m) ==
  LET s == m.pre \o TFW_LC(C(m))
      full == {r \in Names(m) : r[1] = m.pre}
  IN  IF C(m) = ":" /\ full # {} THEN
        LET r == CHOOSE x \in full : TRUE
        IN  IF m.pre = "accept" THEN __FSM_MOVE_nf([m EXCEPT !.row = r], "Value", 1, "hdr")
            ELSE NameRead(m, r, 0)
      ELSE IF \E r \in Names(m) : Starts(r[1], s)
           THEN __FSM_MOVE_nf([m EXCEPT !.pre = s], IF s = "content-" THEN "Content_" ELSE "TX_AF", 1, "hdr")
      ELSE Jmp(m, "RGen_HdrOtherN")

(* The names compared as a whole: at the start of a header all but those
   whose comparison holds for no sensible name (that of Accept looks for its
   "t" and its colon too far ahead), after "content-" the rest of the name. *)
NeverFast == {"accept", "x-http-method", "x-method-override"}
FastName(m) ==
  LET hit == {r \in Names(m) : r[1] \notin NeverFast /\ FastMatch(m, r)}
      r1 == CHOOSE x \in hit : TRUE
  IN  IF hit # {} THEN NameRead(m, r1, Len(r1[1]) - Len(m.pre)) ELSE TX_AF(m)

Content_(m) == FastName(m)

(* Headers in "c": fourteen characters are needed, five decide. *)
HdrC(m) ==
  LET five == LcText(Ahead(m, 5))
      named == {r \in Names(m) : Starts(r[1], "c") /\ ~Starts(r[1], "content-") /\ FastMatch(m, r)}
      r1 == CHOOSE x \in named : TRUE
  IN  IF ~__data_available(m, 14) THEN TX_AF(m)
      ELSE IF named # {} THEN NameRead(m, r1, Len(r1[1]))
      ELSE IF LcText(Ahead(m, 8)) = "content-"
           THEN __FSM_MOVE_nf([m EXCEPT !.pre = "content-"], "Content_", 8, "hdr")
      ELSE __FSM_MOVE_nf(m, "RGen_HdrOtherN",
                         IF \E r \in Names(m) : Starts(r[1], five) THEN 5 ELSE 1, "hdr")

RGen_HdrOtherN(m) ==
  LET n == MatchLen(m, token)
      y == tfw_http_msg_add_str_data(m, "hdr", m.lo, m.hi)
  IN  IF m.p + n > m.hi THEN __FSM_MOVE_nofixup_n(y, "RGen_HdrOtherN", n)
      ELSE IF SubSeq(m.t, m.p + n, m.p + n) # ":" \/ (n = 0 /\ m.fld.hdr.s = "") THEN Block(m)
      ELSE NameRead(m, Other, n)

(***************************************************************************)
(* Header lines: the value.                                                *)
(***************************************************************************)
RGen_LWS(m) ==
  LET n == MatchLen(m, WS)
      y == IF n = 0 THEN m ELSE tfw_http_msg_add_str_data(m, "hdr", m.p, m.p + n - 1)
  IN  IF m.p + n > m.hi THEN __FSM_MOVE_nofixup_n(y, "RGen_LWS", n)
      ELSE Jmp([y EXCEPT !.p = @ + n], IF m.row[2] = "other" THEN "RGen_HdrOtherV" ELSE "Value")

NameOf(s) ==
  LET colons == {k \in 1..Len(s) : SubSeq(s, k, k) = ":"}
  IN  LcText(IF colons = {} THEN s ELSE SubSeq(s, 1, Min(colons) - 1))
Slot(id, s) == IF id = "RAW" THEN NameOf(s) ELSE id
Held(m, slot) == \E k \in 1..Len(m.heads) : Slot(m.heads[k][1], m.heads[k][2]) = slot

(* mark_raw_hbh(): the first header of a listed name is marked. *)
mark_raw_hbh(m) ==
  LET n == NameOf(m.fld.hdr.s)
  IN  IF n \in m.listed THEN [m EXCEPT !.hbh = @ \cup {n}, !.listed = @ \ {n}] ELSE m

RGen_HdrOtherV(m) ==
  LET n == MatchLen(m, ctext_vchar)
      y == tfw_http_msg_add_str_data(m, "hdr", m.p, m.p + n - 1)
  IN  IF m.p + n > m.hi THEN __FSM_MOVE_nofixup_n(y, "RGen_HdrOtherV", n)
      ELSE IF SubSeq(m.t, m.p + n, m.p + n) \notin CRLF THEN Block(m)
      ELSE __FSM_MOVE_nofixup_n([mark_raw_hbh(y) EXCEPT !.id = "RAW"], "RGen_EoL", n)

MarkNone(m, names) == [m EXCEPT !.listed = @ \cup names]

(* __mark_hbh_hdr(): a name listed in Connection marks the headers read
   before it, else it waits for one. *)
__mark_hbh_hdr(m, names) ==
  LET seen == {n \in names : Held(m, n)}
  IN  [m EXCEPT !.hbh = @ \cup seen, !.listed = @ \cup (names \ seen)]

(* __TFW_HTTP_PARSE_SPECHDR_VAL, __TFW_HTTP_PARSE_RAWHDR_VAL. *)
ValueRead(m, old, r) ==
  LET fresh == SubSeq(r.hdr, Len(old.hdr) + 1, Len(r.hdr))
      stored == FoldLeft(LAMBDA y, h : tfw_http_msg_add_str_data(y, "hdr", h[1], h[2]), m, fresh)
      names == {LcText(r.hbh[k]) : k \in Len(old.hbh)..(Len(r.hbh) - 1)}
      ka == IF "HBH_KEEP_ALIVE" \in r.fl /\ Held(m, "KEEP_ALIVE") THEN {"KEEP_ALIVE"} ELSE {}
      y == __mark_hbh_hdr([stored EXCEPT !.z = r, !.hbh = @ \cup ka], names)
  IN  CASE m.row[3] \in Singular /\ Held(m, m.row[3]) -> Block(m)
        [] r.res = "POSTPONE" -> [y EXCEPT !.open = TRUE, !.p = m.hi + 1, !.res = "POSTPONE"]
        [] r.res = "RET" ->
             LET x == [y EXCEPT !.open = FALSE, !.p = r.p, !.id = m.row[3], !.st = "RGen_RWS"]
             IN  IF m.row[3] = "RAW" THEN mark_raw_hbh(x) ELSE x
        [] r.res = "UB" -> [m EXCEPT !.res = "UB"]
        [] OTHER -> Block(m)
Value(m) ==
  LET feed(old) == ValueRead(m, old, Feed(old, m.hi))
  IN  feed(IF m.open THEN m.z ELSE [NextValue(m.z, m.t) EXCEPT !.f = m.row[2], !.lo = m.p])

RGen_RWS(m) == IF C(m) \in WS THEN __FSM_MOVE_nofixup_n(m, "RGen_RWS", 1) ELSE Jmp(m, "RGen_EoL")

(* http_msg.c: the header goes to its slot of the table. *)
tfw_http_msg_hdr_close(m) ==
  LET dup == m.id # "RAW" /\ Held(m, m.id)
  IN  IF m.fld.hdr.from = 0 THEN m
      ELSE IF dup /\ m.id \in Singular THEN Block(m)
      ELSE [m EXCEPT !.heads = Append(@, <<m.id, m.fld.hdr.s>>), !.fld.hdr = NoStr,
                     !.z.fl = IF dup /\ m.id # "X_FORWARDED_FOR" THEN @ \cup {"FIELD_DUPENTRY"} ELSE @]

(* RGen_EoL and RGen_CR. *)
RGen_EoL(m) ==
  IF C(m) = "\r" THEN __FSM_MOVE_nofixup_n(m, "RGen_CR", 1) ELSE Jmp(m, "RGen_CR")
RGen_CR(m) ==
  LET y == tfw_http_msg_hdr_close(m)
  IN  IF C(m) # "\n" \/ y.res # "" THEN Block(m) ELSE __FSM_MOVE_nofixup_n(y, "RGen_Hdr", 1)

(***************************************************************************)
(* The end of the headers and the body.                                    *)
(***************************************************************************)
FSM_EXIT(m) == [m EXCEPT !.p = @ + 1, !.res = "PASS"]

SpecHbh(m) == {"CONNECTION"} \cup (IF m.who = "Resp_0" THEN {"SERVER"} ELSE {})
              \cup (IF "HBH_KEEP_ALIVE" \in m.z.fl THEN {"KEEP_ALIVE"} ELSE {})
mark_spec_hbh(m) == [m EXCEPT !.hbh = @ \cup {id \in SpecHbh(m) : Held(m, id)}]

RGen_Hdr(m) ==
  LET y == [Open(m, "hdr") EXCEPT !.pre = ""]
      x == IF m.fld.crlf.from = 0 THEN Open(m, "crlf") ELSE m
      firsts == {SubSeq(r[1], 1, 1) : r \in Names(m)}
  IN  CASE C(m) = "\r" -> IF m.ended THEN __FSM_MOVE_nofixup_n(m, "RGen_CRLFCR", 1)
                          ELSE __FSM_MOVE_nf(x, "RGen_CRLFCR", 1, "crlf")
        [] C(m) = "\n" /\ m.fld.crlf.from # 0 -> FSM_EXIT(m)
        [] C(m) = "\n" -> Jmp([x EXCEPT !.fld.crlf.s = "\n", !.ended = TRUE], "RGen_BodyInit")
        [] TFW_LC(C(m)) = "c" -> HdrC(y)
        [] TFW_LC(C(m)) \in firsts \ {"c"} -> FastName(y)
        [] OTHER -> Jmp(y, "RGen_HdrOtherN")

RGen_CRLFCR(m) ==
  LET y == mark_spec_hbh(m)
      x == tfw_http_msg_add_str_data(y, "crlf", m.lo, m.p)
  IN  IF C(m) # "\n" THEN Block(m)
      ELSE IF m.ended THEN FSM_EXIT(y) ELSE Jmp([x EXCEPT !.ended = TRUE], "RGen_BodyInit")

Length(m) == IF "content_length" \in DOMAIN m.z.num THEN m.z.num["content_length"] ELSE 0
Sized(m) == __FSM_MOVE_nofixup_n([m EXCEPT !.rd = Length(m)], "RGen_BodyStart", 1)
Coded(m, other) ==
  IF Held(m, "CONTENT_LENGTH") THEN Block(m)
  ELSE IF "CHUNKED" \in m.z.fl THEN __FSM_MOVE_nofixup_n(m, "RGen_BodyStart", 1) ELSE other

(* RGen_BodyInit of requests and of responses (RFC 7230 3.3.3). *)
RGen_BodyInitReq(m) ==
  IF Held(m, "TRANSFER_ENCODING") THEN Coded(m, Block(m))
  ELSE IF Length(m) # 0 THEN Sized(m) ELSE FSM_EXIT(m)
RGen_BodyInitResp(m) ==
  LET unlim == __FSM_MOVE_nofixup_n([m EXCEPT !.z.fl = @ \cup {"UNLIMITED"}], "Resp_BodyUnlimStart", 1)
  IN  IF "VOID_BODY" \in m.z.fl THEN FSM_EXIT(m)
      ELSE IF Held(m, "TRANSFER_ENCODING") THEN Coded(m, unlim)
      ELSE IF ~Held(m, "CONTENT_LENGTH") THEN unlim
      ELSE IF Length(m) # 0 THEN Sized(m) ELSE FSM_EXIT(m)

Resp_BodyUnlimRead(m) == __FSM_MOVE_nf(m, "Resp_BodyUnlimRead", m.hi - m.p + 1, "body")

RGen_BodyChunk(m) ==
  IF m.rd # -1 THEN Jmp(m, "RGen_BodyReadChunk")
  ELSE IF C(m) \in Xdigit THEN Jmp(m, "RGen_BodyChunkLen") ELSE Block(m)

RGen_BodyReadChunk(m) ==
  LET sz == Less(m.rd, m.hi - m.p + 1)
      y == [m EXCEPT !.rd = @ - sz]
      x == tfw_http_msg_add_str_data(y, "body", m.p, m.p + sz - 1)
  IN  IF y.rd > 0 THEN __FSM_MOVE_nf(y, "RGen_BodyReadChunk", sz, "body")
      ELSE IF "CHUNKED" \in m.z.fl THEN __FSM_MOVE_nf([y EXCEPT !.rd = -1], "RGen_BodyEoL", sz, "body")
      ELSE [x EXCEPT !.p = @ + sz, !.res = "PASS"]

(* parse_int_hex(), with a long of HexDigits digits. *)
HexDigits == 4
LONG_MAX == 32767
HexValue(c) == (CHOOSE k \in 1..16 : SubSeq("0123456789abcdef", k, k) = TFW_LC(c)) - 1
parse_int_hex(m, n) == FoldLeft(LAMBDA a, k : 16 * a + HexValue(SubSeq(m.t, m.p + k - 1, m.p + k - 1)),
                                m.acc, [k \in 1..n |-> k])
RGen_BodyChunkLen(m) ==
  LET n == MatchLen(m, Xdigit)
      y == [m EXCEPT !.acc = parse_int_hex(m, n), !.cnt = @ + n]
  IN  IF m.cnt + n > HexDigits THEN Block(m)
      ELSE IF m.p + n > m.hi THEN __FSM_MOVE_nf(y, "RGen_BodyChunkLen", n, "body")
      ELSE IF SubSeq(m.t, m.p + n, m.p + n) \notin CRLF \cup {";"} \/ y.acc > LONG_MAX THEN Block(m)
      ELSE __FSM_MOVE_nf([y EXCEPT !.rd = y.acc, !.acc = 0, !.cnt = 0], "RGen_BodyChunkExt", n, "body")

RGen_BodyChunkExt(m) ==
  IF C(m) \in token \cup {";", "="} THEN __FSM_MOVE_nf(m, "RGen_BodyChunkExt", 1, "body")
  ELSE Jmp(m, "RGen_BodyEoL")

RGen_BodyEoL(m) ==
  IF C(m) = "\r" THEN __FSM_MOVE_nf(m, "RGen_BodyCR", 1, "body") ELSE Jmp(m, "RGen_BodyCR")

RGen_BodyCR(m) ==
  IF C(m) # "\n" THEN Block(m)
  ELSE IF m.rd # 0 THEN __FSM_MOVE_nf(m, "RGen_BodyChunk", 1, "body")
  ELSE __FSM_MOVE_nofixup_n(tfw_http_msg_add_str_data(m, "body", m.lo, m.p), "RGen_Hdr", 1)

Step(m) ==
  CASE m.st = "Req_0" -> Req_0(m)
    [] m.st = "Req_Method" -> Req_Method(m)
    [] m.st = "Req_MethodStep" -> Req_MethodStep(m)
    [] m.st = "Req_MethodUnknown" -> Req_MethodUnknown(m)
    [] m.st = "Req_MUSpace" -> Req_MUSpace(m)
    [] m.st = "Req_Uri" -> Req_Uri(m)
    [] m.st = "Req_UriSch" -> Req_UriSch(m)
    [] m.st = "Req_UriAuthorityStart" -> Req_UriAuthorityStart(m)
    [] m.st = "Req_UriAuthority" -> Req_UriAuthority(m)
    [] m.st = "Req_UriAuthorityIPv6" -> Req_UriAuthorityIPv6(m)
    [] m.st = "Req_UriAuthorityResetHost" -> Req_UriAuthorityResetHost(m)
    [] m.st = "Req_UriAuthorityEnd" -> Req_UriAuthorityEnd(m, {":"})
    [] m.st = "Req_UriPort" -> Req_UriAuthorityEnd(m, Digit)
    [] m.st = "Req_UriMark" -> Req_UriMark(m)
    [] m.st = "Req_UriAbsPath" -> Req_UriAbsPath(m)
    [] m.st = "Req_HttpVer" -> Req_HttpVer(m)
    [] m.st = "Resp_0" -> Resp_0(m)
    [] m.st = "Resp_HttpVer" -> Resp_HttpVer(m)
    [] m.st = "Resp_StatusCode" -> Resp_StatusCode(m)
    [] m.st = "Resp_ReasonPhrase" -> Resp_ReasonPhrase(m)
    [] m.st = "RGen_EoL" -> RGen_EoL(m)
    [] m.st = "RGen_CR" -> RGen_CR(m)
    [] m.st = "RGen_Hdr" -> RGen_Hdr(m)
    [] m.st = "TX_AF" -> TX_AF(m)
    [] m.st = "Content_" -> Content_(m)
    [] m.st = "RGen_HdrOtherN" -> RGen_HdrOtherN(m)
    [] m.st = "RGen_LWS" -> RGen_LWS(m)
    [] m.st = "RGen_HdrOtherV" -> RGen_HdrOtherV(m)
    [] m.st = "Value" -> Value(m)
    [] m.st = "RGen_RWS" -> RGen_RWS(m)
    [] m.st = "RGen_CRLFCR" -> RGen_CRLFCR(m)
    [] m.st = "RGen_BodyInit" -> IF m.who = "Req_0" THEN RGen_BodyInitReq(m) ELSE RGen_BodyInitResp(m)
    [] m.st = "Resp_BodyUnlimStart" -> Jmp(Open(m, "body"), "Resp_BodyUnlimRead")
    [] m.st = "Resp_BodyUnlimRead" -> Resp_BodyUnlimRead(m)
    [] m.st = "RGen_BodyStart" -> Jmp(Open(m, "body"), "RGen_BodyChunk")
    [] m.st = "RGen_BodyChunk" -> RGen_BodyChunk(m)
    [] m.st = "RGen_BodyReadChunk" -> RGen_BodyReadChunk(m)
    [] m.st = "RGen_BodyChunkLen" -> RGen_BodyChunkLen(m)
    [] m.st = "RGen_BodyChunkExt" -> RGen_BodyChunkExt(m)
    [] m.st = "RGen_BodyEoL" -> RGen_BodyEoL(m)
    [] m.st = "RGen_BodyCR" -> RGen_BodyCR(m)

RECURSIVE ParseMsg(_)
ParseMsg(m) == IF m.res # "" THEN m ELSE ParseMsg(Step(m))

(* tfw_http_parse_req(), tfw_http_parse_resp(): one fragment. *)
FeedMsg(m, hi) == [ParseMsg([m EXCEPT !.hi = hi, !.p = m.lo, !.res = ""]) EXCEPT !.lo = hi + 1]

(* tfw_http_parse_terminate(): the server has closed the connection. *)
tfw_http_parse_terminate(m) ==
  [m EXCEPT !.res = IF "UNLIMITED" \in m.z.fl THEN "PASS" ELSE "BLOCK"]

(***************************************************************************)
(* The specification: a message arrives in fragments.                      *)
(***************************************************************************)
MsgInit ==
  /\ mcase \in MsgCases
  /\ mm = NewMsg(mcase.who, mcase.t, mcase.ctx)
  /\ mcuts = 0

MsgFragment ==
  /\ mm.res \in {"", "POSTPONE"} /\ mm.lo <= Len(mm.t)
  /\ \E hi \in mm.lo..Len(mm.t) :
       /\ mcuts' = IF hi < Len(mm.t) THEN mcuts + 1 ELSE mcuts
       /\ mcuts' <= MsgCuts
       /\ mm' = FeedMsg(mm, hi)
  /\ UNCHANGED mcase

ServerCloses ==
  /\ mm.res = "POSTPONE" /\ mm.lo > Len(mm.t) /\ mm.who = "Resp_0"
  /\ mm' = tfw_http_parse_terminate(mm)
  /\ UNCHANGED <<mcase, mcuts>>

MsgNext == MsgFragment \/ ServerCloses
MsgOver == mm.res \in {"PASS", "BLOCK", "UB"} \/ (mm.lo > Len(mm.t) /\ mm.who = "Req_0")

-----------------------------------------------------------------------------
(* A message is read back as it was written, wherever its fragments are cut:
   the verdict, where it ends, the method or the status, every header with
   its identifier and its whole text, the host of the URI, and the body
   (tfw_http_parse_req(), tfw_http_parse_resp(), the fast and the slow way
   through the names). *)
MessageIsRead ==
  MsgOver =>
    IF mcase.want.res # "PASS" THEN mm.res = mcase.want.res
    ELSE /\ mm.res = "PASS" /\ mm.p = mcase.want.p
         /\ (IF mm.who = "Req_0" THEN mm.method ELSE "") = mcase.want.method
         /\ mm.status = mcase.want.status /\ mm.heads = mcase.want.heads
         /\ mm.fld.body.s = mcase.want.body /\ mm.fld.uri_path.s = mcase.want.path
         /\ mm.fld.host.s = mcase.want.host

(* A header listed in a Connection header, before it or after it, and the
   ones that are hop-by-hop of themselves are marked when the message is
   complete (mark_raw_hbh(), __mark_hbh_hdr(), mark_spec_hbh()); no other
   header is. *)
HopByHopMarked ==
  (mm.res = "PASS" /\ mcase.want.res = "PASS") => mm.hbh = mcase.want.hbh

(* An HTTP/1 message is read as it was written, with its hop-by-hop headers
   marked. *)
MessageRight == MessageIsRead /\ HopByHopMarked
=============================================================================

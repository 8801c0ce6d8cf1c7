----------------------------- MODULE HttpH2Msg ------------------------------
(***************************************************************************)
(* tfw_h2_parse_req_hdr(), tfw_h2_parse_body() and                         *)
(* tfw_h2_parse_req_finish() (fw/http_parser.c): an HTTP/2 request.  The   *)
(* HPACK decoder hands over the name and then the value of a header, each  *)
(* in fragments of which the last is marked; a name that comes from a      *)
(* table of HPACK is not parsed, only its tag is known.  As in HTTP/1 a    *)
(* name is compared as a whole or followed character by character.         *)
(***************************************************************************)
EXTENDS HttpMsgParse

CONSTANTS H2Headers,    \* the headers a request may have: <<name, value>>
          H2Methods,    \* the values of :method
          H2Whole,      \* the headers that HPACK's tables hold with their value
          H2Bodies,     \* the lengths of DATA frames
          H2MaxHeaders, \* headers of a request
          H2Cuts        \* how often its names and values are cut

VARIABLES hm,           \* the request and its parser: see NewH2
          hcuts         \* the cuts made so far

h2Vars == <<hm, hcuts>>

(***************************************************************************)
(* The known names: <<name, parser of the value, identifier>>.             *)
(***************************************************************************)
H2PseudoNames ==
  {<<":authority", "h2_authority", "H2_AUTHORITY">>, <<":method", "MethodV", "H2_METHOD">>,
   <<":scheme", "SchemeV", "H2_SCHEME">>, <<":path", "PathV", "H2_PATH">>}
H2NamesA_H ==
  {<<"accept", "h2_accept", "RAW">>, <<"authorization", "h2_authorization", "RAW">>,
   <<"cache-control", "h2_cache_control", "RAW">>, <<"connection", "drop", "">>,
   <<"content-type", "h2_content_type", "CONTENT_TYPE">>,
   <<"content-length", "h2_content_length", "CONTENT_LENGTH">>,
   <<"cookie", "h2_cookie", "COOKIE">>, <<"host", "h2_authority", "HOST">>}
H2NamesI_U ==
  {<<"if-modified-since", "h2_if_msince", "RAW">>, <<"if-none-match", "h2_etag", "IF_NONE_MATCH">>,
   <<"keep-alive", "drop", "">>, <<"pragma", "h2_pragma", "RAW">>,
   <<"transfer-encoding", "drop", "">>, <<"referer", "h2_referer", "REFERER">>,
   <<"user-agent", "h2_user_agent", "USER_AGENT">>}
H2NamesX ==
  {<<"x-forwarded-for", "h2_x_forwarded_for", "X_FORWARDED_FOR">>,
   <<"x-http-method-override", "h2_m_override", "RAW">>, <<"x-http-method", "h2_m_override", "RAW">>,
   <<"x-method-override", "h2_m_override", "RAW">>}
H2Names == H2PseudoNames \cup H2NamesA_H \cup H2NamesI_U \cup H2NamesX
H2Other == <<"", "OtherV", "RAW">>

(* What the comparison of the whole name looks for. *)
FastText(r) == IF r[1] = "connection" THEN "connectin" ELSE r[1]
FastNeeds(r) == CASE r[1] = "content-type" -> 14
                  [] r[1] = "x-http-method" -> 22
                  [] OTHER -> Len(FastText(r))

(***************************************************************************)
(* The request.  sent: the headers begun; stage: "idle" between headers,   *)
(* "name" or "value" in one; t, lo, hi, p, fin: the text at hand, its      *)
(* fragment, the cursor and whether it is the last; st, pre, row: the      *)
(* state, the characters matched so far, the header found; hdr: the text   *)
(* stored; heads: the closed headers; full: TFW_HTTP_B_H2_HDRS_FULL; body: *)
(* the body's length; rd: parser->to_read.                                 *)
(***************************************************************************)
NewH2 ==
  [sent |-> <<>>, stage |-> "idle", t |-> "", lo |-> 1, hi |-> 0, p |-> 1, fin |-> FALSE, st |-> "",
   pre |-> "", row |-> H2Other, hdr |-> "", heads |-> <<>>, full |-> FALSE, method |-> "", open |-> FALSE,
   z |-> Fresh("h2_authority", "", {"CLNT"}), frames |-> <<>>, rd |-> -1, body |-> 0, res |-> ""]

__FSM_H2_DROP(m) == [m EXCEPT !.res = "DROP"]
__FSM_H2_POSTPONE(m, st) == [m EXCEPT !.st = st, !.res = "POSTPONE"]
Stored(m) == [m EXCEPT !.hdr = @ \o SubSeq(m.t, m.lo, m.hi)]
__FSM_H2_OK(m, row) == [m EXCEPT !.row = row, !.st = row[2], !.res = "OK"]
__FSM_H2_HDR_COMPLETE(m) == [m EXCEPT !.res = "OK"]

(* The name ends here if nothing follows. *)
__FSM_H2_FIN(m, row, n) ==
  LET y == [m EXCEPT !.p = @ + n]
  IN  IF y.p <= m.hi THEN Jmp(y, "OtherN")
      ELSE IF ~m.fin THEN __FSM_H2_POSTPONE(Stored(y), "OtherN")
      ELSE __FSM_H2_OK(Stored(y), row)

__FSM_H2_NEXT_n(m, st, n) ==
  LET y == [m EXCEPT !.p = @ + n]
  IN  IF y.p <= m.hi THEN Jmp(y, st)
      ELSE IF ~m.fin THEN __FSM_H2_POSTPONE(Stored(y), st)
      ELSE __FSM_H2_OK(Stored(y), H2Other)

-----------------------------------------------------------------------------
(* RGen_Hdr: four characters choose the names that are compared. *)
H2RGen_Hdr(m) ==
  LET cand == {r \in H2Names : Starts(r[1], Ahead(m, 4))}
      need == Max({FastNeeds(r) : r \in cand})
      hit == {r \in cand : Ahead(m, Len(FastText(r))) = FastText(r)}
      r1 == CHOOSE r \in hit : \A q \in hit : Len(q[1]) <= Len(r[1])
  IN  CASE ~__data_available(m, 4) -> Jmp(m, "Name")
        [] __data_available(m, 4) /\ cand = {} -> Jmp(m, "OtherN")
        [] __data_available(m, 4) /\ cand # {} ->
             IF ~__data_available(m, need) THEN __FSM_H2_NEXT_n([m EXCEPT !.pre = Ahead(m, 4)], "Name", 4)
             ELSE IF hit # {} THEN IF r1[2] = "drop" THEN __FSM_H2_DROP(m)
                                   ELSE __FSM_H2_FIN(m, r1, Len(r1[1]))
             ELSE IF C(m) = ":" THEN __FSM_H2_DROP(m)
             ELSE __FSM_H2_NEXT_n(m, "OtherN", 4)

(* Req_Hdr and the tree of names; "x-http-method" may go on. *)
H2Name(m) ==
  LET s == m.pre \o C(m)
      full == {r \in H2Names : r[1] = s}
      r1 == CHOOSE r \in full : TRUE
      y == [m EXCEPT !.pre = s]
      ends == m.p = m.hi /\ ~m.fin
  IN  IF full # {} THEN
        IF r1[2] = "drop" THEN __FSM_H2_DROP(m)
        ELSE IF s = "x-http-method" /\ ends THEN __FSM_H2_POSTPONE(Stored(y), "Name")
        ELSE __FSM_H2_FIN(y, r1, 1)
      ELSE IF \E r \in H2Names : Starts(r[1], s) THEN __FSM_H2_NEXT_n(y, "Name", 1)
      ELSE IF m.pre = "" THEN __FSM_H2_NEXT_n(m, "OtherN", 1)
      ELSE IF Starts(s, ":") THEN __FSM_H2_DROP(m)
      ELSE Jmp(m, "OtherN")

H2OtherN(m) ==
  IF MatchLen(m, token) # m.hi - m.p + 1 THEN __FSM_H2_DROP(m)
  ELSE IF ~m.fin THEN __FSM_H2_POSTPONE(Stored(m), "OtherN")
  ELSE __FSM_H2_OK(Stored(m), H2Other)

-----------------------------------------------------------------------------
H2Held(m, id) == \E k \in 1..Len(m.heads) : m.heads[k][1] = id
H2Singular == (Singular \ {"COOKIE", "SET_COOKIE"}) \cup {r[3] : r \in H2PseudoNames}
Complete(m) == \A id \in {"H2_METHOD", "H2_SCHEME", "H2_PATH"} : H2Held(m, id)

VerifyUnordered(m, id) == [ok |-> ~(id \in H2Singular /\ H2Held(m, id)), full |-> m.full]

(* H2_MSG_VERIFY: headers that come once, and pseudo-headers first. *)
H2_MSG_VERIFY(m, id) ==
  LET regular == ~m.full /\ id \notin {r[3] : r \in H2PseudoNames}
  IN  [ok |-> /\ ~(id \in H2Singular /\ H2Held(m, id))
              /\ ~(m.full /\ id = "H2_AUTHORITY")
              /\ regular => Complete(m),
       full |-> m.full \/ (regular /\ Complete(m))]

MethodEnds(m, st, n, method) ==
  LET y == [m EXCEPT !.p = @ + n]
  IN  IF y.p <= m.hi THEN Jmp(y, st)
      ELSE IF ~m.fin THEN __FSM_H2_POSTPONE(Stored(y), st)
      ELSE __FSM_H2_HDR_COMPLETE([Stored(y) EXCEPT !.method = method,
                                    !.z.fl = IF method = "POST" THEN @ \cup {method} ELSE @])
__FSM_H2_METHOD_MOVE(m, s) == MethodEnds([m EXCEPT !.pre = s], "MethodStep", 1, "UNKNOWN")
__FSM_H2_METHOD_COMPLETE(m, n, method) == MethodEnds(m, "MethodUnknown", n, method)

(* Req_HdrPsMethodV, Req_RareMethods: methods compared as a whole. *)
MethodV(m) ==
  LET hit == {n \in ReqMethods : /\ __data_available(m, Len(n)) /\ Ahead(m, Len(n)) = n
                                 /\ Starts(n, "PROP") => __data_available(m, 8)}
      r == CHOOSE n \in hit : TRUE
  IN  IF hit # {} THEN __FSM_H2_METHOD_COMPLETE(m, Len(r), r)
      ELSE IF ~__data_available(m, 8) THEN Jmp([m EXCEPT !.pre = ""], "MethodStep")
      ELSE IF Ahead(m, 4) = "PROP" THEN Jmp([m EXCEPT !.p = @ + 4], "MethodUnknown")
      ELSE Jmp(m, "MethodUnknown")

(* Req_Method_1CharStep and the tree of methods. *)
MethodStep(m) ==
  LET s == m.pre \o C(m)
  IN  IF s \in ReqMethods THEN __FSM_H2_METHOD_COMPLETE(m, 1, s)
      ELSE IF \E n \in ReqMethods : Starts(n, s) THEN __FSM_H2_METHOD_MOVE(m, s)
      ELSE Jmp(m, "MethodUnknown")

MethodUnknown(m) ==
  IF MatchLen(m, token) # m.hi - m.p + 1 THEN __FSM_H2_DROP(m)
  ELSE IF ~m.fin THEN __FSM_H2_POSTPONE(Stored(m), "MethodUnknown")
  ELSE __FSM_H2_HDR_COMPLETE([Stored(m) EXCEPT !.method = "UNKNOWN"])

(* Req_HdrPsSchemeV and Req_Scheme*. *)
SchemeV(m) ==
  LET s == (IF m.st = "SchemeV" THEN "" ELSE m.pre) \o TFW_LC(C(m))
      fast == m.st = "SchemeV" /\ __data_available(m, 5) /\ LcText(Ahead(m, 5)) = "https"
      y == [m EXCEPT !.p = @ + (IF fast THEN 5 ELSE 1), !.pre = s]
  IN  IF fast \/ s = "https"
      THEN IF y.p <= m.hi \/ ~m.fin THEN __FSM_H2_DROP(m) ELSE __FSM_H2_HDR_COMPLETE(Stored(y))
      ELSE IF ~Starts("https", s) THEN __FSM_H2_DROP(m)
      ELSE IF y.p <= m.hi THEN Jmp(y, "SchemeStep")
      ELSE IF m.fin THEN __FSM_H2_DROP(m) ELSE __FSM_H2_POSTPONE(Stored(y), "SchemeStep")

(* Req_HdrPsPathV, and Req_Mark with no limit of misses. *)
PathV(m) ==
  IF C(m) = "/" THEN
    LET y == [m EXCEPT !.p = @ + 1, !.hdr = @ \o "/"]
    IN  IF y.p <= m.hi THEN Jmp(y, "Path")
        ELSE IF m.fin THEN __FSM_H2_HDR_COMPLETE(y) ELSE __FSM_H2_POSTPONE(y, "Path")
  ELSE IF C(m) = "*" /\ m.p = m.hi /\ m.fin /\ m.method \in {"", "OPTIONS"}
       THEN __FSM_H2_HDR_COMPLETE(Stored(m))
  ELSE __FSM_H2_DROP(m)

Path(m) ==
  LET y == [m EXCEPT !.hdr = @ \o SubSeq(m.t, m.p, m.hi)]
  IN  IF MatchLen(m, uri) # m.hi - m.p + 1 THEN __FSM_H2_DROP(m)
      ELSE IF m.fin THEN __FSM_H2_HDR_COMPLETE(y) ELSE __FSM_H2_POSTPONE(y, "Path")

H2OtherV(m) ==
  IF MatchLen(m, ctext_vchar) # m.hi - m.p + 1 THEN __FSM_H2_DROP(m)
  ELSE IF m.fin THEN __FSM_H2_HDR_COMPLETE(Stored(m)) ELSE __FSM_H2_POSTPONE(Stored(m), "OtherV")

ValueDone(m, old, r) ==
  LET fresh == SubSeq(r.hdr, Len(old.hdr) + 1, Len(r.hdr))
      y == [m EXCEPT !.z = r, !.hdr = FoldLeft(LAMBDA s, h : s \o SubSeq(m.t, h[1], h[2]), @, fresh)]
  IN  CASE r.res = "EQ" -> __FSM_H2_HDR_COMPLETE([y EXCEPT !.open = FALSE])
        [] r.res = "POSTPONE" -> __FSM_H2_POSTPONE([y EXCEPT !.open = TRUE], m.st)
        [] OTHER -> __FSM_H2_DROP(m)
TFW_H2_PARSE_HDR_VAL(m) ==
  LET feed(old) == ValueDone(m, old, Feed(old, m.hi))
  IN  feed(IF m.open THEN m.z ELSE [NextValue(m.z, m.t) EXCEPT !.f = m.row[2]])

H2Step(m) ==
  CASE m.st = "Hdr" -> H2RGen_Hdr(m)
    [] m.st = "Name" -> H2Name(m)
    [] m.st = "OtherN" -> H2OtherN(m)
    [] m.st = "MethodV" -> MethodV(m)
    [] m.st = "MethodStep" -> MethodStep(m)
    [] m.st = "MethodUnknown" -> MethodUnknown(m)
    [] m.st \in {"SchemeV", "SchemeStep"} -> SchemeV(m)
    [] m.st = "PathV" -> PathV(m)
    [] m.st = "Path" -> Path(m)
    [] m.st = "OtherV" -> H2OtherV(m)
    [] OTHER -> TFW_H2_PARSE_HDR_VAL(m)

RECURSIVE ParseH2(_)
ParseH2(m) == IF m.res # "" THEN m ELSE ParseH2(H2Step(m))

(* tfw_h2_parse_req_hdr(): a fragment of a name or of a value.  The states
   that begin a value verify the identifier of the header. *)
tfw_h2_parse_req_hdr(m, hi) ==
  LET b == [m EXCEPT !.hi = hi, !.p = m.lo, !.fin = hi = Len(m.t), !.res = ""]
      v == H2_MSG_VERIFY(b, m.row[3])
      first == m.stage = "value" /\ (m.lo = 1 \/ m.st = m.row[2])
      r == IF first /\ ~v.ok THEN __FSM_H2_DROP(b)
           ELSE ParseH2(IF first THEN [b EXCEPT !.full = v.full] ELSE b)
  IN  [r EXCEPT !.lo = hi + 1]

(* hpack.c, http_msg.c: the name is complete and its value follows; or the
   header is closed. *)
Advance(m) ==
  LET h == m.sent[Len(m.sent)]
  IN  IF m.res # "OK" THEN m
      ELSE IF m.stage = "name" THEN [m EXCEPT !.stage = "value", !.t = h[2], !.lo = 1, !.res = ""]
      ELSE [m EXCEPT !.stage = "idle", !.heads = Append(@, <<m.row[3], m.hdr>>), !.hdr = "", !.res = ""]

(* tfw_h2_parse_body(): a piece of a DATA frame with k characters left. *)
tfw_h2_parse_body(m, k) ==
  LET rd == IF m.rd = -1 THEN m.frames[Len(m.frames)] ELSE m.rd
  IN  [m EXCEPT !.body = @ + k, !.rd = IF rd = k THEN -1 ELSE rd - k]

(* tfw_h2_parse_req_finish(). *)
H2Length(m) == IF "content_length" \in DOMAIN m.z.num THEN m.z.num["content_length"] ELSE 0
tfw_h2_parse_req_finish(m) ==
  IF \/ ~m.full /\ ~Complete(m)
     \/ H2Length(m) # 0 /\ H2Length(m) # m.body
  THEN __FSM_H2_DROP(m) ELSE [m EXCEPT !.res = "PASS"]

(***************************************************************************)
(* The specification: a request whose headers are chosen one by one.       *)
(***************************************************************************)
H2Init == hm = NewH2 /\ hcuts = 0

Begins(h) ==
  /\ hm.stage = "idle" /\ hm.res = "" /\ hm.frames = <<>> /\ Len(hm.sent) < H2MaxHeaders
  /\ hm' = [hm EXCEPT !.sent = Append(@, h), !.stage = "name", !.t = h[1], !.lo = 1, !.st = "Hdr",
                      !.pre = "", !.open = FALSE]
  /\ UNCHANGED hcuts
H2Literal == \E h \in H2Headers \cup {<<":method", v>> : v \in H2Methods} : Begins(h)

(* __FSM_H2_REQ_NEXT_STATE: the name is one of HPACK's tables. *)
H2Indexed ==
  /\ hm.stage = "idle" /\ hm.res = "" /\ hm.frames = <<>> /\ Len(hm.sent) < H2MaxHeaders
  /\ \E h \in H2Headers, r \in H2Names :
       /\ h[1] = r[1] /\ r[2] \notin {"drop", "h2_m_override"}
       /\ hm' = [hm EXCEPT !.sent = Append(@, h), !.stage = "value", !.t = h[2], !.lo = 1, !.st = r[2],
                           !.row = r, !.hdr = h[1], !.pre = "", !.open = FALSE]
  /\ UNCHANGED hcuts

(* tfw_hpack_hdr_set(): name and value are one entry of HPACK's tables; the
   header is closed without a look at the value or at what came before. *)
tfw_hpack_hdr_set(m, h, r) ==
  IF \/ r[3] \in H2Singular /\ H2Held(m, r[3])
     \/ r[3] = "H2_METHOD" /\ h[2] \notin {"GET", "POST"}
  THEN __FSM_H2_DROP(m)
  ELSE [m EXCEPT !.heads = Append(@, <<r[3], h[1] \o h[2]>>),
                 !.method = IF r[3] = "H2_METHOD" THEN h[2] ELSE @,
                 !.z.fl = IF r[3] = "H2_METHOD" /\ h[2] = "POST" THEN @ \cup {"POST"} ELSE @]
H2AllIndexed ==
  /\ hm.stage = "idle" /\ hm.res = "" /\ hm.frames = <<>> /\ Len(hm.sent) < H2MaxHeaders
  /\ \E h \in H2Whole :
       LET rows == {r \in H2Names : r[1] = h[1] /\ r[2] # "h2_m_override"}
           row == IF rows = {} THEN H2Other ELSE CHOOSE r \in rows : TRUE
       IN  hm' = tfw_hpack_hdr_set([hm EXCEPT !.sent = Append(@, h)], h, row)
  /\ UNCHANGED hcuts

H2Fragment ==
  /\ hm.stage # "idle" /\ hm.res \in {"", "POSTPONE"}
  /\ \E hi \in hm.lo..Len(hm.t) :
       /\ hcuts' = IF hi < Len(hm.t) THEN hcuts + 1 ELSE hcuts
       /\ hcuts' <= H2Cuts
       /\ hm' = Advance(tfw_h2_parse_req_hdr(hm, hi))

H2Data ==
  /\ hm.stage = "idle" /\ hm.res = "" /\ hm.sent # <<>>
  /\ \/ /\ hm.rd = -1 /\ Len(hm.frames) < 2
        /\ \E n \in H2Bodies, k \in 1..Max(H2Bodies) :
             k <= n /\ hm' = tfw_h2_parse_body([hm EXCEPT !.frames = Append(@, n)], k)
     \/ hm.rd # -1 /\ \E k \in 1..hm.rd : hm' = tfw_h2_parse_body(hm, k)
  /\ UNCHANGED hcuts

H2End ==
  /\ hm.stage = "idle" /\ hm.res = "" /\ hm.rd = -1 /\ hm.sent # <<>>
  /\ hm' = tfw_h2_parse_req_finish(hm)
  /\ UNCHANGED hcuts

H2Next == H2Literal \/ H2Indexed \/ H2AllIndexed \/ H2Fragment \/ H2Data \/ H2End
-----------------------------------------------------------------------------
(* What RFC 7540 8.1.2 asks of the headers of a request, in the order they
   came. *)
SentAs(k) == LET f == {r \in H2Names : r[1] = hm.sent[k][1]}
             IN  IF f = {} THEN H2Other ELSE CHOOSE r \in f : TRUE
InOrder(K) ==
  /\ \A j, k \in 1..K : j # k /\ SentAs(j)[3] \in H2Singular => SentAs(j)[3] # SentAs(k)[3]
  /\ \A j, k \in 1..K : j < k /\ SentAs(k) \in H2PseudoNames => SentAs(j) \in H2PseudoNames
  /\ \A j \in 1..K : SentAs(j)[2] # "drop"
  /\ (\E j \in 1..K : SentAs(j) \notin H2PseudoNames) =>
       \A n \in {":method", ":scheme", ":path"} : \E j \in 1..K : hm.sent[j][1] = n

(* A request is accepted exactly if its pseudo-headers are there, once and
   before the others, no header belongs to the connection, none that must be
   single is repeated, and the body has the length announced; every header
   is then kept under its identifier with its whole text and the method is
   the one sent, wherever the names, values and frames are cut
   (tfw_h2_parse_req_hdr(), tfw_h2_parse_req_finish()). *)
H2RequestIsRead ==
  LET n == Len(hm.sent)
      read(k) == <<SentAs(k)[3], hm.sent[k][1] \o hm.sent[k][2]>>
      announced == {hm.sent[k][2] : k \in {j \in 1..n : SentAs(j)[3] = "CONTENT_LENGTH"}}
      total == FoldLeft(LAMBDA a, b : a + b, 0, hm.frames)
      whole == \A nm \in {":method", ":scheme", ":path"} : \E j \in 1..n : hm.sent[j][1] = nm
      good == InOrder(n) /\ whole /\ announced \subseteq {ToString(total)}
  IN  /\ (hm.stage = "idle" /\ hm.res = "" /\ n > 0) => InOrder(n)
      /\ hm.res = "PASS" =>
           /\ good /\ hm.heads = [k \in 1..n |-> read(k)]
           /\ \E k \in 1..n : hm.sent[k][1] = ":method" /\
                hm.method = IF hm.sent[k][2] \in ReqMethods THEN hm.sent[k][2] ELSE "UNKNOWN"
      /\ hm.res = "DROP" => ~good
=============================================================================

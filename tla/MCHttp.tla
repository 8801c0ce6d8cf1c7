------------------------------- MODULE MCHttp -------------------------------
(***************************************************************************)
(* The messages of HTTP and what is measured of them.  Header values for   *)
(* HttpValue come first: the HTTP/1 texts are all strings of a few pieces, *)
(* well formed or not; the HTTP/2 texts are well-formed lists.             *)
(***************************************************************************)
EXTENDS HttpH2Msg, MCMonitor

RECURSIVE Concat(_, _)
Concat(S, k) == IF k = 0 THEN {""} ELSE {a \o b : a \in S, b \in Concat(S, k - 1)}
Upto(S, k) == UNION {Concat(S, j) : j \in 1..k}
Lists(I, S) == I \cup {a \o s \o b : a \in I, s \in S, b \in I}
Sep == {",", ", ", " ,"}

H1(f, ctx, S) == {[f |-> f, ctx |-> ctx, vals |-> <<s \o "\r">>, want |-> <<>>] : s \in S}
Both(f, ctx, S) == {[f |-> "h2_" \o f, ctx |-> ctx, vals |-> <<s>>, want |-> <<>>] : s \in S}
                   \cup H1(f, ctx, S)

(* Dates: the day before, on and after a leap day, century years, impossible
   days. *)
Two0(n) == SubSeq(ToString(100 + n), 2, 3)
Dates == {<<1970, 1, 1>>, <<1970, 3, 1>>, <<1999, 12, 31>>, <<2000, 2, 29>>, <<2001, 2, 29>>,
          <<2004, 2, 29>>, <<2004, 3, 1>>, <<2023, 4, 31>>, <<2036, 10, 15>>, <<2069, 7, 4>>}
Mon(m) == SubSeq(Months[m], 2, 4)
RFC822(d) == "Sun, " \o Two0(d[3]) \o " " \o Mon(d[2]) \o " " \o ToString(d[1]) \o " 08:49:37 GMT"
RFC850(d) == "Sunday, " \o Two0(d[3]) \o "-" \o Mon(d[2]) \o "-" \o Two0(d[1] % 100) \o " 08:49:37 GMT"
Asctime(d) == "Sun " \o Mon(d[2]) \o " " \o (IF d[3] < 10 THEN " " \o ToString(d[3])
                                             ELSE Two0(d[3])) \o " 08:49:37 " \o ToString(d[1])
Want(d) == IF d[3] > DaysIn(d[1], d[2]) THEN <<-1, 0>>
           ELSE <<DaysTo(d[1], d[2]) + d[3] - 1, 8 * 3600 + 49 * 60 + 37>>
DateCases(f, D, tail) ==
  UNION {{[f |-> f, ctx |-> {}, vals |-> <<t \o tail>>, want |-> Want(d)] :
            t \in {RFC822(d), RFC850(d), Asctime(d)}} : d \in D}

ContentType == {"multipart/form-data; " \o x : x \in
                  {"boundary=ab", "boundary=\"a b\"", "boundary=\"a\\\"b\";x=y", "x=y;boundary=a",
                   "bound=\"c d\" ; boundary=\"\\\\\"", "boundary=a;boundary=b"}}

ValueCases ==
  H1("connection", {}, Lists({"foo", "bar", "Age"}, Sep))
  \cup H1("content_length", {}, Upto({"1", "25", " ", "x"}, 3))
  \cup H1("content_length", {"BODYLESS"}, {"1"})
  \cup H1("resp_content_type", {}, {"text/html", "a b"})
  \cup H1("content_type", {"POST"}, Upto({"multipart/form-data", ";", " ", "text/html"}, 2)
                                    \cup {"multipart/" \o x : x \in {"form", "form-datax", "x; y=z"}})
  \cup H1("transfer_encoding", {}, Upto({"chunked", ",", "chu", "foo"}, 3))
  \cup H1("resp_transfer_encoding", {}, Upto({"chunked", ",", "chu", "foo"}, 3))
  \cup H1("accept", {}, Upto({"text/html", ",", ";", "q=", "0.5", "*/*"}, 3))
  \cup H1("cache_control", {}, Upto({"max-age=", "max-stale", "2", "24", ",", "no-cache", "foo="}, 2))
  \cup H1("resp_cache_control", {}, Upto({"max-age=", "s-maxage=", "4", ",", "no-cache", "private"}, 2)
             \cup {"max-age=1, max-age=2", "s-maxage=1 ,private=x,must-revalidate,no-store=\"a\""})
  \cup H1("set_cookie", {}, Upto({"a=", "b", "; ", " "}, 3))
  \cup H1("etag", {}, {"\"a\"", "W/\"a\"", "\"a\",\"b\"", "*"})
  \cup H1("host", {}, Upto({"[", "]", "a", ":", "25"}, 3) \cup {"[::1]:80", "a.b:0", "a:256", "a:24 "})
  \cup H1("keep_alive", {}, Upto({"timeout=", "25", "=", ",", "max"}, 3))
  \cup H1("age", {}, Upto({"2", "25", " "}, 2))
  \cup H1("server", {}, {"a/1 (b)"})
  \cup {[f |-> "uri_mark", ctx |-> {}, vals |-> <<t>>, want |-> <<>>] :
          t \in {"/__tfw=abc ", "/__tfw=abcd ", "/__tx ", "/a "}}
  \cup Both("accept", {}, Lists({"text/html", "*/*", "text/*;q=0.5", "a/b;x=\"y z\""}, Sep))
  \cup Both("authorization", {}, {"Basic abc=="})
  \cup Both("content_length", {}, {"0", "25", "1x", "2525"})
  \cup Both("content_type", {"POST"}, ContentType \cup {"multipart/form-data"})
  \cup Both("cookie", {}, Lists({"a=b", "c=", "=", "a b"}, {"; ", ";"}))
  \cup Both("etag", {"CLNT"}, Lists({"\"a\"", "W/\"b\"", "*", "\"\""}, Sep))
  \cup Both("referer", {}, {"http://a/b?c", "a ", "a b"})
  \cup Both("pragma", {}, Lists({"no-cache", "foo", "no-cached"}, Sep))
  \cup Both("user_agent", {}, {"curl/1 (x)"})
  \cup Both("x_forwarded_for", {}, Lists({"a", "[::1]:80", "1.2"}, Sep) \cup {"a b", ","})
  \cup Both("m_override", {}, {"PUT", "PROPPATCH", "TRACE", "UNLOCK"})
  \cup Both("cache_control", {}, Lists({"no-cache", "only-if-cached", "max-stale", "no-cachex"}, Sep))
  \cup {[f |-> "h2_authority", ctx |-> {}, vals |-> <<t>>, want |-> <<>>] :
          t \in {"a", "a.b:80", "a:0", "a:", "a:256"}}
  \cup {[f |-> "h2_mark", ctx |-> {}, vals |-> <<t>>, want |-> <<>>] :
          t \in {"/__tfw=abc", "/__tfw=abcd", "/__tx", "/a", "/__tf", "/__tfw=a"}}
  \cup DateCases("expires", Dates, "\r") \cup DateCases("date", {<<2000, 2, 29>>}, "\r")
  \cup DateCases("if_msince", {<<2004, 3, 1>>}, "\r")
  \cup DateCases("last_modified", {<<1999, 12, 31>>}, "\r")
  \cup DateCases("h2_if_msince", {<<2004, 2, 29>>}, " ")
  \cup {[f |-> f, ctx |-> {}, want |-> Want(<<2004, 3, 1>>),
         vals |-> <<RFC822(<<2004, 3, 1>>) \o "\r", RFC850(<<1999, 12, 31>>) \o "\r">>] :
          f \in {"date", "last_modified", "if_msince"}}

(***************************************************************************)
(* Messages for HttpMsgParse: a first line, headers <<identifier, text>>,  *)
(* a body, trailers, and what follows on the connection.                   *)
(***************************************************************************)
ChunkedBody == "2\r\nab\r\n0a;x=y\r\n0123456789\r\n0\r\n"
Chunked == <<"TRANSFER_ENCODING", "transfer-Encoding: chunked">>
Lines(hs, eol) == FoldLeft(LAMBDA s, h : s \o h[2] \o eol, "", hs)
Req(method, first, host, path, eol, hs, body, trail, hbh) ==
  LET head == first \o eol \o Lines(hs, eol) \o eol
      all == head \o body \o (IF trail = <<>> THEN "" ELSE Lines(Tail(trail), eol) \o eol)
  IN  [who |-> "Req_0", ctx |-> {}, t |-> all \o "GET",
       want |-> [res |-> "PASS", p |-> Len(all) + 1, method |-> method, status |-> 0, host |-> host,
                 path |-> path, heads |-> hs \o (IF trail = <<>> THEN <<>> ELSE Tail(trail)),
                 body |-> body, hbh |-> hbh]]
Resp(ctx, first, status, hs, body, trail, hbh) ==
  LET r == Req("", first, "", "", "\r\n", hs, body, trail, hbh)
      heads == <<<<"STATUS_LINE", first>>>> \o r.want.heads
      open == \A k \in 1..Len(hs) : hs[k][1] # "CONTENT_LENGTH" /\ hs[k] # Chunked
      unlim == open /\ ctx = {} /\ status \notin {204, 304}
  IN  [r EXCEPT !.who = "Resp_0", !.ctx = ctx,
                !.t = IF unlim THEN SubSeq(@, 1, Len(@) - 3) ELSE @,
                !.want = [@ EXCEPT !.status = status, !.heads = heads]]
Refused(who, t) == [who |-> who, ctx |-> {}, t |-> t, want |-> [res |-> "BLOCK"]]

Get(hs, hbh) == Req("GET", "GET / HTTP/1.1", "", "/", "\r\n", hs, "", <<>>, hbh)
Post(hs, body, trail, hbh) == Req("POST", "POST / HTTP/1.1", "", "/", "\r\n", hs, body, trail, hbh)
SomeDate == RFC822(<<2004, 3, 1>>)

ReqHeads ==
  {<<"RAW", "authorization: Basic a">>,
   <<"RAW", "cache-control: no-cache">>, <<"CONNECTION", "Connection: foo">>,
   <<"CONTENT_LENGTH", "Content-length: 0">>, <<"COOKIE", "Cookie: a=b">>, <<"HOST", "host: a">>,
   <<"RAW", "If-Modified-Since: " \o SomeDate>>, <<"IF_NONE_MATCH", "If-None-Match: \"a\"">>,
   <<"KEEP_ALIVE", "Keep-Alive: timeout=5">>, <<"RAW", "pragma: no-cache">>,
   <<"REFERER", "Referer: http://a/">>, <<"X_FORWARDED_FOR", "X-Forwarded-For: a">>,
   <<"RAW", "X-Method-Override: PUT">>, <<"RAW", "X-HTTP-Method: PUT">>,
   <<"RAW", "X-HTTP-Method-Override: PUT">>, <<"USER_AGENT", "User-Agent: curl (x)">>}
RespHeads ==
  {<<"RAW", n \o ": a b">> : n \in
     {"Access-Control-Allow-Origin", "accept-Ranges", "Allow", "link", "Location", "Proxy-Authenticate",
      "Retry-After", "strict-transport-security", "Vary", "Via", "WWW-Authenticate",
      "Content-Disposition", "content-encoding", "Content-Language", "Content-Location",
      "Content-Range"}}
  \cup {<<"RAW", "Age: 5">>, <<"RAW", "Cache-Control: private">>, <<"RAW", "Date: " \o SomeDate>>,
        <<"CONTENT_TYPE", "Content-Type: text/html">>, <<"ETAG", "ETag: \"a\"">>,
        <<"RAW", "Expires: " \o SomeDate>>, <<"KEEP_ALIVE", "Keep-Alive: timeout=5">>,
        <<"RAW", "Last-Modified: " \o SomeDate>>, <<"RAW", "Pragma: no-cache">>,
        <<"SERVER", "Server: a/1">>, <<"SET_COOKIE", "Set-Cookie: a=b; path=/">>}
(* Unknown names that share their start with a known one. *)
NearNames == {"Hosts", "Accept-Charset", "Agent", "Caches", "cache-ctrl", "Content-Foo", "Cookies",
              "If-Match", "x-forwarded-foo", "X-Http-Methods", "Useragent", "Z"}

RequestCases ==
  {Get(<<<<"HOST", "Host: a.b:80">>, <<"CONNECTION", "connection: Foo, keep-alive">>, <<"RAW", "foo: 1">>,
         <<"KEEP_ALIVE", "Keep-Alive: timeout=5">>>>, {"CONNECTION", "foo", "KEEP_ALIVE"}),
   Get(<<<<"RAW", "foo: 1">>, <<"RAW", "bar:  x y">>, <<"RAW", "FOO: 2">>,
         <<"CONNECTION", "Connection: foo,baz">>, <<"RAW", "baz:1">>>>, {"CONNECTION", "foo", "baz"}),
   Get(<<<<"X_FORWARDED_FOR", "X-Forwarded-For: a">>, <<"X_FORWARDED_FOR", "x-forwarded-for: b">>>>, {}),
   Req("GET", "GET /a?b=c HTTP/1.0", "", "/a?b=c", "\n", <<<<"HOST", "Host: a">>, <<"RAW", "zz: y">>>>,
       "", <<>>, {}),
   Req("GET", "GET http://u@a.b:80/x HTTP/1.1", "a.b:80", "/x", "\r\n", <<>>, "", <<>>, {}),
   Req("GET", "GET HTTP://[::1]:80 HTTP/1.1", "[::1]:80", "", "\r\n", <<>>, "", <<>>, {}),
   Post(<<<<"CONTENT_LENGTH", "Content-Length: 3">>, <<"CONTENT_TYPE", "Content-Type: text/html">>>>,
        "a\r\n", <<>>, {}),
   Post(<<<<"CONNECTION", "Connection: x-t">>, Chunked>>, ChunkedBody, <<"", <<"RAW", "X-T: 1">>>>,
        {"CONNECTION", "x-t"}),
   Post(<<Chunked>>, "0\n", <<"">>, {})}
  \cup {Req(mt, mt \o " / HTTP/1.1", "", "/", "\r\n", <<>>, "", <<>>, {}) : mt \in ReqMethods}
  \cup {Req("UNKNOWN", u \o " / HTTP/1.1", "", "/", "\r\n", <<>>, "", <<>>, {}) : u \in {"FOO", "BREW"}}
  \cup {Get(<<h>>, IF h[1] = "CONNECTION" THEN {"CONNECTION"} ELSE {}) : h \in ReqHeads}
  \cup {Get(<<<<"RAW", n \o ": a b">>>>, {}) : n \in NearNames}

ResponseCases ==
  LET ok == "HTTP/1.1 200 OK"
      len == <<"CONTENT_LENGTH", "Content-Length: 2">>
  IN  {Resp({}, ok, 200, <<len, <<"SERVER", "Server: a">>>>, "ab", <<>>, {"SERVER"}),
       Resp({"HEAD"}, ok, 200, <<len>>, "", <<>>, {}),
       Resp({}, "HTTP/1.0 304 Not Modified", 304, <<len>>, "", <<>>, {}),
       Resp({}, "HTTP/1.1 204 ", 204, <<>>, "", <<>>, {}),
       Resp({}, ok, 200, <<Chunked, <<"CONNECTION", "Connection: x-t">>>>, ChunkedBody,
            <<"", <<"RAW", "X-T: 1">>>>, {"CONNECTION", "x-t"}),
       Resp({}, ok, 200, <<<<"TRANSFER_ENCODING", "Transfer-Encoding: foo">>>>, "ab", <<>>, {}),
       Resp({}, ok, 200, <<>>, "a\r\nb", <<>>, {})}
      \cup {Resp({"HEAD"}, ok, 200, <<h>>, "", <<>>, IF h[1] = "SERVER" THEN {"SERVER"} ELSE {}) :
              h \in RespHeads}

RefusedCases ==
  {Refused("Req_0", t) : t \in
     {"GET  / HTTP/1.1\r\n", "GET / HTTP/1.2\r\n", "GET a / HTTP/1.1\r\n", "GET http:/a HTTP/1.1\r\n",
      "GET http://u@v@w/ HTTP/1.1\r\n", "GET / HTTP/1.1\r\n: x\r\n", "GET / HTTP/1.1\r\nHo st: x\r\n",
      "GET / HTTP/1.1\r\nHost: a\r\nHost: b\r\n", "GET / HTTP/1.1\r\nHost: a\rX: b\r\n"}}
  \cup {Refused("Req_0", "POST / HTTP/1.1\r\n" \o t \o "\r\n\r\n") : t \in
     {"Content-Length: 1\r\nTransfer-Encoding: chunked", "Transfer-Encoding: foo", "Content-Length: 1x",
      "Content-Length: 1\r\nContent-Length: 1", "Connection: host",
      "Transfer-Encoding: chunked\r\n\r\ng", "Transfer-Encoding: chunked\r\n\r\n00001",
      "Transfer-Encoding: chunked\r\n\r\n1\r\nab"}}
  \cup {Refused("Resp_0", "HTTP/1.1 " \o t) : t \in
     {"204 x\r\nContent-Length: 1\r\n", "2x0 OK\r\n", "200 OK\r\nContent-Length: 1\r\n\r\n"}}

(* Names that are the start of a known one; an Accept header; a header part
   that ends in a single line feed. *)
MsgCasesMC == RequestCases \cup ResponseCases \cup RefusedCases

(***************************************************************************)
(* Headers for HttpH2Msg: the pseudo-headers and the ones that come once,  *)
(* and then every other known name, some unknown ones and the forbidden.   *)
(***************************************************************************)
H2Core == {<<":scheme", "https">>, <<":path", "/a">>, <<":authority", "a.b:80">>, <<"cookie", "a=b">>,
           <<"content-length", "2">>, <<"xy", "z">>}
H2More ==
  {<<"accept", "text/html">>, <<"authorization", "Basic a">>, <<"cache-control", "no-cache">>,
   <<"content-type", "multipart/form-data">>, <<"host", "a">>, <<"if-none-match", "*">>,
   <<"keep-alive", "5">>, <<"pragma", "no-cache">>, <<"transfer-encoding", "chunked">>,
   <<"referer", "http://a/">>, <<"user-agent", "curl (x)">>, <<"x-forwarded-for", "a">>,
   <<"x-http-method-override", "PUT">>, <<"x-http-method", "PUT">>, <<"x-method-override", "PUT">>,
   <<"hosts", "a b">>, <<"conn", "x">>, <<"content-foo", "x">>, <<"x-forwarded", "x">>, <<"zzzz", "x">>}
H2All == H2Core \cup H2More
H2Static == {<<":method", "GET">>, <<":method", "POST">>, <<":scheme", "https">>, <<":path", "/a">>}
H2AllMethods == (ReqMethods \ {"PROPPATCH"}) \cup {"FOO", "PROPX"}

(***************************************************************************)
(* One run for all: hpart says which of them a behaviour is about.  In the *)
(* part "h2" the methods other than GET, and the names outside H2Core, are *)
(* tried in requests that are otherwise plain.                             *)
(***************************************************************************)
VARIABLE hpart
H2Plain ==
  LET k == Len(hm.sent)
      odd == {j \in 1..k : hm.sent[j] \in H2More \/ (hm.sent[j][1] = ":method" /\ hm.sent[j][2] # "GET")}
  IN  odd # {} => /\ \A j \in odd : j = k \/ hm.sent[j][1] = ":method"
                  /\ \A j \in 1..(k - 1) : Starts(hm.sent[j][1], ":") /\ hm.sent[j][1] # ":authority"
                  /\ \A j \in 1..(k - 1) : j < 3 => hm.sent[j][1] = <<":method", ":scheme">>[j]
NoValue ==
  /\ vz = Fresh("host", "", {}) /\ vcuts = 0
  /\ vcase = [vals |-> <<>>, all |-> <<>>, want |-> <<>>, start |-> Fresh("host", "", {})]
NoMessage == mcase = <<>> /\ mm = NewMsg("Resp_0", "", {}) /\ mcuts = 0
NoRequest == hm = NewH2 /\ hcuts = 0
HttpInit == \/ hpart = "value" /\ ValueInit /\ NoMessage /\ NoRequest /\ NoMonitor
            \/ hpart = "msg" /\ MsgInit /\ NoValue /\ NoRequest /\ NoMonitor
            \/ hpart = "h2" /\ H2Init /\ NoValue /\ NoMessage /\ NoMonitor
            \/ hpart = "apm" /\ Ap!ApmInit /\ NoValue /\ NoMessage /\ NoRequest
HttpNext == /\ \/ hpart = "value" /\ ValueNext /\ UNCHANGED <<msgVars, h2Vars, apmVars>>
               \/ hpart = "msg" /\ MsgNext /\ UNCHANGED <<valueVars, h2Vars, apmVars>>
               \/ hpart = "h2" /\ H2Next /\ UNCHANGED <<valueVars, msgVars, apmVars>>
               \/ hpart = "apm" /\ Ap!ApmNext /\ UNCHANGED <<valueVars, msgVars, h2Vars>>
            /\ UNCHANGED hpart

(* See Apm: times, percentiles and health are what was seen.                *)
MonitorRight == hpart = "apm" => Ap!ApmRight

H2Few == {<<":scheme", "https">>, <<":path", "/">>}
H2Dynamic == {<<"content-length", "2">>}
=============================================================================

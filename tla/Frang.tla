------------------------------- MODULE Frang --------------------------------
(***************************************************************************)
(* Frang (http_limits.c): limits on what a client does.                    *)
(*                                                                         *)
(* An account of a client (FrangAcc) counts connections, requests and TLS  *)
(* handshakes in a ring of time slots, FREQ of them to the second; the     *)
(* account is locked, so that a handler is one step.  A request is checked *)
(* by an FSM that goes on with every skb: with the limits of the default   *)
(* virtual host as long as the request is not complete, and with those of  *)
(* its location in the end.  Addresses may be blocked for good (filter.c). *)
(*                                                                         *)
(* A request is what its author wrote (content); an skb takes the parser   *)
(* to one of the places below, and what Frang sees follows from the place. *)
(***************************************************************************)
EXTENDS Integers, Sequences, FiniteSets, TLC, Functions

CONSTANTS
  FREQ,        \* FRANG_FREQ
  FrangEnv,    \* [g, dflt, loc, reqs, events, cuts, last, quota]: limits and what clients may do
  FrangSk,     \* sockets
  StartSlot    \* of the clock

VARIABLES
  fenv, fclock,
  facc,        \* FrangAcc
  fsk,         \* sockets: classified, linked to a connection (sk_user_data) or not
  freq,        \* the request being received
  flog,        \* every event that is counted: [kind, at, n]
  fout,        \* the last verdict
  fblocked     \* the filter has a rule for the address
frangVars == <<fenv, fclock, facc, fsk, freq, flog, fout, fblocked>>

Slots == 0 .. FREQ - 1
NoSlot == [ts |-> 0, conn_new |-> 0, req |-> 0, tls_new |-> 0, tls_inc |-> 0]
NoReq == [st |-> 0, pos |-> 0, chunk_cnt |-> 0, tm_header |-> 0, tm_bchunk |-> 0, skbs |-> 0,
          ref |-> [at |-> 0, prev |-> 0, hend |-> 0, hn |-> 0, bn |-> 0, slow |-> FALSE, over |-> FALSE,
                   maybe |-> FALSE]]
FrangInit ==
  /\ fenv \in FrangEnv /\ fclock = StartSlot
  /\ facc = [conn_curr |-> 0, history |-> [i \in Slots |-> NoSlot], resp |-> [i \in Slots |-> [ts |-> 0, cnt |-> 0]]]
  /\ fsk = [s \in FrangSk |-> "none"] /\ freq = NoReq /\ flog = {}
  /\ fout = [kind |-> "none"] /\ fblocked = FALSE

Exceeds(n, limit) == limit # 0 /\ n > limit
Log(kind) == flog' = flog \cup {[kind |-> kind, at |-> fclock, n |-> Cardinality(flog)]}
MayHappen(kind) == kind \in fenv.events /\ Cardinality(flog) < fenv.quota
(* Whether a limit is exceeded, by the log: how often something happened in  *)
(* this slot, and in the last FREQ slots.                                   *)
InSlot(log, kind) == Cardinality({e \in log : e.kind = kind /\ e.at = fclock})
InSecond(log, kind) == Cardinality({e \in log : e.kind = kind /\ e.at > fclock - FREQ})
Over(log, kind) ==
  LET g == fenv.g
  IN  CASE kind = "conn" -> Exceeds(InSlot(log, "conn"), g.conn_burst) \/ Exceeds(InSecond(log, "conn"), g.conn_rate)
        [] kind = "req" -> Exceeds(InSlot(log, "req"), g.req_burst) \/ Exceeds(InSecond(log, "req"), g.req_rate)
        [] kind = "new" -> Exceeds(InSecond(log, "new"), g.tls_new_rate) \/ Exceeds(InSecond(log, "new"), g.tls_new_burst)
        [] kind = "incomplete" -> Exceeds(InSecond(log, "incomplete"), g.tls_inc_rate)
        [] kind = "resp" -> InSecond(log, "resp") > fenv.loc.codes.limit
        [] OTHER -> FALSE
(* where ip_block is set *)
tfw_filter_block_ip(block) == fblocked' = (fblocked \/ (block /\ fenv.g.ip_block))
Verdict(kind, pass) ==
  /\ fout' = [kind |-> kind, pass |-> pass, over |-> Over(flog', kind)]
  /\ tfw_filter_block_ip(~pass)
(* a packet of the address is looked at *)
tfw_filter_check_ip == ~fblocked
-----------------------------------------------------------------------------
frang_time_in_frame(tcur, tprev) == tprev + FREQ > tcur
SumOver(acc, f(_), in(_)) ==
  FoldFunction(+, 0, [i \in Slots |-> IF in(acc.history[i].ts) THEN f(acc.history[i]) ELSE 0])
Slot == fclock % FREQ
Fresh == IF facc.history[Slot].ts = fclock THEN facc.history[Slot] ELSE [NoSlot EXCEPT !.ts = fclock]

frang_conn_limit ==
  LET acc == [facc EXCEPT !.history[Slot] = [Fresh EXCEPT !.conn_new = @ + 1], !.conn_curr = @ + 1]
      g == fenv.g
      in(ts) == ts + FREQ >= fclock
  IN  [acc |-> acc,
       pass |-> ~\/ Exceeds(acc.conn_curr, g.conn_max)
                 \/ Exceeds(acc.history[Slot].conn_new, g.conn_burst)
                 \/ Exceeds(SumOver(acc, LAMBDA h : h.conn_new, in), g.conn_rate)]

(* Only what requests and connections count is reset in a slot that is used *)
(* again: handshakes of the second before stay.                             *)
FreshReq == IF facc.history[Slot].ts = fclock THEN facc.history[Slot]
            ELSE [facc.history[Slot] EXCEPT !.ts = fclock, !.conn_new = 0, !.req = 0]
(* mutant: a slot is used again as it is *)
ReqLimitStale(req_burst, req_rate) ==
  LET acc == [facc EXCEPT !.history[Slot] = [@ EXCEPT !.ts = fclock, !.req = @ + 1]]
      in(ts) == frang_time_in_frame(fclock, ts)
  IN  IF req_burst = 0 /\ req_rate = 0 THEN [acc |-> facc, pass |-> TRUE]
      ELSE [acc |-> acc,
            pass |-> ~\/ Exceeds(acc.history[Slot].req, req_burst)
                      \/ Exceeds(SumOver(acc, LAMBDA h : h.req, in), req_rate)]
frang_req_limit(req_burst, req_rate) ==
  LET acc == [facc EXCEPT !.history[Slot] = [FreshReq EXCEPT !.req = @ + 1]]
      in(ts) == frang_time_in_frame(fclock, ts)
  IN  IF req_burst = 0 /\ req_rate = 0 THEN [acc |-> facc, pass |-> TRUE]
      ELSE [acc |-> acc,
            pass |-> ~\/ Exceeds(acc.history[Slot].req, req_burst)
                      \/ Exceeds(SumOver(acc, LAMBDA h : h.req, in), req_rate)]

frang_tls_conn_limit(hs) ==
  LET f == IF hs = "resumed" THEN Fresh ELSE IF hs = "new" THEN [Fresh EXCEPT !.tls_new = @ + 1]
           ELSE [Fresh EXCEPT !.tls_inc = @ + 1]
      acc == [facc EXCEPT !.history[Slot] = f]
      in(ts) == ts + FREQ >= fclock
      new == SumOver(acc, LAMBDA h : h.tls_new, in)
      inc == SumOver(acc, LAMBDA h : h.tls_inc, in)
  IN  [acc |-> acc,
       pass |-> CASE hs = "new" -> ~Exceeds(new, fenv.g.tls_new_rate) /\ ~Exceeds(new, fenv.g.tls_new_burst)
                  [] hs = "incomplete" -> ~Exceeds(inc, fenv.g.tls_inc_rate)
                  [] OTHER -> TRUE]

frang_resp_code_limit ==
  LET stat == facc.resp
      acc == [facc EXCEPT !.resp[Slot] = IF stat[Slot].ts # fclock THEN [ts |-> fclock, cnt |-> 1]
                                         ELSE [@ EXCEPT !.cnt = @ + 1]]
      cnt == FoldFunction(+, 0, [i \in Slots |-> IF frang_time_in_frame(fclock, acc.resp[i].ts)
                                                 THEN acc.resp[i].cnt ELSE 0])
  IN  [acc |-> acc, pass |-> cnt <= fenv.loc.codes.limit]
-----------------------------------------------------------------------------
(* A socket is classified before it is established (it has the user data of *)
(* the listening socket then); a connection is linked to it, and unlinked   *)
(* when it is dropped, before the socket is freed.                          *)
frang_conn_new(s) ==
  LET l == frang_conn_limit
  IN  /\ fsk[s] = "none" /\ MayHappen("conn") /\ tfw_filter_check_ip
      /\ facc' = l.acc /\ Log("conn") /\ Verdict("conn", l.pass)
      /\ fsk' = [fsk EXCEPT ![s] = IF l.pass THEN "new" ELSE "refused"]
      /\ UNCHANGED <<fenv, fclock, freq>>
Established(s) ==
  /\ fsk[s] = "new"
  /\ fsk' = [fsk EXCEPT ![s] = "linked"] /\ UNCHANGED <<fenv, fclock, facc, freq, flog, fout, fblocked>>
Dropped(s) ==
  /\ fsk[s] = "linked"
  /\ fsk' = [fsk EXCEPT ![s] = "unlinked"] /\ UNCHANGED <<fenv, fclock, facc, freq, flog, fout, fblocked>>
frang_conn_close(s) ==
  /\ fsk[s] \in {"new", "refused", "unlinked"}
  /\ facc' = IF fsk[s] = "unlinked" THEN facc ELSE [facc EXCEPT !.conn_curr = @ - 1]
  /\ fsk' = [fsk EXCEPT ![s] = "none"]
  /\ UNCHANGED <<fenv, fclock, freq, flog, fout, fblocked>>

frang_tls_handler(hs) ==
  LET l == frang_tls_conn_limit(hs)
  IN  /\ MayHappen(hs) /\ facc' = l.acc /\ Log(hs) /\ Verdict(hs, l.pass)
      /\ UNCHANGED <<fenv, fclock, fsk, freq>>

(* frang_resp_process() tests the body, frang_resp_fwd_process() the codes   *)
(* of responses that go to a client.                                        *)
frang_resp_handler(status, len) ==
  LET l == frang_resp_code_limit
      limited == fenv.loc.codes.limit # 0 /\ status \in fenv.loc.codes.set
  IN  /\ MayHappen("resp")
      /\ IF Exceeds(len, fenv.loc.body) THEN UNCHANGED <<facc, flog>> /\ Verdict("body", FALSE)
         ELSE IF limited THEN facc' = l.acc /\ Log("resp") /\ Verdict("resp", l.pass)
         ELSE UNCHANGED <<facc, flog>> /\ Verdict("body", TRUE)
      /\ UNCHANGED <<fenv, fclock, fsk, freq>>
-----------------------------------------------------------------------------
(* What the parser has seen of a request at a place:                        *)
(*   1 some of the method, 2 some of the URI, 3 the URI, 4 some of the      *)
(*   headers, 5 the headers, 6 some of the body, 7 the body, 8 everything   *)
End == 8
Places(c) == IF c.body = 0 THEN {1, 2, 3, 4, End} ELSE 1 .. End
Seen(c, p) ==
  [method |-> IF p >= 2 THEN c.method ELSE "none",
   uri |-> IF p < 2 THEN 0 ELSE IF p = 2 THEN c.uri - 1 ELSE c.uri, uriDone |-> p >= 3,
   parsed |-> p >= 5, bodyDone |-> p >= 7, done |-> p = End,
   field |-> IF p >= 4 THEN c.field ELSE 0, hdrs |-> IF p >= 5 THEN c.hdrs ELSE 0,
   dup |-> (p >= 5 /\ c.dup = "headers") \/ (p = End /\ c.dup = "trailer"),
   trailer |-> p >= 7 /\ c.trailer # "no",
   body |-> IF p < 6 THEN 0 ELSE IF p = 6 THEN 1 ELSE c.body]

frang_http_field_len(v, f) == ~Exceeds(v.field, f.field) /\ (f.hdrs # 0 => v.hdrs < f.hdrs)
frang_http_methods(v, f) == f.methods = {} \/ v.method \in f.methods
frang_http_methods_override(c, f) ==
  c.override = "none" \/ (f.override /\ (f.methods = {} \/ c.override \in f.methods))
frang_http_ct_check(c, f) == (f.ct # {} /\ c.method = "POST") => c.ct \in f.ct

(* The host of a request: h = [ver, prim, sec, ip, port, sni, real, tls],    *)
(* prim the :authority of HTTP/2 or else Host, sec the Host of HTTP/2 or    *)
(* else the authority of the URI; "" when it is not there.                  *)
frang_http_host_check(h) ==
  LET val == IF h.ver = 20 /\ h.prim = "" THEN h.sec ELSE h.prim
      port == IF h.port # 0 THEN h.port ELSE IF h.tls THEN 443 ELSE 80
  IN  IF h.ver < 11 THEN h.sec = "" /\ h.prim = ""
      ELSE /\ val # "" /\ (h.prim # "" /\ h.sec # "" => h.prim = h.sec)
           /\ val # "ip" /\ (h.tls /\ h.sni # "" => val = h.sni) /\ port = h.real
-----------------------------------------------------------------------------
(* q: the request with its new place; TFW_PASS is "pass", and so on *)
frang_http_req_incomplete_hdrs_check(q) ==
  IF \/ fenv.g.hdr_timeout # 0 /\ q.skbs > 1 /\ q.tm_header + fenv.g.hdr_timeout < fclock
     \/ Exceeds(q.chunk_cnt, fenv.g.hchunk_cnt)
  THEN "block" ELSE "pass"

frang_http_req_incomplete_body_check(q, v, f) ==
  LET timed == fenv.g.body_timeout # 0 /\ q.tm_bchunk # 0 /\ ~q.bodySkb
      late == timed /\ q.tm_bchunk + fenv.g.body_timeout < fclock
  IN  IF v.body = 0 THEN [r |-> "pass", q |-> q]
      ELSE [r |-> IF late \/ Exceeds(q.chunk_cnt, fenv.g.bchunk_cnt) \/ Exceeds(v.body, f.body)
                  THEN "block" ELSE "pass",
            q |-> IF timed /\ ~late THEN [q EXCEPT !.tm_bchunk = fclock] ELSE q]

frang_http_req_trailer_check(q, c, v, f) ==
  LET b == frang_http_req_incomplete_body_check(q, v, f)
  IN  IF ~v.trailer THEN [r |-> "pass", q |-> q]
      ELSE IF v.dup THEN [r |-> "block", q |-> b.q]
      ELSE IF b.r # "pass" THEN b
      ELSE IF ~frang_http_field_len(v, f) THEN [r |-> "block", q |-> b.q]
      ELSE IF ~v.done THEN [r |-> "postpone", q |-> b.q]
      ELSE [r |-> IF f.split /\ c.trailer = "both" THEN "block" ELSE "pass", q |-> b.q]

(* The FSM: every state goes on to the next one, or leaves it with r. *)
Req_0 == 0
Hdr_Method == 1
Hdr_UriLen == 2
Hdr_Check == 3
Hdr_NoState == 4
Body_Start == 5
Body == 6
Trailer == 8
Done == 9
Out(st, q, r) == [st |-> st, q |-> q, r |-> r]
Hdr_CheckState(q, c, v, f) ==
  IF v.dup \/ ~frang_http_field_len(v, f) THEN "block"
  ELSE IF ~v.parsed THEN "wait"
  ELSE IF \/ f.host /\ ~frang_http_host_check(c.host)
          \/ ~frang_http_methods_override(c, f) \/ ~frang_http_ct_check(c, f)
  THEN "block" ELSE "pass"
RECURSIVE FrangFsm(_, _, _, _, _)
FrangFsm(st, q, c, v, f) ==
  CASE st = Hdr_Method ->
         IF f.methods # {} /\ v.method = "none" THEN Out(st, q, "pass")
         ELSE IF ~frang_http_methods(v, f) THEN Out(st, q, "block") ELSE FrangFsm(Hdr_UriLen, q, c, v, f)
    [] st = Hdr_UriLen ->
         LET r == IF Exceeds(v.uri, f.uri) THEN "block" ELSE "pass"
         IN  IF (f.uri # 0 /\ ~v.uriDone) \/ r = "block" THEN Out(st, q, r) ELSE FrangFsm(Hdr_Check, q, c, v, f)
    [] st = Hdr_Check ->
         LET r == Hdr_CheckState(q, c, v, f)
         IN  IF r = "pass" THEN FrangFsm(Body_Start, q, c, v, f) ELSE Out(st, q, IF r = "wait" THEN "pass" ELSE r)
    [] st = Body_Start ->
         LET b == frang_http_req_incomplete_body_check([q EXCEPT !.chunk_cnt = 0, !.tm_bchunk = fclock], v, f)
         IN  IF b.r # "pass" THEN Out(st, b.q, b.r) ELSE FrangFsm(Body, b.q, c, v, f)
    [] st = Body ->
         IF ~v.bodyDone THEN Out(st, q, "pass") ELSE FrangFsm(Trailer, q, c, v, f)
    [] st = Trailer ->
         LET b == frang_http_req_trailer_check(q, c, v, f)
         IN  Out(IF b.r = "pass" THEN Done ELSE st, b.q, b.r)
    [] OTHER -> Out(Done, q, "pass")

(* frang_http_req_process(): first the checks of what is incomplete; the     *)
(* first skb of a request is counted.                                       *)
frang_http_req_process(q, c, v, f) ==
  LET pre == IF q.st < Hdr_NoState THEN [r |-> frang_http_req_incomplete_hdrs_check(q), q |-> q]
             ELSE frang_http_req_incomplete_body_check(q, v, f)
      l == frang_req_limit(fenv.g.req_burst, fenv.g.req_rate)
      q0 == [pre.q EXCEPT !.tm_header = fclock]
  IN  IF pre.r # "pass" THEN [acc |-> facc, out |-> Out(q.st, pre.q, pre.r)]
      ELSE IF q.st # Req_0 THEN [acc |-> facc, out |-> FrangFsm(q.st, pre.q, c, v, f)]
      ELSE [acc |-> l.acc, out |-> IF l.pass THEN FrangFsm(Hdr_Method, q0, c, v, f) ELSE Out(Req_0, q0, "block")]

(* What is to be said of the pieces a request came in: when it began, when  *)
(* its headers were complete, and whether it was too slow.                  *)
Paced(c, p, start) ==
  LET o == IF start THEN [NoReq.ref EXCEPT !.at = fclock] ELSE freq.ref
      inHdrs == freq.pos < 5
      more == freq.pos >= 6
      r == [o EXCEPT !.hn = IF inHdrs THEN @ + 1 ELSE @, !.bn = IF inHdrs THEN @ ELSE @ + 1,
                     !.hend = IF inHdrs THEN fclock ELSE @, !.prev = fclock]
      g == fenv.g
      late(since, limit) == limit # 0 /\ fclock > since + limit
  IN  [r EXCEPT !.slow = @ \/ (inHdrs /\ (late(o.at, g.hdr_timeout) \/ Exceeds(r.hn, g.hchunk_cnt)))
                           \/ (more /\ late(o.prev, g.body_timeout)) \/ Exceeds(r.bn, g.bchunk_cnt),
                !.maybe = @ \/ (more /\ late(o.hend, g.body_timeout))]

(* tfw_http_req_process(): an skb brings the request c to the place p.  Not  *)
(* complete, it is checked against the default limits.                      *)
frang_http_req_handler(c, p) ==
  LET start == freq.pos = 0
      q == [bodySkb |-> freq.pos < 6, c |-> c] @@
           [freq EXCEPT !.pos = p, !.chunk_cnt = @ + 1, !.skbs = @ + 1, !.ref = Paced(c, p, start)]
      x == frang_http_req_process(q, c, Seen(c, p), IF p = End THEN fenv.loc ELSE fenv.dflt)
  IN  /\ (IF start THEN MayHappen("req") ELSE c = freq.c) /\ tfw_filter_check_ip
      /\ p > freq.pos /\ (freq.skbs + 1 < fenv.cuts \/ p = End)
      /\ facc' = x.acc
      /\ (IF start THEN Log("req") ELSE UNCHANGED flog)
      /\ LET n == [x.out.q EXCEPT !.st = x.out.st, !.ref.over = IF start THEN Over(flog', "req") ELSE @]
         IN  IF x.out.r = "block" \/ p = End
             THEN /\ fout' = [kind |-> "req", pass |-> x.out.r # "block", over |-> n.ref.over, c |-> c, ref |-> n.ref]
                  /\ tfw_filter_block_ip(x.out.r = "block")
                  /\ freq' = NoReq
             ELSE /\ freq' = n /\ UNCHANGED <<fout, fblocked>>
      /\ UNCHANGED <<fenv, fclock, fsk>>

FrangTick == /\ fclock < fenv.last /\ fclock' = fclock + 1
             /\ UNCHANGED <<fenv, facc, fsk, freq, flog, fout, fblocked>>

FrangNext ==
  \/ \E s \in FrangSk : frang_conn_new(s) \/ Established(s) \/ Dropped(s) \/ frang_conn_close(s)
  \/ \E hs \in {"new", "resumed", "incomplete"} : frang_tls_handler(hs)
  \/ \E status \in {200, 404}, len \in {1, 5} : frang_resp_handler(status, len)
  \/ \E c \in fenv.reqs : \E p \in Places(c) : frang_http_req_handler(c, p)
  \/ FrangTick
-----------------------------------------------------------------------------
HostKept(h) ==
  LET names == {h.prim, h.sec} \ {""}
  IN  IF h.ver < 11 THEN names = {}
      ELSE \E n \in names :
             /\ names = {n} /\ n # "ip" /\ (h.ver = 11 => h.prim = n)
             /\ h.sni \in {"", n} \/ ~h.tls
             /\ h.real = IF h.port = 0 THEN (IF h.tls THEN 443 ELSE 80) ELSE h.port
Alive == Cardinality({s \in FrangSk : fsk[s] \in {"new", "linked"}})

(* A request that keeps a limit, read off what its author wrote. *)
LimitNames == {"methods", "uri", "field", "hdrs", "dup", "host", "override", "ct", "body", "split"}
Keeps(l, c, f) ==
  CASE l = "methods" -> f.methods # {} => c.method \in f.methods
    [] l = "uri" -> ~Exceeds(c.uri, f.uri)
    [] l = "field" -> ~Exceeds(c.field, f.field)
    [] l = "hdrs" -> f.hdrs # 0 => c.hdrs < f.hdrs
    [] l = "dup" -> c.dup = "no"
    [] l = "host" -> f.host => HostKept(c.host)
    [] l = "override" -> c.override # "none" => f.override /\ (f.methods # {} => c.override \in f.methods)
    [] l = "ct" -> f.ct # {} /\ c.method = "POST" => c.ct \in f.ct
    [] l = "body" -> ~Exceeds(c.body, f.body)
    [] l = "split" -> ~(f.split /\ c.trailer = "both")

(* The ring of slots counts exactly what happened within the last second:   *)
(* a connection or a request is refused when, and only when, a limit was    *)
(* exceeded (handshakes may be refused early, as old ones stay in a slot    *)
(* used again by a request; connections also while dropped ones are still   *)
(* counted), and no more connections live than allowed.  However a request  *)
(* is cut and whenever its pieces come, it passes when and only when it     *)
(* keeps the limits (frang_http_req_process()); what the limits of a        *)
(* location forbid may pass when the default ones did not.                  *)
FrangRight ==
  /\ fout.kind # "none" /\ fout.over => ~fout.pass
  /\ fout.kind \in {"conn", "resp"} /\ ~fout.pass =>
       fout.over \/ (fout.kind = "conn" /\ fenv.g.conn_max # 0)
  /\ fenv.g.conn_max # 0 => Alive <= fenv.g.conn_max /\ facc.conn_curr >= Alive
  /\ fout.kind = "req" /\ fout.pass =>
       ~fout.ref.slow /\ \A l \in LimitNames : Keeps(l, fout.c, fenv.dflt) \/ Keeps(l, fout.c, fenv.loc)
  /\ fout.kind = "req" /\ ~fout.pass =>
       \/ fout.over \/ fout.ref.slow \/ fout.ref.maybe
       \/ \E l \in LimitNames : ~Keeps(l, fout.c, fenv.dflt) \/ ~Keeps(l, fout.c, fenv.loc)
=============================================================================

------------------------------ MODULE HttpSess ------------------------------
(***************************************************************************)
(* HTTP sessions (http_sess.c): sticky cookies that a client has to bring  *)
(* back, the JavaScript challenge, the redirection mark that counts what   *)
(* a client missed, cookies learned from servers, and the server that the  *)
(* requests of a session are pinned to.                                    *)
(*                                                                         *)
(* An HMAC is what it is computed from, a client and a time.  A request is *)
(* at one of its steps; the session is locked for a step, not for more.    *)
(* The configuration of a virtual host follows from the directives of its  *)
(* own section and of the default one (http_sess_conf.c).                  *)
(***************************************************************************)
EXTENDS Integers, Sequences, FiniteSets, FiniteSetsExt, TLC

CONSTANTS
  SessEnv,      \* [dflt, own, jsget, can, last, cli, reqs]: directives, what may happen and to whom
  SessCli,      \* clients
  SessReq,      \* requests at a time
  SessMax,      \* sessions
  NoTime        \* the lifetime of a session that has no limit

VARIABLES
  senv, sck,    \* the cookie configuration of the virtual host (TfwStickyCookie and flags)
  sclock,
  shold,        \* clients: the cookie and the mark of the last answer, whether the address is blocked
  sdb,          \* sessions
  sreq, ssrv, svh, sstop
sessVars == <<senv, sck, sclock, shold, sdb, sreq, ssrv, svh, sstop>>
-----------------------------------------------------------------------------
(* http_sess_conf.c.  A section: the cookie it sets ("own", "learn" or       *)
(* "none") with its options, a JS challenge or none, sticky sessions ("",   *)
(* "on" or "failover") and a lifetime (-1 when it is not given, 0: no limit).*)
NoJs == [dmin |-> 0, range |-> 1, limit |-> 0]
tfw_cfgop_cookie_set(s) == (s.misses > 0 => s.enforce) /\ (s.tmt > 0 => s.misses > 0)
tfw_http_sess_cfgop_finish(s) == s.js # NoJs => s.cookie = "own"
SectionValid(s) == tfw_cfgop_cookie_set(s) /\ tfw_http_sess_cfgop_finish(s)
(* A challenge enforces the cookie. *)
Section(s) == IF s.js # NoJs THEN [s EXCEPT !.enforce = TRUE] ELSE s
(* "learn" turns sticky sessions on, and the default value of the directive, *)
(* applied in the end, off again.                                            *)
tfw_cfgop_sticky_sess_set(s) == s.sticky
tfw_cfgop_sticky_sess_inherit(d, o) == IF o.sticky = "" THEN tfw_cfgop_sticky_sess_set(d) ELSE tfw_cfgop_sticky_sess_set(o)
tfw_cfgop_sticky_inherit(d, o) ==
  IF o.cookie # "none" \/ d.cookie = "none" THEN o
  ELSE [o EXCEPT !.cookie = d.cookie, !.misses = d.misses, !.tmt = d.tmt, !.enforce = d.enforce,
                 !.js = IF o.js = NoJs THEN d.js ELSE o.js]
(* mutant: the limits of the default section are not taken over with its cookie *)
CfgFinishPart(dflt, own) ==
  LET d == Section(dflt) o == Section(own)
      c == IF o.cookie = "none" /\ d.cookie # "none" THEN [o EXCEPT !.cookie = d.cookie, !.js = d.js] ELSE o
  IN  [c EXCEPT !.sticky = tfw_cfgop_sticky_sess_inherit(d, o),
                !.life = IF o.life # -1 THEN o.life ELSE IF d.life # -1 THEN d.life ELSE 0]
tfw_http_sess_cfg_finish(dflt, own) ==
  LET d == Section(dflt) o == Section(own)
  IN  [tfw_cfgop_sticky_inherit(d, o) EXCEPT
         !.sticky = tfw_cfgop_sticky_sess_inherit(d, o),
         !.life = IF o.life # -1 THEN o.life ELSE IF d.life # -1 THEN d.life ELSE 0]
SessLifetime == IF sck.life = 0 THEN NoTime ELSE sck.life
-----------------------------------------------------------------------------
Hmac(c, ts) == <<c, ts>>
NoCookie == [ts |-> 0, h |-> <<>>, len |-> FALSE]
NoMark == [att |-> 0, ts |-> 0]
Idle == [st |-> "idle"]
Conns == {11, 12, 21}
Srv(conn) == conn \div 10
Servers == {1, 2}
SessInit ==
  /\ senv \in {e \in SessEnv : SectionValid(e.dflt) /\ SectionValid(e.own)}
  /\ sck = tfw_http_sess_cfg_finish(senv.dflt, senv.own)
  /\ sclock = 10 /\ shold = [c \in SessCli |-> [cookie |-> NoCookie, mark |-> NoMark, blocked |-> FALSE, red |-> 0]]
  /\ sdb = <<>> /\ sreq = [q \in SessReq |-> Idle]
  /\ ssrv = [live |-> Conns, off |-> {}, del |-> {}, pins |-> [s \in Servers |-> 0]]
  /\ svh = [cur |-> 1, refs |-> [v \in 1 .. 2 |-> 0]] /\ sstop = FALSE

(* What a request brings: its author's cookie or none, one of another client *)
(* or one that was cut; the mark in its URI; whether a script can run.       *)
Brought(c) == {NoCookie, shold[c].cookie}
              \cup (IF "foreign" \in senv.can THEN {shold[d].cookie : d \in SessCli} ELSE {})
              \cup (IF "cut" \in senv.can THEN {[shold[c].cookie EXCEPT !.len = FALSE, !.h = <<0>>]} ELSE {})
HasCookie(r) == r.cookie.h # <<>>
tfw_http_sticky_redirect_applied(r) == sck.js = NoJs \/ r.html
NoSv == [ts |-> 0, h |-> <<>>]
tfw_http_sticky_calc(r) == [ts |-> sclock, h |-> Hmac(r.c, sclock)]

(* sv keeps what was read of a cookie that is refused. *)
tfw_http_sticky_verify(r) ==
  LET sv == [ts |-> r.cookie.ts, h |-> Hmac(r.c, r.cookie.ts)]
  IN  IF sck.cookie = "learn" THEN [ok |-> TRUE, sv |-> NoSv]
      ELSE IF ~r.cookie.len THEN [ok |-> FALSE, sv |-> tfw_http_sticky_calc(r)]
      ELSE [ok |-> r.cookie.h = sv.h /\ sclock <= sv.ts + SessLifetime, sv |-> sv]

(* the new mark, or the number of attempts is exceeded *)
tfw_http_sess_check_redir_mark(r) ==
  LET late == sck.tmt # 0 /\ r.mark.ts + sck.tmt < sclock
      m == IF r.mark = NoMark THEN [att |-> 1, ts |-> sclock]
           ELSE IF late THEN [att |-> 1, ts |-> sclock] ELSE [r.mark EXCEPT !.att = @ + 1]
  IN  [ok |-> r.mark = NoMark \/ m.att <= sck.misses, mark |-> m]

(* what tfw_http_sess_obtain() returns, the answer it has built for the      *)
(* client, and the session key it goes on with                               *)
Ret(code, cookie, mark) == [code |-> code, cookie |-> cookie, mark |-> mark, block |-> FALSE]
tfw_http_sticky_build_redirect(r, sv, mark) ==
  IF ~tfw_http_sticky_redirect_applied(r) THEN Ret("nojs", NoCookie, NoMark)
  ELSE Ret("redirect", [ts |-> sv.ts, h |-> sv.h, len |-> TRUE], mark)
tfw_http_sticky_challenge_start(r, sv0) ==
  LET m == tfw_http_sess_check_redir_mark(r)
      sv == IF sv0.ts = 0 THEN tfw_http_sticky_calc(r) ELSE sv0
  IN  IF sck.misses = 0 THEN tfw_http_sticky_build_redirect(r, sv, NoMark)
      ELSE IF ~m.ok THEN [Ret("violate", NoCookie, NoMark) EXCEPT !.block = TRUE]
      ELSE tfw_http_sticky_build_redirect(r, sv, m.mark)

tfw_http_sess_check_jsch(r, sv) ==
  LET min == sv.ts + sck.js.dmin + (sv.ts % sck.js.range)
  IN  IF sck.js = NoJs THEN "ok" ELSE IF ~tfw_http_sticky_redirect_applied(r) THEN "nojs"
      ELSE IF sclock \in min .. min + sck.js.limit THEN "ok"
      ELSE IF sclock > sv.ts + sck.js.dmin + sck.js.range THEN "restart" ELSE "violate"

(* tfw_http_sess_eq(): live, of the same client and of the same virtual host *)
tfw_http_sess_eq(s, key) == s.expires >= sclock /\ s.key = key
Found(key) == {i \in 1 .. Len(sdb) : tfw_http_sess_eq(sdb[i], key)}
tfw_sess_ent_init(key, ts, conn) ==
  [key |-> key, ts |-> ts, expires |-> ts + SessLifetime, vh |-> svh.cur, conn |-> conn, users |-> 1,
   went |-> IF conn = 0 THEN {} ELSE {Srv(conn)}, moved |-> FALSE]

(* A session found is pinned to the current incarnation of its virtual host. *)
tfw_http_sess_pin_vhost(i) ==
  /\ sdb' = [sdb EXCEPT ![i].vh = svh.cur, ![i].users = @ + 1,
                        ![i].expires = IF sck.cookie = "learn" THEN sclock + SessLifetime ELSE @]
  /\ svh' = [svh EXCEPT !.refs[sdb[i].vh] = IF sdb[i].vh # svh.cur THEN @ - 1 ELSE @,
                        !.refs[svh.cur] = IF sdb[i].vh # svh.cur THEN @ + 1 ELSE @]
Has(q, r, i, res, st) == [st |-> st, c |-> r.c, r |-> r, sess |-> i, res |-> res, conn |-> 0, tried |-> 0]

(* The client takes what it is answered. *)
Answered(q, r, res) ==
  /\ shold' = [shold EXCEPT ![r.c].cookie = IF res.cookie.len THEN res.cookie ELSE @,
                            ![r.c].mark = IF res.code = "redirect" THEN res.mark ELSE @,
                            ![r.c].red = IF res.code # "redirect" THEN @ ELSE IF r.mark = NoMark THEN 1 ELSE @ + 1,
                            ![r.c].blocked = @ \/ res.block]
  /\ sreq' = [sreq EXCEPT ![q] = Has(q, r, 0, res, "answered")]
  /\ UNCHANGED <<sdb, svh>>
(* A request that brings a mark with a good cookie is sent back without it. *)
WithSession(q, r, sv, i) ==
  LET res == tfw_http_sticky_build_redirect(r, sv, NoMark)
  IN  IF r.mark # NoMark
      THEN /\ sreq' = [sreq EXCEPT ![q] = Has(q, r, i, res, "putting")]
           /\ shold' = [shold EXCEPT ![r.c].mark = NoMark, ![r.c].red = 0]
      ELSE /\ sreq' = [sreq EXCEPT ![q] = Has(q, r, i, Ret("ok", NoCookie, NoMark), "lookup")]
           /\ UNCHANGED shold

(* tdb_rec_get_alloc() is atomic. *)
Session(q, r, sv) ==
  LET key == IF sck.cookie = "learn" THEN r.cookie.h ELSE sv.h
      js == tfw_http_sess_check_jsch(r, sv)
  IN  IF Found(key) # {}
      THEN LET i == Min(Found(key)) IN tfw_http_sess_pin_vhost(i) /\ WithSession(q, r, sv, i)
      ELSE IF sck.cookie = "learn"
      THEN /\ sreq' = [sreq EXCEPT ![q] = Has(q, r, 0, Ret("ok", NoCookie, NoMark), "lookup")]
           /\ UNCHANGED <<sdb, svh, shold>>
      ELSE IF js = "restart" THEN Answered(q, r, tfw_http_sticky_challenge_start(r, NoSv))
      ELSE IF js # "ok" THEN Answered(q, r, Ret(js, NoCookie, NoMark))
      ELSE /\ sdb' = Append(sdb, [tfw_sess_ent_init(key, sv.ts, 0) EXCEPT !.users = 2])
           /\ svh' = [svh EXCEPT !.refs[svh.cur] = @ + 1]
           /\ WithSession(q, r, sv, Len(sdb) + 1)
tfw_http_sess_obtain(q, c) ==
  /\ sreq[q].st = "idle" /\ ~shold[c].blocked /\ ~sstop /\ Len(sdb) < SessMax
  /\ \E ck \in Brought(c), m \in {NoMark, shold[c].mark}, html \in senv.jsget :
       LET r == [c |-> c, cookie |-> ck, mark |-> m, html |-> html, at |-> sclock]
           v == tfw_http_sticky_verify(r)
       IN  IF ~HasCookie(r)
           THEN IF sck.enforce THEN Answered(q, r, tfw_http_sticky_challenge_start(r, NoSv))
                ELSE Session(q, r, IF sck.cookie = "learn" THEN NoSv ELSE tfw_http_sticky_calc(r))
           ELSE IF v.ok THEN Session(q, r, v.sv)
           ELSE Answered(q, r, tfw_http_sticky_challenge_start(r, v.sv))
  /\ UNCHANGED <<senv, sck, sclock, ssrv, sstop>>
-----------------------------------------------------------------------------
(* Any connection of the server group; any one of a server. *)
tfw_vhost_get_srv_conn == {n \in ssrv.live : Srv(n) \notin ssrv.off \cup ssrv.del}
sched_srv_conn(srv) == {n \in ssrv.live : Srv(n) = srv}
__try_conn(n) == IF n = 0 \/ Srv(n) \in ssrv.off THEN {} ELSE IF n \in ssrv.live THEN {n} ELSE sched_srv_conn(Srv(n))
Chosen(q, n, st) == sreq' = [sreq EXCEPT ![q].conn = n, ![q].st = st]
Went(i, n) == sdb' = [sdb EXCEPT ![i].went = IF n = 0 THEN @ ELSE @ \cup {Srv(n)}]

(* Under the read lock *)
LookupRead(q) ==
  LET i == sreq[q].sess
      tried == __try_conn(sdb[i].conn)
      any == tfw_vhost_get_srv_conn
  IN  /\ sreq[q].st = "lookup"
      /\ IF i = 0 \/ (sdb[i].conn = 0 /\ sck.sticky = "")
         THEN \E n \in IF any = {} THEN {0} ELSE any : Chosen(q, n, "sent") /\ UNCHANGED sdb
         ELSE IF tried # {} THEN \E n \in tried : Chosen(q, n, "sent") /\ Went(i, n)
         ELSE Chosen(q, 0, "locking") /\ UNCHANGED sdb
      /\ UNCHANGED <<senv, sck, sclock, shold, ssrv, svh, sstop>>
tfw_http_sess_pin_srv(i, n) ==
  /\ sdb' = [sdb EXCEPT ![i].conn = n, ![i].went = IF n = 0 THEN @ ELSE @ \cup {Srv(n)},
                        ![i].moved = @ \/ sdb[i].conn # 0]
  /\ ssrv' = [ssrv EXCEPT !.pins = [s \in Servers |-> @[s] - (IF sdb[i].conn # 0 /\ Srv(sdb[i].conn) = s THEN 1 ELSE 0)
                                                       + (IF n # 0 /\ Srv(n) = s THEN 1 ELSE 0)]]
(* mutant: the pinned connection is not tried again under the write lock *)
LookupWriteBlind(q) ==
  LET i == sreq[q].sess any == tfw_vhost_get_srv_conn
  IN  /\ sreq[q].st = "locking"
      /\ \E n \in IF any = {} THEN {0} ELSE any : Chosen(q, n, "sent") /\ tfw_http_sess_pin_srv(i, n)
      /\ UNCHANGED <<senv, sck, sclock, shold, svh, sstop>>
(* Under the write lock: the connection is tried again. *)
LookupWrite(q) ==
  LET i == sreq[q].sess
      s == sdb[i]
      tried == __try_conn(s.conn)
      any == tfw_vhost_get_srv_conn
  IN  /\ sreq[q].st = "locking"
      /\ IF tried # {} THEN \E n \in tried : Chosen(q, n, "sent") /\ Went(i, n) /\ UNCHANGED ssrv
         ELSE IF s.conn # 0 /\ sck.sticky # "failover"
         THEN /\ sdb' = [sdb EXCEPT ![i].expires = IF Srv(s.conn) \in ssrv.del THEN 0 ELSE @]
              /\ Chosen(q, 0, "sent") /\ UNCHANGED ssrv
         ELSE \E n \in IF any = {} THEN {0} ELSE any : Chosen(q, n, "sent") /\ tfw_http_sess_pin_srv(i, n)
      /\ UNCHANGED <<senv, sck, sclock, shold, svh, sstop>>

(* A response: a cookie is learned from it (tfw_http_sess_learn(): a new one, *)
(* or an empty one that ends the session), or set by us.                      *)
Learned == {<<"l", 1>>, <<"l", 2>>}
tfw_http_sess_learn(q, val) ==
  LET i == sreq[q].sess
  IN  /\ sreq[q].st = "sent" /\ sreq[q].conn # 0 /\ sck.cookie = "learn" /\ Len(sdb) < SessMax
      /\ IF val = <<>>
         THEN /\ sdb' = IF i = 0 THEN sdb ELSE [sdb EXCEPT ![i].expires = 0]
              /\ UNCHANGED <<ssrv, svh>>
         ELSE IF Found(val) # {} THEN UNCHANGED <<sdb, ssrv, svh>>
         ELSE /\ sdb' = Append(sdb, tfw_sess_ent_init(val, sclock, sreq[q].conn))
              /\ ssrv' = [ssrv EXCEPT !.pins[Srv(sreq[q].conn)] = @ + 1]
              /\ svh' = [svh EXCEPT !.refs[svh.cur] = @ + 1]
      /\ shold' = [shold EXCEPT ![sreq[q].c].cookie = [ts |-> 0, h |-> val, len |-> TRUE]]
      /\ sreq' = [sreq EXCEPT ![q].st = IF sreq[q].sess = 0 THEN "answered" ELSE "putting"]
      /\ UNCHANGED <<senv, sck, sclock, sstop>>
tfw_http_sess_resp_process(q) ==
  LET s == sdb[sreq[q].sess] r == sreq[q].r
      add == sck.cookie = "own" /\ ~HasCookie(r)
  IN  /\ sreq[q].st = "sent"
      /\ shold' = [shold EXCEPT ![r.c].cookie = IF add THEN [ts |-> s.ts, h |-> s.key, len |-> TRUE] ELSE @]
      /\ sreq' = [sreq EXCEPT ![q].st = IF @ = "sent" /\ sreq[q].sess = 0 THEN "answered" ELSE "putting"]
      /\ UNCHANGED <<senv, sck, sclock, sdb, ssrv, svh, sstop>>
(* The request is destroyed. *)
tfw_http_sess_put(q) ==
  /\ sreq[q].st \in {"putting", "answered"}
  /\ sdb' = IF sreq[q].st = "putting" THEN [sdb EXCEPT ![sreq[q].sess].users = @ - 1] ELSE sdb
  /\ sreq' = [sreq EXCEPT ![q] = Idle]
  /\ UNCHANGED <<senv, sck, sclock, shold, ssrv, svh, sstop>>
-----------------------------------------------------------------------------
(* Connections of servers come and go, a monitor suspends a server, a        *)
(* reconfiguration removes one or replaces the virtual host.                 *)
SrvEvent ==
  /\ ~sstop
  /\ \/ "conns" \in senv.can /\ \E n \in {11, 12} :
          ssrv' = [ssrv EXCEPT !.live = IF n \in @ THEN @ \ {n} ELSE IF Srv(n) \in ssrv.del THEN @ ELSE @ \cup {n}] /\ UNCHANGED svh
     \/ "suspend" \in senv.can /\ ssrv' = [ssrv EXCEPT !.off = IF @ = {} THEN {1} ELSE {}] /\ UNCHANGED svh
     \/ "del" \in senv.can /\ ssrv.del = {} /\ ssrv' = [ssrv EXCEPT !.del = {1}, !.live = {n \in @ : Srv(n) # 1}] /\ UNCHANGED svh
     \/ "reload" \in senv.can /\ svh.cur = 1 /\ svh' = [svh EXCEPT !.cur = 2] /\ UNCHANGED ssrv
  /\ UNCHANGED <<senv, sck, sclock, shold, sdb, sreq, sstop>>
SessTick == /\ sclock < senv.last /\ sclock' = sclock + 1
            /\ UNCHANGED <<senv, sck, shold, sdb, sreq, ssrv, svh, sstop>>
(* No request is left: every session is put (tfw_http_sess_release_entry()). *)
tfw_http_sess_stop ==
  /\ "stop" \in senv.can /\ ~sstop /\ \A q \in SessReq : sreq[q].st = "idle"
  /\ sstop' = TRUE
  /\ sdb' = [i \in 1 .. Len(sdb) |-> [sdb[i] EXCEPT !.users = @ - 1, !.expires = 0, !.conn = 0]]
  /\ ssrv' = [ssrv EXCEPT !.pins = [s \in Servers |-> @[s] - Cardinality({i \in 1 .. Len(sdb) :
                                                        sdb[i].users = 1 /\ sdb[i].conn # 0 /\ Srv(sdb[i].conn) = s})]]
  /\ svh' = [svh EXCEPT !.refs = [v \in 1 .. 2 |-> @[v] - Cardinality({i \in 1 .. Len(sdb) : sdb[i].users = 1 /\ sdb[i].vh = v})]]
  /\ UNCHANGED <<senv, sck, sclock, shold, sreq>>
SessNext ==
  \/ \E q \in senv.reqs : \/ \E c \in senv.cli : tfw_http_sess_obtain(q, c)
                          \/ LookupRead(q) \/ LookupWrite(q)
                          \/ \E val \in Learned \cup {<<>>} : tfw_http_sess_learn(q, val)
                          \/ tfw_http_sess_resp_process(q) \/ tfw_http_sess_put(q)
  \/ SrvEvent \/ SessTick \/ tfw_http_sess_stop
-----------------------------------------------------------------------------
(* A cookie that the client was given, in time for the challenge. *)
Proven(r) == /\ r.cookie.len /\ r.cookie.h = Hmac(r.c, r.cookie.ts) /\ r.at <= r.cookie.ts + SessLifetime
CfgSource == IF senv.own.cookie = "none" /\ senv.dflt.cookie # "none" THEN senv.dflt ELSE senv.own

(* Whatever is concurrent: with an enforced cookie a request goes on only   *)
(* with one that its own client was given and that has not expired, a       *)
(* client that brings such a cookie without a mark is not sent away (unless *)
(* the challenge has to be run again), and one that never does gets no more *)
(* than max_misses redirections within the timeout                          *)
(* (tfw_http_sess_check_redir_mark()).  A session belongs to one client,    *)
(* its requests all go to one server as long as failover is not allowed     *)
(* (tfw_http_sess_get_srv_conn()), the reference counts of sessions,        *)
(* servers and virtual hosts are exact, and all is released in the end.  A  *)
(* virtual host that sets no cookie has the one of the default section with *)
(* all of its limits (tfw_cfgop_sticky_inherit()).                          *)
SessRight ==
  /\ \A q \in SessReq : sreq[q].st # "idle" =>
       LET x == sreq[q]
       IN  /\ x.res.code = "ok" /\ sck.enforce => Proven(x.r)
           /\ Proven(x.r) /\ x.r.mark = NoMark /\ sck.cookie = "own" /\ sck.js = NoJs => x.res.code = "ok"
           /\ x.sess # 0 /\ sck.cookie = "own" => sdb[x.sess].key[1] = x.r.c
           /\ x.st = "sent" /\ x.conn # 0 /\ x.sess # 0 /\ sck.sticky # "" => Srv(x.conn) \in sdb[x.sess].went
  /\ \A c \in SessCli : sck.misses > 0 /\ sck.tmt = 0 => shold[c].red <= sck.misses
  /\ \A i \in 1 .. Len(sdb) :
       /\ sdb[i].users = (IF sstop THEN 0 ELSE 1) + Cardinality({q \in SessReq : sreq[q].st \in {"lookup", "locking", "sent", "putting"} /\ sreq[q].sess = i})
       /\ sck.sticky # "" /\ ~sdb[i].moved => Cardinality(sdb[i].went) <= 1
       /\ sck.sticky # "failover" => ~sdb[i].moved
  /\ \A s \in Servers : ssrv.pins[s] = Cardinality({i \in 1 .. Len(sdb) : sdb[i].conn # 0 /\ Srv(sdb[i].conn) = s})
  /\ \A v \in 1 .. 2 : svh.refs[v] = IF sstop THEN 0 ELSE Cardinality({i \in 1 .. Len(sdb) : sdb[i].vh = v})
  /\ sck.misses = CfgSource.misses /\ (CfgSource.js # NoJs => sck.enforce)
=============================================================================

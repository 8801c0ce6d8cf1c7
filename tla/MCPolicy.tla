------------------------------ MODULE MCPolicy ------------------------------
(***************************************************************************)
(* Scenarios for the limits of Frang, the sessions of a virtual host, the  *)
(* schedulers and the loading of configurations.  A behaviour runs one of  *)
(* them (policy); the others, or all of them when policy is "none", stay   *)
(* as they begin.                                                          *)
(***************************************************************************)
EXTENDS Integers, Sequences, FiniteSets

VARIABLES
  policy,
  fenv, fclock, facc, fsk, freq, flog, fout, fblocked,
  senv, sck, sclock, shold, sdb, sreq, ssrv, svh, sstop,
  scenv, rto, rr, hst, taken, choice, timer, grp, turns,
  rcenv, rcw, rpc, rfile, rpos, rflags, rhist
frangVars == <<fenv, fclock, facc, fsk, freq, flog, fout, fblocked>>
sessVars == <<senv, sck, sclock, shold, sdb, sreq, ssrv, svh, sstop>>
schedVars == <<scenv, rto, rr, hst, taken, choice, timer, grp, turns>>
reconfVars == <<rcenv, rcw, rpc, rfile, rpos, rflags, rhist>>

(* limits of Frang: requests that break one of them, hosts in every
   combination, rates and bursts *)
FrangStart == 5
G0 == [conn_max |-> 0, conn_burst |-> 0, conn_rate |-> 0, req_burst |-> 0, req_rate |-> 0, tls_new_rate |-> 0,
       tls_new_burst |-> 0, tls_inc_rate |-> 0, hdr_timeout |-> 0, body_timeout |-> 0, hchunk_cnt |-> 0,
       bchunk_cnt |-> 0, ip_block |-> FALSE]
F0 == [methods |-> {}, uri |-> 0, field |-> 0, hdrs |-> 0, host |-> FALSE, override |-> TRUE, ct |-> {}, body |-> 0,
       split |-> FALSE, codes |-> [limit |-> 0, set |-> {404}]]
F1 == [F0 EXCEPT !.methods = {"GET", "POST"}, !.uri = 2, !.field = 2, !.hdrs = 3, !.host = TRUE, !.override = FALSE,
                 !.ct = {"text"}, !.body = 2, !.split = TRUE]
Host0 == [ver |-> 11, prim |-> "a", sec |-> "", port |-> 0, sni |-> "", real |-> 80, tls |-> FALSE]
Req0 == [method |-> "GET", override |-> "none", uri |-> 2, field |-> 2, hdrs |-> 2, dup |-> "no", host |-> Host0,
       ct |-> "text", body |-> 2, trailer |-> "ok"]
BadReqs == {[Req0 EXCEPT !.method = "PUT"], [Req0 EXCEPT !.override = "PUT"], [Req0 EXCEPT !.uri = 3], [Req0 EXCEPT !.field = 3],
        [Req0 EXCEPT !.hdrs = 3], [Req0 EXCEPT !.dup = "headers"], [Req0 EXCEPT !.dup = "trailer"],
        [Req0 EXCEPT !.host.prim = "ip"], [Req0 EXCEPT !.method = "POST", !.ct = "html"], [Req0 EXCEPT !.body = 3],
        [Req0 EXCEPT !.trailer = "both"], [Req0 EXCEPT !.body = 0, !.trailer = "no", !.uri = 3]}
Hosts == [ver : {10, 11, 20}, prim : {"", "a", "ip"}, sec : {"", "a", "b"}, port : {0, 80, 443}, sni : {"", "a", "b"},
          real : {80, 443}, tls : BOOLEAN]
Frang0 == [g |-> G0, dflt |-> F0, loc |-> F0, reqs |-> {Req0}, events |-> {}, cuts |-> 1, last |-> FrangStart, quota |-> 1]
MCFrangEnv ==
  {[Frang0 EXCEPT !.dflt = d, !.loc = l, !.reqs = BadReqs \cup {Req0}, !.events = {"req"}, !.cuts = 3] :
     d \in {F0, F1}, l \in {F0, F1}}
  \cup {[Frang0 EXCEPT !.loc = F1, !.reqs = {[Req0 EXCEPT !.host = h]}, !.events = {"req"}] : h \in Hosts}
  \cup {[Frang0 EXCEPT !.g = [G0 EXCEPT !.hdr_timeout = 1, !.body_timeout = 1], !.events = {"req"}, !.cuts = 4,
                   !.last = FrangStart + 4],
        [Frang0 EXCEPT !.g = [G0 EXCEPT !.hchunk_cnt = 2, !.bchunk_cnt = 2], !.events = {"req"}, !.cuts = 6],
        [Frang0 EXCEPT !.g = [G0 EXCEPT !.conn_max = 1, !.ip_block = TRUE], !.events = {"conn"}, !.quota = 4]}
  \cup {[Frang0 EXCEPT !.g = [G0 EXCEPT !.conn_burst = b, !.conn_rate = 2, !.req_burst = b, !.req_rate = 2,
                                    !.tls_new_rate = 2, !.tls_new_burst = 1, !.tls_inc_rate = 1],
                   !.loc = [F0 EXCEPT !.codes.limit = 2, !.body = 4],
                   !.reqs = {Req0}, !.events = e, !.quota = 4, !.last = FrangStart + 4] :
          b \in {0, 1}, e \in {{"req", "conn"}, {"req", "new", "incomplete", "resumed"}, {"resp"}}}
Fr == INSTANCE Frang WITH FREQ <- 3, FrangEnv <- MCFrangEnv, FrangSk <- {1, 2}, StartSlot <- FrangStart

(* sessions: cookies that are set, learned or inherited, with what may befall
   their virtual host and servers *)
NoSticky == [cookie |-> "none", enforce |-> FALSE, misses |-> 0, tmt |-> 0,
          js |-> [dmin |-> 0, range |-> 1, limit |-> 0], sticky |-> "", life |-> -1]
Own == [NoSticky EXCEPT !.cookie = "own", !.enforce = TRUE]
Learn == [NoSticky EXCEPT !.cookie = "learn"]
Challenge == [dmin |-> 1, range |-> 2, limit |-> 0]
SessCase(own, can, last) == [dflt |-> NoSticky, own |-> own, jsget |-> {TRUE}, can |-> can, last |-> last, cli |-> {"a"}, reqs |-> {1, 2}]
Sticky(s) == [s EXCEPT !.sticky = "on"]
MCSessEnv ==
  {[e EXCEPT !.reqs = {1}] : e \in
     {[SessCase(Own, {"foreign", "cut", "stop"}, 11) EXCEPT !.cli = {"a", "b"}], SessCase([Own EXCEPT !.life = 1], {"reload", "stop"}, 13),
      SessCase([Own EXCEPT !.misses = 2], {"cut"}, 10), SessCase([Own EXCEPT !.misses = 1, !.tmt = 1], {}, 12),
      [SessCase([Own EXCEPT !.js = Challenge, !.enforce = FALSE], {}, 13) EXCEPT !.jsget = BOOLEAN],
      SessCase([Learn EXCEPT !.life = 1], {"stop", "reload"}, 12),
      [SessCase(NoSticky, {}, 10) EXCEPT !.dflt = [Own EXCEPT !.misses = 1, !.js = Challenge]]}} \cup {
   SessCase([Sticky(Own) EXCEPT !.enforce = FALSE], {"suspend", "conns"}, 10), SessCase([Sticky(Own) EXCEPT !.enforce = FALSE], {"del", "reload", "stop"}, 10),
   SessCase([Own EXCEPT !.sticky = "failover"], {"conns", "stop"}, 10),
   SessCase(Sticky(Learn), {"del"}, 10), [SessCase([NoSticky EXCEPT !.sticky = "on"], {"del"}, 10) EXCEPT !.dflt = [Learn EXCEPT !.life = 2]]}
Ses == INSTANCE HttpSess WITH SessEnv <- MCSessEnv, SessCli <- {"a", "b"}, SessReq <- {1, 2}, SessMax <- 2, NoTime <- 100

(* schedulers: static weights, measured and predicted times, lists of hashes *)
Sched0 == [kind |-> "plain", w |-> <<1, 1>>, conns |-> <<<<"ok">>, <<"ok">>>>, off |-> {}, hashes |-> <<>>, msg |-> 0, times |-> {1}, direct |-> {}, rounds |-> 12]
Ok(n) == [i \in 1 .. n |-> <<"ok">>]
HashEntry == [hash : {0, 3, 6, 9, 12}, srv : {1}, ok : BOOLEAN]
MCSchedEnv ==
  {[Sched0 EXCEPT !.w = w, !.conns = Ok(Len(w))] : w \in UNION {[1 .. n -> {1, 2, 3, 7}] : n \in 1 .. 3}}
  \cup {[Sched0 EXCEPT !.kind = "static", !.w = w, !.conns = c, !.off = o, !.direct = {1}, !.rounds = 6] :
          w \in {<<1, 1>>, <<3, 1>>}, o \in SUBSET {1, 2},
          c \in [1 .. 2 -> {<<"ok">>, <<"dead", "nip">>, <<"nip", "ok", "busy">>, <<"nip">>}]}
  \cup {[Sched0 EXCEPT !.kind = k, !.w = [i \in 1 .. n |-> 1], !.conns = Ok(n), !.times = {0, 4, 6, 9}, !.rounds = IF n = 3 THEN 4 ELSE 2] : n \in 3 .. 4, k \in {"dynamic"}}
  \cup {[Sched0 EXCEPT !.kind = k, !.times = {1, 3}, !.rounds = 7] : k \in {"predict"}}
  \cup {[Sched0 EXCEPT !.kind = "hash", !.hashes = h, !.msg = m] : m \in {0, 5, 8, 15}, h \in UNION {[1 .. n -> HashEntry] : n \in 0 .. 3}}
Sc == INSTANCE Sched WITH SchedEnv <- MCSchedEnv, MUL <- 100, SlotN <- 2, Ahead <- 1, HashMax <- 15,
                           got <- taken, pick <- choice

(* configurations: two groups and the implicit one in the middle of changes,
   files that are rejected, the same file twice *)
SrvLine(a, c, wt) == [d |-> "server", addr |-> a, conns |-> c, weight |-> wt]
OptLine(o, v) == [d |-> "opt", o |-> o, v |-> v]
GroupOf(n, b) == [d |-> "group", name |-> n, body |-> b]
ByRatio(t, i) == [name |-> "ratio", type |-> t, idx |-> i, arg |-> [past |-> -1, rate |-> -1, ahead |-> -1]]
ByHash == [name |-> "hash", type |-> "", idx |-> 0, arg |-> <<>>]
Health == [d |-> "health", hm |-> "h1"]
Grace == [d |-> "grace", v |-> 5]
File1 == <<OptLine("qsize", 0), GroupOf("a", <<SrvLine(1, 0, 0), SrvLine(2, 2, 0)>>), OptLine("nip", TRUE)>>
File2 == <<Grace, OptLine("sched", ByHash), GroupOf("a", <<SrvLine(1, 0, 0), OptLine("recns", 2), Health>>), GroupOf("b", <<SrvLine(2, 2, 9)>>)>>
File3 == <<GroupOf("a", <<SrvLine(1, 2, 0), SrvLine(2, 3, 5)>>), OptLine("refwd", 1), SrvLine(3, 1, 0), Health>>
Bad1 == <<GroupOf("a", <<SrvLine(1, 4, 0)>>), [d |-> "bad"]>>
Bads == {<<SrvLine(1, 0, 0), SrvLine(1, 0, 0)>>, <<GroupOf("a", <<Health>>)>>, <<GroupOf("a", <<SrvLine(1, 0, 7), OptLine("sched", ByRatio("dynamic", 2))>>)>>,
  <<GroupOf("a", <<SrvLine(1, 0, 0)>>), GroupOf("a", <<SrvLine(1, 0, 0)>>)>>, <<OptLine("qsize", 1), OptLine("qsize", 2)>>, <<Health, Health>>,
  <<SrvLine(1, 0, 0), [d |-> "health", hm |-> "none"]>>, <<GroupOf("default", <<SrvLine(1, 0, 0)>>), SrvLine(2, 0, 0)>>,
  <<GroupOf("default", <<SrvLine(1, 0, 0)>>), Health>>, <<SrvLine(1, 0, 101)>>,
  <<OptLine("sched", [ByRatio("predict", 2) EXCEPT !.arg.past = 1, !.arg.ahead = 1])>>, <<GroupOf("a", <<SrvLine(1, 0, 0), OptLine("sched", [ByHash EXCEPT !.name = "other"])>>)>>}
Explicit == <<Health, OptLine("jqage", 0), GroupOf("default", <<SrvLine(1, 0, 0), OptLine("sched", [ByRatio("predict", 2) EXCEPT !.arg.past = 9])>>)>>
Dynamic(i) == <<OptLine("sched", ByRatio("dynamic", i)), GroupOf("a", <<SrvLine(1, 0, 0), SrvLine(2, 2, 0)>>)>>
Load(f) == [op |-> "start", file |-> f]
StopAll == [op |-> "stop", file |-> <<>>]
MCRcRuns == {<<Load(File1), Load(File2), StopAll>>, <<Load(File1), Load(Bad1), Load(File2)>>, <<Load(File2), Load(File3), StopAll>>, <<Load(File3), Load(File3), Load(File2)>>,
 <<Load(Explicit), StopAll, Load(File1), StopAll>>, <<Load(Explicit), Load(Explicit)>>, <<Load(Dynamic(2)), Load(Dynamic(0)), Load(File1)>>}
 \cup {<<Load(b), StopAll>> : b \in Bads} \cup {<<Load(File1), Load(b), Load(File3)>> : b \in Bads}
Rc == INSTANCE SrvReconf WITH RcRuns <- MCRcRuns, HmNames <- {"h1"}, w <- rcw

NoFrang == [Frang0 EXCEPT !.loc = F1, !.reqs = {Req0}, !.events = {"req"}]
NoReconf == <<Load(File1), Load(File2), StopAll>>
NoSess == SessCase([Own EXCEPT !.sticky = "failover"], {"conns", "stop"}, 10)
PolicyInit ==
  /\ policy \in {"frang", "sess", "sched", "reconf", "none"}
  /\ fenv \in (IF policy = "frang" THEN MCFrangEnv ELSE {NoFrang})
  /\ senv \in (IF policy = "sess" THEN MCSessEnv ELSE {NoSess})
  /\ scenv \in (IF policy = "sched" THEN MCSchedEnv ELSE {Sched0})
  /\ rcenv \in (IF policy = "reconf" THEN MCRcRuns ELSE {NoReconf})
  /\ Fr!FrangInit /\ Ses!SessInit /\ Sc!SchedInit /\ Rc!ReconfInit
PolicyNext ==
  /\ UNCHANGED policy
  /\ \/ policy = "frang" /\ Fr!FrangNext /\ UNCHANGED <<sessVars, schedVars, reconfVars>>
     \/ policy = "sess" /\ Ses!SessNext /\ UNCHANGED <<frangVars, schedVars, reconfVars>>
     \/ policy = "sched" /\ Sc!SchedNext /\ UNCHANGED <<frangVars, sessVars, reconfVars>>
     \/ policy = "reconf" /\ Rc!ReconfNext /\ UNCHANGED <<frangVars, sessVars, schedVars>>
policyVars == <<policy, frangVars, sessVars, schedVars, reconfVars>>

(* See Frang: a limit is applied as configured, whatever the interleaving.  *)
FrangRight == Fr!FrangRight
(* See HttpSess: a session is its client's, pinned and released once.       *)
SessRight == Ses!SessRight
(* See Sched: a usable server is found, ratios are kept, the timer stops.   *)
SchedRight == Sc!SchedRight
(* See SrvReconf: references are exact, a file is in use or leaves no trace. *)
ReconfRight == Rc!ReconfRight
=============================================================================

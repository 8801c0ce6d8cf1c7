----------------------------- MODULE SrvReconf ------------------------------
(***************************************************************************)
(* Start, live reconfiguration and stop of the server groups (main.c,      *)
(* server.c, sock_srv.c).  A configuration file is parsed into new groups  *)
(* beside the ones in use; when all of it is read, changes are carried     *)
(* over to the groups in use, group by group, and what the file does not   *)
(* name is shut down, at once or when the grace time is over.  Groups and  *)
(* servers live as long as somebody holds a reference.  The state of the   *)
(* program is one record, w, that the handlers of the configuration        *)
(* change in turn; timers and closed connections come in between.          *)
(***************************************************************************)
EXTENDS Integers, Sequences, FiniteSets, FiniteSetsExt, SequencesExt

CONSTANTS
  RcRuns,     \* what happens: sequences of files to load, "stop" among them
  HmNames     \* health monitors that the files define

VARIABLES
  rcenv,      \* what is left of the run
  w,          \* groups g, servers s, descriptions c of groups being configured, tables
              \* tab (sg_hash) and rtab (sg_hash_reconfig), sg_cfg_list, and so on
  rpc,        \* where tfw_start() or tfw_stop() is
  rfile, rpos,
  rflags,     \* tfw_started, tfw_reconfig, mod->started of sock_srv
  rhist       \* how the last load ended, what was in use and marked before it
reconfVars == <<rcenv, w, rpc, rfile, rpos, rflags, rhist>>

INT_MAX == 2147483647
TmoVals == 6          \* ARRAY_SIZE(tfw_srv_tmo_vals)
TFW_CFG_SRV_WEIGHT_DEF == 50
IntOpts == {"qsize", "jqage", "refwd", "recns"}
Opts == IntOpts \cup {"nip", "sched"}
Static == [name |-> "ratio", type |-> "static", idx |-> 0, arg |-> <<>>]
Deflt == [qsize |-> 1000, jqage |-> 60, refwd |-> 5, recns |-> 10, nip |-> FALSE, sched |-> Static]
Unset == [o \in IntOpts |-> 0]
NoFile == <<>>
Fail(x) == [x EXCEPT !.err = "EINVAL"]
-----------------------------------------------------------------------------
(* Objects and references *)
tfw_sg_get(x, i) == [x EXCEPT !.g[i].ref = @ + 1]
tfw_sg_put(x, i) == IF i = 0 THEN x ELSE [x EXCEPT !.g[i].ref = @ - 1]
tfw_server_get(x, j) == [x EXCEPT !.s[j].ref = @ + 1]
tfw_server_put(x, j) ==
  LET y == [x EXCEPT !.s[j].ref = @ - 1]
  IN  IF y.s[j].ref # 0 THEN y ELSE tfw_sg_put(y, y.s[j].sg)
tfw_sg_new(x, name) ==
  [x EXCEPT !.g = Append(@, [name |-> name, ref |-> 1, srvs |-> <<>>, o |-> Unset, nip |-> FALSE,
                             sf |-> [type |-> "", idx |-> 0], sched |-> "none", on |-> FALSE])]
tfw_sg_add_srv(x, i, j) ==
  tfw_sg_get(tfw_server_get([x EXCEPT !.g[i].srvs = <<j>> \o @, !.s[j].sg = i], j), i)
tfw_sg_del_srv(x, i, j) == tfw_server_put([x EXCEPT !.g[i].srvs = Remove(@, j)], j)
Named(x, t, name) == {i \in t : x.g[i].name = name}
tfw_sg_lookup(x, name) == IF Named(x, x.tab, name) = {} THEN 0 ELSE CHOOSE i \in Named(x, x.tab, name) : TRUE
ServersAt(x, i, a) == {j \in Range(x.g[i].srvs) : x.s[j].addr = a}
ForEach(f(_, _), x, q) == FoldLeft(LAMBDA y, j : IF y.err # "" THEN y ELSE f(y, j), x, q)

(* sched->add_grp() and del_grp(): the scheduler's data of each server listed *)
tfw_sg_start_sched(x, i, sched) ==
  ForEach(LAMBDA y, j : [y EXCEPT !.s[j].sdata = sched],
          [x EXCEPT !.g[i].sched = sched, !.g[i].on = TRUE], x.g[i].srvs)
tfw_sg_stop_sched(x, i) ==
  ForEach(LAMBDA y, j : [y EXCEPT !.s[j].sdata = "none"], [x EXCEPT !.g[i].on = FALSE], x.g[i].srvs)
tfw_sg_release(x, i) == ForEach(LAMBDA y, j : tfw_sg_del_srv(y, i, j), tfw_sg_stop_sched(x, i), x.g[i].srvs)
tfw_sg_add_reconfig(x, i) ==
  IF Named(x, x.rtab, x.g[i].name) # {} THEN Fail(tfw_sg_get(x, CHOOSE h \in Named(x, x.rtab, x.g[i].name) : TRUE))
  ELSE tfw_sg_get([x EXCEPT !.rtab = @ \cup {i}], i)
tfw_sg_drop_reconfig(x) ==
  ForEach(tfw_sg_put, [x EXCEPT !.rtab = {}], SetToSeq(x.rtab))
-----------------------------------------------------------------------------
(* Descriptions of groups, TfwCfgSrvGroup *)
NewCfg(x, name, orig) ==
  LET y == tfw_sg_new(x, name)
  IN  [y EXCEPT !.c = Append(@, [orig |-> orig, parsed |-> Len(y.g), mdf |-> {}, nip |-> FALSE,
                                 sf |-> [type |-> "", idx |-> 0], arg |-> <<>>, hm |-> "", live |-> TRUE])]
Enlist(x, k) == [x EXCEPT !.list = <<k>> \o @]
tfw_cfgop_new_sg_cfg(x, name) ==
  LET i == tfw_sg_lookup(x, name)
      y == Enlist(NewCfg(x, name, i), Len(x.c) + 1)
  IN  IF i = 0 THEN y ELSE tfw_sg_get(y, i)
(* The length given with the name counts the final zero, which no group's   *)
(* length does: a group "default" in use is never found.                    *)
tfw_cfgop_new_sg_cfg_def(x) == [NewCfg(x, "default", 0) EXCEPT !.def = Len(x.c) + 1]
tfw_cfgop_lookup_sg_cfg(x, name) == \E k \in Range(x.list) : x.g[x.c[k].parsed].name = name
tfw_cfgop_cleanup_srv_cfg(x, k, release) ==
  LET d == x.c[k]
      y == IF d.orig # 0 \/ release THEN tfw_sg_release(x, d.parsed) ELSE x
  IN  [tfw_sg_put(tfw_sg_put(y, d.parsed), d.orig) EXCEPT !.list = Remove(@, k), !.c[k].live = FALSE]
tfw_cfgop_cleanup_srv_cfgs(x, failed) ==
  LET a == IF x.def # 0 /\ x.def \notin Range(x.list) THEN tfw_cfgop_cleanup_srv_cfg(x, x.def, failed) ELSE x
      b == ForEach(LAMBDA y, k : tfw_cfgop_cleanup_srv_cfg(y, k, failed), a, a.list)
      e == IF x.opts # 0 THEN tfw_cfgop_cleanup_srv_cfg(b, x.opts, TRUE) ELSE b
  IN  [e EXCEPT !.def = 0, !.opts = 0, !.cur = 0]
tfw_sock_srv_cfgclean(x) ==
  tfw_cfgop_cleanup_srv_cfgs(tfw_sg_drop_reconfig([x EXCEPT !.err = ""]), TRUE)
tfw_sock_srv_cfgstart(x) ==
  LET y == [NewCfg([x EXCEPT !.list = <<>>], "__dfltopts__", 0) EXCEPT !.opts = Len(x.c) + 1, !.cur = Len(x.c) + 1]
  IN  [tfw_cfgop_new_sg_cfg_def(y) EXCEPT !.set = {}]
-----------------------------------------------------------------------------
(* Handlers of directives.  0 means no limit to most numbers. *)
Convert(o, v) ==
  CASE o = "refwd" -> v
    [] o = "recns" -> IF v = 0 THEN INT_MAX ELSE Max({v, TmoVals})
    [] o = "jqage" -> IF v = 0 THEN INT_MAX ELSE v * 1000
    [] o = "qsize" -> IF v = 0 THEN INT_MAX ELSE v
(* sched ratio predict past= rate= ahead=, -1 when not given *)
tfw_cfg_handle_ratio_predict(a) ==
  LET past == IF a.past = -1 THEN 30 ELSE a.past
      rate == IF a.rate = -1 THEN 20 ELSE a.rate
      ahead == IF a.ahead # -1 THEN a.ahead ELSE IF past > 1 THEN past \div 2 ELSE 1
  IN  IF past \notin 1 .. 120 \/ rate \notin 1 .. 20 \/ (a.ahead # -1 /\ ahead \notin 1 .. past \div 2) THEN <<>>
      ELSE <<past, rate, ahead>>
tfw_cfgop_sched(x, k, v) ==
  LET y == [x EXCEPT !.g[x.c[k].parsed].sched = v.name]
      arg == IF v.type = "predict" THEN tfw_cfg_handle_ratio_predict(v.arg) ELSE <<>>
  IN  IF v.name \notin {"ratio", "hash"} \/ (v.type = "predict" /\ arg = <<>>) THEN Fail(x)
      ELSE IF v.name # "ratio" THEN y
      ELSE [y EXCEPT !.c[k].sf = [type |-> v.type, idx |-> v.idx],
                     !.c[k].arg = IF v.type = "predict" THEN arg ELSE @]
SetOpt(x, k, o, v) ==
  IF o = "sched" THEN tfw_cfgop_sched(x, k, v)
  ELSE IF o = "nip" THEN [x EXCEPT !.c[k].nip = @ \/ v]
  ELSE [x EXCEPT !.g[x.c[k].parsed].o[o] = Convert(o, v)]
OutOpt(x, o, v) == SetOpt([x EXCEPT !.set = @ \cup {o}], x.opts, o, v)
(* TFW_CFGOP_INHERIT_OPT and its like: what is not given in a group is what
   was given outside before, if anything was *)
InOptDeflt(x, o) ==
  LET k == x.cur
      p == x.g[x.c[x.opts].parsed]
  IN  IF o \notin x.set THEN SetOpt(x, k, o, Deflt[o])
      ELSE IF o = "sched"
           THEN [x EXCEPT !.g[x.c[k].parsed].sched = p.sched, !.c[k].sf = x.c[x.opts].sf, !.c[k].arg = x.c[x.opts].arg]
      ELSE IF o = "nip" THEN [x EXCEPT !.c[k].nip = x.c[x.opts].nip]
      ELSE [x EXCEPT !.g[x.c[k].parsed].o[o] = p.o[o]]
(* A description is not there any more when "default" was a group before. *)
tfw_cfgop_health_monitor(x, k, name) ==
  IF k = 0 THEN [x EXCEPT !.err = "oops"] ELSE [x EXCEPT !.c[k].hm = name]

(* mutant: a server whose number of connections differs is taken as unchanged *)
OrigLookupConns(x, k, j) ==
  LET d == x.c[k]
      same == ServersAt(x, d.orig, x.s[j].addr)
      i == CHOOSE i \in same : TRUE
      m == IF x.s[j].weight # 0 /\ x.s[j].weight # x.s[i].weight THEN "MOD" ELSE "KEEP"
  IN  IF d.orig = 0 THEN x
      ELSE IF same = {} THEN [x EXCEPT !.s[j].act = @ \cup {"ADD"}, !.c[k].mdf = @ \cup {"SRV"}]
      ELSE [x EXCEPT !.s[j].act = @ \cup {m}, !.s[i].act = @ \cup {m}, !.c[k].mdf = @ \cup (IF m = "MOD" THEN {"SRV"} ELSE {})]
tfw_cfgop_server_orig_lookup(x, k, j) ==
  LET d == x.c[k]
      same == ServersAt(x, d.orig, x.s[j].addr)
      i == CHOOSE i \in same : TRUE
      m == IF x.s[i].conn_n # x.s[j].conn_n \/ (x.s[j].weight # 0 /\ x.s[j].weight # x.s[i].weight) THEN "MOD" ELSE "KEEP"
  IN  IF d.orig = 0 THEN x
      ELSE IF same = {} THEN [x EXCEPT !.s[j].act = @ \cup {"ADD"}, !.c[k].mdf = @ \cup {"SRV"}]
      ELSE [x EXCEPT !.s[j].act = @ \cup {m}, !.s[i].act = @ \cup {m}, !.c[k].mdf = @ \cup (IF m = "MOD" THEN {"SRV"} ELSE {})]
tfw_cfgop_server(x, k, d) ==
  LET i == x.c[k].parsed
      j == Len(x.s) + 1
      y == [x EXCEPT !.s = Append(@, [addr |-> d.addr, ref |-> 1, sg |-> 0, weight |-> d.weight,
                                      conn_n |-> IF d.conns = 0 THEN 32 ELSE d.conns, act |-> {}, hm |-> "",
                                      conns |-> "none", timer |-> FALSE, sess |-> FALSE, sdata |-> "none"])]
  IN  IF ServersAt(x, i, d.addr) # {} \/ d.weight \notin 0 .. 100 \/ d.conns \notin 0 .. 65535 THEN Fail(x)
      ELSE tfw_server_put(tfw_cfgop_server_orig_lookup(tfw_sg_add_srv(y, i, j), k, j), j)
tfw_cfgop_out_server(x, d) ==
  LET dd == x.c[x.def]
      y == tfw_sg_add_reconfig(x, IF dd.orig # 0 THEN dd.orig ELSE dd.parsed)
  IN  IF x.def = 0 THEN Fail(x)
      ELSE IF x.g[dd.parsed].srvs # <<>> THEN tfw_cfgop_server(x, x.def, d)
      ELSE IF y.err # "" THEN y ELSE tfw_cfgop_server(Enlist(y, x.def), x.def, d)

tfw_cfgop_sched_changed(x, k) ==
  LET d == x.c[k]
  IN  /\ d.orig # 0
      /\ \/ x.g[d.orig].sched # x.g[d.parsed].sched
         \/ d.sf # [type |-> x.g[d.orig].sf.type, idx |-> 0]
tfw_cfgop_setup_srv_group(x, k) ==
  LET d == x.c[k]
      p == x.g[d.parsed]
      less == d.orig # 0 /\ Len(x.g[d.orig].srvs) # Len(p.srvs)
      y == [x EXCEPT !.c[k].mdf = @ \cup (IF less THEN {"SRV"} ELSE {}), !.g[d.parsed].nip = d.nip, !.g[d.parsed].sf = d.sf]
      weighted == d.sf.type \in {"dynamic", "predict"} /\ \E j \in Range(p.srvs) : x.s[j].weight # 0
      adj(v, j) == IF v.s[j].weight = 0 THEN [v EXCEPT !.s[j].weight = TFW_CFG_SRV_WEIGHT_DEF] ELSE v
      z == IF p.sched = "ratio" THEN ForEach(adj, y, p.srvs) ELSE y
  IN  IF p.sched = "ratio" /\ weighted THEN Fail(y)
      ELSE [z EXCEPT !.c[k].mdf = @ \cup (IF tfw_cfgop_sched_changed(z, k) THEN {"SCHED"} ELSE {})]
tfw_cfgop_begin_srv_group(x, name) ==
  LET y == IF name = "default" THEN [Enlist(x, x.def) EXCEPT !.def = 0] ELSE tfw_cfgop_new_sg_cfg(x, name)
      k == y.list[1]
      d == y.c[k]
  IN  IF tfw_cfgop_lookup_sg_cfg(x, name) THEN Fail(x)
      ELSE [tfw_sg_add_reconfig(y, IF d.orig # 0 THEN d.orig ELSE d.parsed) EXCEPT !.cur = k]
(* Options come once; "server" and "srv_group" may be repeated. *)
Given(q, o) == \E i \in DOMAIN q : q[i].d = "opt" /\ q[i].o = o
Repeated(q, i) == \E h \in 1 .. i - 1 : \/ q[i].d = "opt" /\ q[h].d = "opt" /\ q[h].o = q[i].o
                                        \/ q[i].d \in {"health", "grace"} /\ q[h].d = q[i].d
Group(x, d) ==
  LET in(y, i) == LET e == d.body[i]
                  IN  IF Repeated(d.body, i) THEN Fail(y)
                      ELSE CASE e.d = "opt" -> SetOpt(y, y.cur, e.o, e.v)
                             [] e.d = "server" -> tfw_cfgop_server(y, y.cur, e)
                             [] e.d = "health" -> tfw_cfgop_health_monitor(y, y.cur, e.hm)
                             [] OTHER -> Fail(y)
      a == ForEach(in, tfw_cfgop_begin_srv_group(x, d.name), [i \in 1 .. Len(d.body) |-> i])
      b == ForEach(InOptDeflt, a, SetToSeq({o \in Opts : ~Given(d.body, o)}))
  IN  IF b.err # "" THEN b
      ELSE IF \A i \in DOMAIN d.body : d.body[i].d # "server" THEN Fail(b)
      ELSE [tfw_cfgop_setup_srv_group(b, b.cur) EXCEPT !.cur = b.opts]
spec_handle_entry(x, q, i) ==
  LET d == q[i]
  IN  IF Repeated(q, i) THEN Fail(x)
      ELSE CASE d.d = "opt" -> OutOpt(x, d.o, d.v)
             [] d.d = "server" -> tfw_cfgop_out_server(x, d)
             [] d.d = "health" -> tfw_cfgop_health_monitor(x, x.def, d.hm)
             [] d.d = "grace" -> [x EXCEPT !.gtr = d.v]
             [] d.d = "group" -> Group(x, d)
             [] OTHER -> Fail(x)
spec_finish_handling(x, q) ==
  LET y == ForEach(LAMBDA v, o : OutOpt(v, o, Deflt[o]), x, SetToSeq({o \in Opts : ~Given(q, o)}))
  IN  IF \E i \in DOMAIN q : q[i].d = "grace" THEN y ELSE [y EXCEPT !.gtr = 0]
tfw_sock_srv_cfgend(x) ==
  LET k == x.def
      d == x.c[k]
      o == x.c[x.opts]
      p == x.g[o.parsed]
      y == [x EXCEPT !.g[d.parsed].o = p.o, !.g[d.parsed].sched = p.sched,
                     !.c[k].arg = o.arg, !.c[k].nip = o.nip, !.c[k].sf = o.sf]
      z == tfw_cfgop_setup_srv_group(y, k)
  IN  IF \E i \in Range(x.list) : x.c[i].hm \notin HmNames \cup {""} THEN Fail(x)
      ELSE IF k = 0 THEN x
      ELSE IF x.g[d.parsed].srvs = <<>> THEN [tfw_cfgop_cleanup_srv_cfg(x, k, TRUE) EXCEPT !.def = 0]
      ELSE IF z.err # "" THEN z ELSE [z EXCEPT !.def = 0]
-----------------------------------------------------------------------------
(* Applying.  The connections of a server together hold one reference.  bad *)
(* is the server that there is no memory for, or the group when negative.   *)
tfw_sock_srv_start_srv(x, j, hm, bad) ==
  IF j = bad THEN Fail(x) ELSE tfw_server_get([x EXCEPT !.s[j].conns = "on", !.s[j].hm = hm], j)
tfw_sock_srv_disconnect_srv(x, j) == IF x.s[j].conns = "on" THEN [x EXCEPT !.s[j].conns = "closing"] ELSE x
tfw_sock_srv_grace_shutdown_srv(x, i, j) ==
  LET y == tfw_sg_del_srv([x EXCEPT !.s[j].act = @ \cup {"DEL"}], i, j)
  IN  IF y.gt = 0 THEN tfw_sock_srv_disconnect_srv(y, j)
      ELSE tfw_server_get([y EXCEPT !.s[j].sdata = IF y.s[j].sess THEN y.g[i].sched ELSE @,
                                    !.s[j].timer = TRUE, !.gs = <<j>> \o @], j)
tfw_sock_srv_grace_stop(x, j) ==
  tfw_server_put([tfw_sock_srv_disconnect_srv(x, j) EXCEPT !.s[j].sdata = "none", !.s[j].timer = FALSE,
                                                           !.gs = Remove(@, j)], j)
(* There are never less connections than before; the reference to the parsed
   server is lost when more of them cannot be had. *)
tfw_cfgop_update_srv(x, j, k, bad) ==
  LET same == ServersAt(x, x.c[k].parsed, x.s[j].addr)
      n == CHOOSE n \in same : TRUE
      y == [x EXCEPT !.s[j].weight = x.s[n].weight]
  IN  IF same = {} THEN Fail(x)
      ELSE IF x.s[j].conn_n >= x.s[n].conn_n THEN y
      ELSE IF bad = j THEN [Fail(tfw_server_get(y, n)) EXCEPT !.lost = @ \cup {n}]
      ELSE [y EXCEPT !.s[j].conn_n = x.s[n].conn_n]
tfw_cfgop_update_srv_health(x, j, k) == [x EXCEPT !.s[j].hm = x.c[k].hm]
UpdateSrv(x, i, j, k, bad) ==
  LET y == IF "MOD" \in x.s[j].act THEN tfw_cfgop_update_srv(x, j, k, bad) ELSE x
  IN  IF x.s[j].act = {} THEN tfw_sock_srv_grace_shutdown_srv(x, i, j)
      ELSE IF y.err # "" THEN y ELSE [tfw_cfgop_update_srv_health(y, j, k) EXCEPT !.s[j].act = {}]
(* A new server is taken from the parsed group into the one in use. *)
MoveSrv(x, i, j, k, bad) ==
  LET d == x.c[k]
      a == tfw_sg_del_srv(tfw_server_get(x, j), d.parsed, j)
      b == tfw_server_put(tfw_sg_put(tfw_sg_add_srv(a, i, j), d.parsed), j)
      e == tfw_sock_srv_start_srv(b, j, d.hm, bad)
  IN  IF "ADD" \notin x.s[j].act THEN x ELSE IF e.err # "" THEN e ELSE [e EXCEPT !.s[j].act = {}]
tfw_cfgop_update_sg_srv_list(x, i, k, bad) ==
  ForEach(LAMBDA y, j : MoveSrv(y, i, j, k, bad),
          ForEach(LAMBDA y, j : UpdateSrv(y, i, j, k, bad), x, x.g[i].srvs), x.g[x.c[k].parsed].srvs)
tfw_cfgop_sg_start_sched(x, i, k, bad) ==
  IF x.err # "" THEN x ELSE IF bad = -i THEN Fail(x) ELSE tfw_sg_start_sched(x, i, x.g[x.c[k].parsed].sched)
CopyOpts(x, i, k) ==
  LET p == x.g[x.c[k].parsed] IN [x EXCEPT !.g[i].o = p.o, !.g[i].nip = p.nip, !.g[i].sf = p.sf]
tfw_cfgop_update_sg_cfg(x, k, bad) ==
  LET i == x.c[k].orig
      health(y) == ForEach(LAMBDA v, j : tfw_cfgop_update_srv_health(v, j, k), y, y.g[i].srvs)
      y == CopyOpts(tfw_sg_stop_sched(x, i), i, k)
  IN  IF x.c[k].mdf = {} THEN health(CopyOpts(x, i, k))
      ELSE tfw_cfgop_sg_start_sched(
             IF "SRV" \in x.c[k].mdf THEN tfw_cfgop_update_sg_srv_list(y, i, k, bad) ELSE health(y), i, k, bad)
tfw_cfgop_start_sg_cfg(x, k, bad) ==
  LET d == x.c[k]
  IN  IF d.orig # 0 THEN tfw_cfgop_update_sg_cfg(x, k, bad)
      ELSE tfw_cfgop_sg_start_sched(
             ForEach(LAMBDA y, j : tfw_sock_srv_start_srv(y, j, d.hm, bad), x, x.g[d.parsed].srvs), d.parsed, k, bad)
tfw_sg_apply_reconfig(x) ==
  ForEach(tfw_sg_put, [x EXCEPT !.tab = x.rtab, !.rtab = {}], SetToSeq(x.tab \cap x.rtab))
tfw_sock_srv_grace_shutdown_sg(x, i) ==
  tfw_sg_put(ForEach(LAMBDA y, j : tfw_sock_srv_grace_shutdown_srv(y, i, j), tfw_sg_stop_sched(x, i), x.g[i].srvs), i)
DisconnectAll(x, t) ==
  ForEach(LAMBDA y, i : ForEach(tfw_sock_srv_disconnect_srv, y, y.g[i].srvs), x, SetToSeq(t))
tfw_sg_release_all(x) ==
  ForEach(LAMBDA y, i : tfw_sg_put(tfw_sg_release(y, i), i), [x EXCEPT !.tab = {}], SetToSeq(x.tab))
-----------------------------------------------------------------------------
(* What a group in use looks like from outside, and servers that are marked *)
InUse(x) == {[sg |-> x.g[i], srvs |-> {[x.s[j] EXCEPT !.act = {}, !.sess = FALSE] : j \in Range(x.g[i].srvs)}] : i \in x.tab}
Untouched(x) == {[u EXCEPT !.sg.ref = 0, !.srvs = {[v EXCEPT !.ref = 0] : v \in @}] : u \in InUse(x)}
Marked(x) == {j \in DOMAIN x.s : x.s[j].ref > 0 /\ x.s[j].act # {}}
ReconfInit ==
  /\ rcenv \in RcRuns
  /\ w = [g |-> <<>>, s |-> <<>>, c |-> <<>>, tab |-> {}, rtab |-> {}, list |-> <<>>, opts |-> 0, def |-> 0, cur |-> 0,
          set |-> {}, gt |-> 0, gtr |-> 0, gs |-> <<>>, lost |-> {}, err |-> ""]
  /\ rpc = "idle" /\ rfile = NoFile /\ rpos = 0
  /\ rflags = [started |-> FALSE, reconf |-> FALSE, mod |-> FALSE]
  /\ rhist = [res |-> "none", was |-> {}, marked |-> {}, half |-> FALSE]
tfw_start ==
  /\ rpc = "idle" /\ rcenv # <<>> /\ Head(rcenv).op = "start"
  /\ rcenv' = Tail(rcenv) /\ rfile' = Head(rcenv).file /\ rpos' = 1 /\ rpc' = "parse"
  /\ rflags' = [rflags EXCEPT !.reconf = rflags.started]
  /\ rhist' = [rhist EXCEPT !.res = "loading", !.was = Untouched(w), !.marked = Marked(w)]
  /\ w' = tfw_sock_srv_cfgstart(w)
After(x, pc) == IF x.err = "" THEN pc ELSE IF x.err = "oops" THEN "oops" ELSE "failed"
tfw_cfg_parse ==
  /\ rpc = "parse"
  /\ IF rpos <= Len(rfile)
     THEN /\ w' = spec_handle_entry(w, rfile, rpos)
          /\ rpos' = rpos + 1
          /\ rpc' = After(w', "parse")
     ELSE w' = spec_finish_handling(w, rfile) /\ rpc' = After(w', "cfgend") /\ UNCHANGED rpos
  /\ UNCHANGED <<rcenv, rfile, rflags, rhist>>
tfw_mods_cfgend ==
  /\ rpc = "cfgend"
  /\ w' = tfw_sock_srv_cfgend(w) /\ rpc' = After(w', "start") /\ rpos' = 1
  /\ UNCHANGED <<rcenv, rfile, rflags, rhist>>
CleanupFailed ==
  /\ rpc = "failed"
  /\ w' = tfw_sock_srv_cfgclean(w) /\ rpc' = "idle"
  /\ rhist' = [rhist EXCEPT !.res = "failed"] /\ rflags' = [rflags EXCEPT !.reconf = FALSE]
  /\ UNCHANGED <<rcenv, rfile, rpos>>
(* tfw_sock_srv_start(): one group after the other *)
Broken == rflags' = [rflags EXCEPT !.reconf = FALSE] /\ rpc' = IF rflags.mod THEN "stop" ELSE "sync"
StartGroup ==
  /\ rpc = "start" /\ rpos <= Len(w.list)
  /\ \E bad \in {0} \cup DOMAIN w.s \cup {-i : i \in DOMAIN w.g} :
       w' = tfw_cfgop_start_sg_cfg([w EXCEPT !.gt = w.gtr], w.list[rpos], bad)
  /\ IF w'.err = "" THEN UNCHANGED <<rpc, rflags, rhist>>
     ELSE Broken /\ rhist' = [rhist EXCEPT !.res = "broken", !.half = @ \/ ~rflags.mod]
  /\ rpos' = rpos + 1
  /\ UNCHANGED <<rcenv, rfile>>
ApplyReconfig ==
  /\ rpc = "start" /\ rpos > Len(w.list)
  /\ LET y == tfw_sg_apply_reconfig([w EXCEPT !.gt = w.gtr])
     IN  w' = tfw_cfgop_cleanup_srv_cfgs(ForEach(tfw_sock_srv_grace_shutdown_sg, y, SetToSeq(w.tab \ w.rtab)), FALSE)
  /\ rflags' = [rflags EXCEPT !.mod = TRUE] /\ rpc' = "others"
  /\ UNCHANGED <<rcenv, rfile, rpos, rhist>>
(* The modules that start after the servers do so, or one of them cannot. *)
OthersStart ==
  /\ rpc = "others"
  /\ \/ /\ rpc' = "idle" /\ rflags' = [rflags EXCEPT !.started = TRUE, !.reconf = FALSE]
        /\ rhist' = [rhist EXCEPT !.res = "ok"]
     \/ Broken /\ rhist' = [rhist EXCEPT !.res = "broken"]
  /\ UNCHANGED <<rcenv, w, rfile, rpos>>
tfw_stop ==
  /\ rpc = "idle" /\ rcenv # <<>> /\ Head(rcenv).op = "stop"
  /\ rcenv' = Tail(rcenv) /\ rpc' = IF rflags.started THEN "stop" ELSE "idle"
  /\ rhist' = [rhist EXCEPT !.res = IF rflags.started THEN "stopped" ELSE @]
  /\ UNCHANGED <<w, rfile, rpos, rflags>>
(* tfw_sock_srv_stop() *)
DisconnectReconfig ==
  /\ rpc = "stop"
  /\ w' = DisconnectAll([w EXCEPT !.err = ""], w.rtab) /\ rpc' = "now"
  /\ UNCHANGED <<rcenv, rfile, rpos, rflags, rhist>>
GraceNowTake ==
  /\ rpc = "now" /\ w.gs # <<>>
  /\ rpos' = Head(w.gs) /\ w' = tfw_server_get(w, Head(w.gs)) /\ rpc' = "take"
  /\ UNCHANGED <<rcenv, rfile, rflags, rhist>>
GraceNowStop ==
  /\ rpc = "take"
  /\ w' = tfw_server_put(IF w.s[rpos].timer THEN tfw_sock_srv_grace_stop(w, rpos) ELSE w, rpos)
  /\ rpc' = "now"
  /\ UNCHANGED <<rcenv, rfile, rpos, rflags, rhist>>
ReleaseAll ==
  /\ rpc = "now" /\ w.gs = <<>>
  /\ w' = tfw_sg_release_all(DisconnectAll(w, w.tab)) /\ rpc' = "sync"
  /\ rflags' = [rflags EXCEPT !.mod = FALSE]
  /\ UNCHANGED <<rcenv, rfile, rpos, rhist>>
Closing == {j \in DOMAIN w.s : w.s[j].conns = "closing"}
tfw_cleanup ==
  /\ rpc = "sync" /\ Closing = {}
  /\ w' = tfw_sock_srv_cfgclean(w) /\ rpc' = "idle" /\ rflags' = [rflags EXCEPT !.started = FALSE]
  /\ UNCHANGED <<rcenv, rfile, rpos, rhist>>
(* Meanwhile: connections are released, the grace time of a server ends, a
   session is pinned to a server in use. *)
ConnsReleased ==
  /\ \E j \in Closing : w' = tfw_server_put([w EXCEPT !.s[j].conns = "gone"], j)
  /\ UNCHANGED <<rcenv, rpc, rfile, rpos, rflags, rhist>>
tfw_sock_srv_grace_shutdown_cb ==
  /\ \E j \in Range(w.gs) : w' = tfw_sock_srv_grace_stop(w, j)
  /\ UNCHANGED <<rcenv, rpc, rfile, rpos, rflags, rhist>>
SessionPinned ==
  /\ rpc = "idle"
  /\ \E i \in w.tab : \E j \in Range(w.g[i].srvs) : ~w.s[j].sess /\ w' = [w EXCEPT !.s[j].sess = TRUE]
  /\ UNCHANGED <<rcenv, rpc, rfile, rpos, rflags, rhist>>
ReconfNext ==
  \/ tfw_start \/ tfw_cfg_parse \/ tfw_mods_cfgend \/ CleanupFailed \/ StartGroup \/ ApplyReconfig \/ OthersStart
  \/ tfw_stop \/ DisconnectReconfig \/ GraceNowTake \/ GraceNowStop \/ ReleaseAll \/ tfw_cleanup
  \/ ConnsReleased \/ tfw_sock_srv_grace_shutdown_cb \/ SessionPinned
-----------------------------------------------------------------------------
One(b) == IF b THEN 1 ELSE 0
LiveCfg == {k \in DOMAIN w.c : w.c[k].live}
(* A group or a server has the references that somebody will give back: no  *)
(* object in use is freed, none is left for ever.                           *)
ObjectsCounted ==
  /\ \A i \in DOMAIN w.g :
       w.g[i].ref = One(i \in w.tab) + One(i \in w.rtab) + Cardinality({k \in LiveCfg : w.c[k].parsed = i})
                    + Cardinality({k \in LiveCfg : w.c[k].orig = i})
                    + Cardinality({j \in DOMAIN w.s : w.s[j].ref > 0 /\ w.s[j].sg = i})
  /\ \A j \in DOMAIN w.s :
       w.s[j].ref = One(j \in Range(w.g[w.s[j].sg].srvs)) + One(w.s[j].conns \in {"on", "closing"}) + One(j \in w.lost)
                    + One(j \in Range(w.gs)) + One(rpc = "take" /\ rpos = j)
(* A file that is not accepted changes nothing of what is in use. *)
RejectedIsHarmless == rhist.res = "failed" => Untouched(w) = rhist.was
(* After a stop nothing is left, but for the servers of a first start that
   failed half way, which nobody disconnects, and lost references. *)
StoppedClean ==
  rpc = "idle" /\ ~rflags.started /\ rhist.res # "failed" =>
    \A i \in DOMAIN w.g : w.g[i].ref > 0 =>
      \E j \in DOMAIN w.s : w.s[j].sg = i /\ w.s[j].ref > 0 /\ (j \in w.lost \/ (w.s[j].conns = "on" /\ rhist.half))

(* what the file asks for: the group at n, 0 for the servers outside of groups *)
Groups(q) == {n \in DOMAIN q : q[n].d = "group"} \cup {0 : n \in {n \in DOMAIN q : q[n].d = "server"}}
Body(q, n) == IF n = 0 THEN q ELSE q[n].body
NameOf(q, n) == IF n = 0 THEN "default" ELSE q[n].name
Before(q, n) == IF n = 0 THEN q ELSE SubSeq(q, 1, n - 1)
AskedOpt(q, n, o) ==
  LET given(p) == p[CHOOSE i \in DOMAIN p : p[i].d = "opt" /\ p[i].o = o].v
  IN  IF Given(Body(q, n), o) THEN given(Body(q, n)) ELSE IF Given(Before(q, n), o) THEN given(Before(q, n)) ELSE Deflt[o]
AskedHm(q, n) ==
  LET hms(p) == {p[i].hm : i \in {i \in DOMAIN p : p[i].d = "health"}}
      own == hms(Body(q, n)) \cup (IF NameOf(q, n) = "default" /\ hms(Body(q, n)) = {} THEN hms(Before(q, n)) ELSE {})
  IN  IF own = {} THEN "" ELSE CHOOSE h \in own : TRUE
Asked(q, n) == {Body(q, n)[i] : i \in {i \in DOMAIN Body(q, n) : Body(q, n)[i].d = "server"}}
(* After a load the groups in use are those of the file, with the servers,
   options, scheduler and health monitor it asks for, all of them connected;
   a server it does not name is still there only if an earlier load left its
   mark on it. *)
FileIsInUse ==
  rhist.res = "ok" /\ rpc = "idle" =>
    /\ {w.g[i].name : i \in w.tab} = {NameOf(rfile, n) : n \in Groups(rfile)}
    /\ Cardinality(w.tab) = Cardinality(Groups(rfile))
    /\ \A n \in Groups(rfile) : \A i \in Named(w, w.tab, NameOf(rfile, n)) :
         LET sched == AskedOpt(rfile, n, "sched")
             asked == Asked(rfile, n)
         IN  /\ w.g[i].o = [o \in IntOpts |-> Convert(o, AskedOpt(rfile, n, o))]
             /\ w.g[i].nip = AskedOpt(rfile, n, "nip") /\ w.g[i].on /\ w.g[i].sched = sched.name
             /\ sched.name = "ratio" => w.g[i].sf = [type |-> sched.type, idx |-> sched.idx]
             /\ \A d \in asked : \E j \in ServersAt(w, i, d.addr) :
                  /\ w.s[j].conns = "on" /\ w.s[j].sdata = sched.name /\ w.s[j].hm = AskedHm(rfile, n)
                  /\ d.weight # 0 => w.s[j].weight = d.weight
                  /\ w.s[j].conn_n >= (IF d.conns = 0 THEN 32 ELSE d.conns)
             /\ \A j \in Range(w.g[i].srvs) : (\A d \in asked : d.addr # w.s[j].addr) => j \in rhist.marked
(* Reconfiguration: references are exact, a rejected file is harmless, an
   accepted one is what is in use, and a stop leaves nothing. *)
ReconfRight == ObjectsCounted /\ RejectedIsHarmless /\ StoppedClean /\ FileIsInUse
=============================================================================
